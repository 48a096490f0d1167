----------------------------- MODULE DatapathProofs -----------------------------
(***************************************************************************)
(* Proofs about DatapathPrograms: the six programs compute what exact      *)
(* arithmetic does, for every width of words, guard bits and addresses,    *)
(* every operand and every number of steps.                                *)
(***************************************************************************)
EXTENDS DatapathPrograms, FiniteSetTheorems, WellFoundedInduction, TLAPS

-----------------------------------------------------------------------------
(***************************************************************************)
(* The laws of powers of two, of quotients and of remainders.  2 ^ n is    *)
(* the number of subsets of n elements, so the theorems about finite sets  *)
(* give what the prover itself does not know of powers.                    *)
(***************************************************************************)

\* TLA+ defines a power of two by recursion; the theorems about finite sets know
\* one as the number of subsets.
LEMMA PowerCounts ==
  ASSUME NEW n \in Nat
  PROVE  /\ IsFiniteSet(SUBSET (1 .. n))
         /\ Cardinality(SUBSET (1 .. n)) = 2 ^ n
<1>1. IsFiniteSet(1 .. n) /\ Cardinality(1 .. n) = n
  BY FS_Interval
<1> QED
  BY <1>1, FS_SUBSET

\* Powers of two are positive naturals.
LEMMA PowerType ==
  ASSUME NEW n \in Nat
  PROVE  2 ^ n \in Nat \ {0}
<1>1. 2 ^ n \in Nat
  BY PowerCounts, FS_CardinalityType
<1>2. SUBSET (1 .. n) # {}
  OBVIOUS
<1> QED
  BY <1>1, <1>2, PowerCounts, FS_EmptySet

\* Every set of naturals has a least element.
LEMMA LeastNatural ==
  ASSUME NEW S, S \subseteq Nat, S # {}
  PROVE  \E x \in S : \A y \in S : x <= y
<1> DEFINE R == {p \in Nat \X Nat : p[1] < p[2]}
<1>1. IsWellFoundedOn(R, Nat)
  BY NatLessThanWellFounded, Zenon DEF OpToRel
<1> HIDE DEF R
<1>2. PICK x \in S : \A y \in S : ~ (<<y, x>> \in R)
  BY <1>1, WFMin
<1>3. \A y \in S : x <= y
  <2> TAKE y \in S
  <2>1. ~ (<<y, x>> \in R)
    BY <1>2
  <2>2. x \in Nat /\ y \in Nat
    OBVIOUS
  <2> QED
    BY <2>1, <2>2 DEF R
<1> QED
  BY <1>3

\* Induction over the naturals, for a set.
LEMMA Induction ==
  ASSUME NEW S, 0 \in S, \A n \in Nat : n \in S => n + 1 \in S
  PROVE  Nat \subseteq S
<1> SUFFICES ASSUME Nat \ S # {} PROVE FALSE
  OBVIOUS
<1>1. PICK x \in Nat \ S : \A y \in Nat \ S : x <= y
  <2>1. Nat \ S \subseteq Nat
    OBVIOUS
  <2> QED
    BY <2>1, LeastNatural
<1>2. x - 1 \in Nat /\ x - 1 + 1 = x
  BY <1>1
<1>3. x - 1 \in S
  BY <1>1, <1>2
<1> QED
  BY <1>1, <1>2, <1>3

\* The first power.
LEMMA PowerZero == 2 ^ 0 = 1
<1>1. 1 .. 0 = {}
  OBVIOUS
<1>2. SUBSET (1 .. 0) = {{}}
  BY <1>1
<1> QED
  BY <1>2, PowerCounts, FS_Singleton

\* A power is twice the one before it: the subsets without the last element and
\* those with it.
LEMMA PowerNext ==
  ASSUME NEW n \in Nat
  PROVE  2 ^ (n + 1) = 2 * 2 ^ n
<1> DEFINE A == SUBSET (1 .. n)
           B == {s \in SUBSET (1 .. n + 1) : n + 1 \in s}
           f == [s \in A |-> s \cup {n + 1}]
<1>1. SUBSET (1 .. n + 1) = A \cup B
  <2>1. ASSUME NEW s \in SUBSET (1 .. n + 1), n + 1 \notin s PROVE s \in A
    <3>1. \A x \in s : x \in 1 .. n
      BY <2>1
    <3> QED
      BY <3>1
  <2>2. 1 .. n \subseteq 1 .. n + 1
    OBVIOUS
  <2> QED
    BY <2>1, <2>2
<1>2. A \cap B = {}
  OBVIOUS
<1>3. f \in [A -> B]
  <2>1. ASSUME NEW s \in A PROVE s \cup {n + 1} \in B
    <3>1. s \cup {n + 1} \subseteq 1 .. n + 1
      OBVIOUS
    <3> QED
      BY <3>1
  <2> QED
    BY <2>1
<1>4. \A s, t \in A : f[s] = f[t] => s = t
  <2> SUFFICES ASSUME NEW s \in A, NEW t \in A, s \cup {n + 1} = t \cup {n + 1}
               PROVE  s = t
    OBVIOUS
  <2>1. n + 1 \notin s /\ n + 1 \notin t
    OBVIOUS
  <2> QED
    BY <2>1
<1>5. \A t \in B : \E s \in A : f[s] = t
  <2> SUFFICES ASSUME NEW t \in B PROVE \E s \in A : f[s] = t
    OBVIOUS
  <2>1. t \ {n + 1} \in A
    <3>1. \A x \in t \ {n + 1} : x \in 1 .. n
      OBVIOUS
    <3> QED
      BY <3>1
  <2>2. (t \ {n + 1}) \cup {n + 1} = t
    OBVIOUS
  <2> QED
    BY <2>1, <2>2
<1> HIDE DEF f
<1>6. f \in Bijection(A, B)
  BY <1>3, <1>4, <1>5 DEF Bijection, Injection, Surjection, IsInjective
<1>7. IsFiniteSet(A) /\ Cardinality(A) = 2 ^ n
  BY PowerCounts
<1> HIDE DEF A, B
<1>8. Cardinality(A \cup B) = 2 ^ (n + 1)
  <2>1. n + 1 \in Nat
    OBVIOUS
  <2>2. Cardinality(SUBSET (1 .. n + 1)) = 2 ^ (n + 1)
    BY <2>1, PowerCounts
  <2> QED
    BY <1>1, <2>2
<1>9. IsFiniteSet(B) /\ Cardinality(B) = 2 ^ n
  BY <1>6, <1>7, FS_Bijection DEF ExistsBijection
<1>10. Cardinality(A \cup B) = Cardinality(A) + Cardinality(B)
  <2>1. Cardinality(A \cap B) = 0
    BY <1>2, FS_EmptySet
  <2>2. Cardinality(A \cup B) = Cardinality(A) + Cardinality(B) - Cardinality(A \cap B)
    BY <1>7, <1>9, FS_Union
  <2> QED
    BY <1>7, <1>9, <2>1, <2>2, PowerType
<1> QED
  BY <1>7, <1>8, <1>9, <1>10, PowerType

\* The power of a sum is the product of the powers.
LEMMA PowerSum ==
  ASSUME NEW m \in Nat, NEW n \in Nat
  PROVE  2 ^ (m + n) = 2 ^ m * 2 ^ n
<1> DEFINE S == {k \in Nat : 2 ^ (m + k) = 2 ^ m * 2 ^ k}
<1>1. 0 \in S
  BY PowerZero, PowerType
<1>2. ASSUME NEW k \in Nat, k \in S PROVE k + 1 \in S
  <2>1. 2 ^ (m + k + 1) = 2 * 2 ^ (m + k) /\ 2 ^ (k + 1) = 2 * 2 ^ k
    BY PowerNext
  <2>2. 2 ^ m \in Nat /\ 2 ^ k \in Nat
    BY PowerType
  <2>3. m + (k + 1) = m + k + 1
    OBVIOUS
  <2> QED
    BY <1>2, <2>1, <2>2, <2>3
<1> HIDE DEF S
<1>3. Nat \subseteq S
  BY <1>1, <1>2, Induction
<1> QED
  BY <1>3 DEF S

\* A larger exponent gives no smaller power.
LEMMA PowerGrows ==
  ASSUME NEW m \in Nat, NEW n \in Nat, m <= n
  PROVE  2 ^ m <= 2 ^ n
<1>1. n - m \in Nat /\ m + (n - m) = n
  OBVIOUS
<1>2. 2 ^ n = 2 ^ m * 2 ^ (n - m)
  BY <1>1, PowerSum
<1>3. 2 ^ m \in Nat \ {0} /\ 2 ^ (n - m) \in Nat \ {0}
  BY <1>1, PowerType
<1> QED
  BY <1>2, <1>3

-----------------------------------------------------------------------------
(* Remainders *)

\* Quotient and remainder, for dividends of either sign.
LEMMA Division ==
  ASSUME NEW x \in Int, NEW n \in Nat \ {0}
  PROVE  /\ x \div n \in Int
         /\ x % n \in 0 .. n - 1
         /\ x = n * (x \div n) + (x % n)
  OBVIOUS

\* Only zero times n lies strictly between -n and n.
LEMMA SmallMultiple ==
  ASSUME NEW n \in Nat \ {0}, NEW k \in Int, n * k > -n, n * k < n
  PROVE  k = 0
  OBVIOUS

\* Quotient and remainder are known by the range of the remainder.
LEMMA DivisionUnique ==
  ASSUME NEW n \in Nat \ {0}, NEW q \in Int, NEW k \in 0 .. n - 1, NEW x \in Int, x = n * q + k
  PROVE  x % n = k /\ x \div n = q
<1>1. x = n * (x \div n) + (x % n) /\ x % n \in 0 .. n - 1 /\ x \div n \in Int
  BY Division
<1>2. n * (q - (x \div n)) = (x % n) - k
  BY <1>1
<1>3. q - (x \div n) = 0
  BY <1>1, <1>2, SmallMultiple
<1> QED
  BY <1>1, <1>3

\* Two numbers a multiple apart have the same remainder.
LEMMA SameRemainder ==
  ASSUME NEW n \in Nat \ {0}, NEW x \in Int, NEW q \in Int
  PROVE  (x + n * q) % n = x % n
<1>1. x = n * (x \div n) + (x % n) /\ x % n \in 0 .. n - 1 /\ x \div n \in Int
  BY Division
<1>2. x + n * q = n * ((x \div n) + q) + (x % n)
  BY <1>1
<1>3. (x \div n) + q \in Int /\ x + n * q \in Int
  BY <1>1
<1> QED
  BY <1>1, <1>2, <1>3, DivisionUnique

\* A summand may be reduced before it is added.
LEMMA RemainderOfSum ==
  ASSUME NEW n \in Nat \ {0}, NEW x \in Int, NEW y \in Int
  PROVE  (x + (y % n)) % n = (x + y) % n
<1>1. y = n * (y \div n) + (y % n) /\ y % n \in 0 .. n - 1 /\ y \div n \in Int
  BY Division
<1>2. x + y = (x + (y % n)) + n * (y \div n)
  BY <1>1
<1>3. x + (y % n) \in Int
  BY <1>1
<1> QED
  BY <1>1, <1>2, <1>3, SameRemainder

-----------------------------------------------------------------------------
(***************************************************************************)
(* Words: a remainder modulo a power of two and its signed reading.        *)
(***************************************************************************)

\* A remainder is a natural below its divisor.
LEMMA RemainderType ==
  ASSUME NEW x \in Int, NEW n \in Nat \ {0}
  PROVE  x % n \in 0 .. n - 1 /\ x % n \in Int
<1>1. x % n \in 0 .. n - 1
  BY Division
<1> QED
  BY <1>1

\* A number in range is its own remainder.
LEMMA OwnRemainder ==
  ASSUME NEW n \in Nat \ {0}, NEW x \in 0 .. n - 1
  PROVE  x % n = x /\ x \div n = 0
<1>1. x \in Int /\ x = n * 0 + x /\ 0 \in Int
  OBVIOUS
<1> QED
  BY <1>1, DivisionUnique

\* Reducing the operands of a sum or a difference first changes nothing.
LEMMA RemainderOfRemainders ==
  ASSUME NEW n \in Nat \ {0}, NEW x \in Int, NEW y \in Int
  PROVE  /\ ((x % n) + y) % n = (x + y) % n
         /\ ((x % n) - y) % n = (x - y) % n
         /\ (x - (y % n)) % n = (x - y) % n
<1>1. x = n * (x \div n) + (x % n) /\ x % n \in 0 .. n - 1 /\ x \div n \in Int
  BY Division
<1>2. y = n * (y \div n) + (y % n) /\ y % n \in 0 .. n - 1 /\ y \div n \in Int
  BY Division
<1> DEFINE q == x \div n
           m == x % n
           c == y \div n
           d == y % n
<1>3. m \in Int /\ d \in Int /\ q \in Int /\ c \in Int /\ x = n * q + m /\ y = n * c + d
  BY <1>1, <1>2
<1> HIDE DEF q, m, c, d
<1>4. /\ x + y = (m + y) + n * q /\ m + y \in Int
      /\ x - y = (m - y) + n * q /\ m - y \in Int
      /\ x - d = (x - y) + n * c /\ x - y \in Int
  BY <1>3
<1>5. ((m + y) + n * q) % n = (m + y) % n
  BY <1>3, <1>4, SameRemainder
<1>6. ((m - y) + n * q) % n = (m - y) % n
  BY <1>3, <1>4, SameRemainder
<1>7. ((x - y) + n * c) % n = (x - y) % n
  BY <1>3, <1>4, SameRemainder
<1> QED
  BY <1>4, <1>5, <1>6, <1>7 DEF m, d

\* A power and the one below it.
LEMMA HalfPower ==
  ASSUME NEW w \in Nat \ {0}
  PROVE  /\ w - 1 \in Nat
         /\ 2 ^ (w - 1) \in Nat \ {0}
         /\ 2 ^ w \in Nat \ {0}
         /\ 2 ^ w = 2 * 2 ^ (w - 1)
<1>1. w - 1 \in Nat /\ (w - 1) + 1 = w
  OBVIOUS
<1>2. 2 ^ ((w - 1) + 1) = 2 * 2 ^ (w - 1)
  BY <1>1, PowerNext
<1> QED
  BY <1>1, <1>2, PowerType

\* A word in two's complement.
LEMMA SignedRange ==
  ASSUME NEW w \in Nat \ {0}, NEW v \in 0 .. 2 ^ w - 1
  PROVE  /\ Signed(v, w) \in -(2 ^ (w - 1)) .. 2 ^ (w - 1) - 1
         /\ Negative(v, w) <=> Signed(v, w) < 0
         /\ v = Signed(v, w) % 2 ^ w
         /\ v = IF Negative(v, w) THEN Signed(v, w) + 2 ^ w ELSE Signed(v, w)
<1> DEFINE h == 2 ^ (w - 1)
           n == 2 ^ w
           s == Signed(v, w)
<1>1. h \in Nat \ {0} /\ n \in Nat \ {0} /\ n = 2 * h
  BY HalfPower
<1>2. s = IF v >= h THEN v - n ELSE v
  BY DEF Signed, Negative
<1>3. Negative(v, w) <=> v >= h
  BY DEF Negative
<1>4. v \in 0 .. n - 1 /\ v \in Int
  BY <1>1
<1> HIDE DEF h, n, s
<1>5. s \in -h .. h - 1 /\ (v >= h <=> s < 0) /\ s \in Int
  BY <1>1, <1>2, <1>4
<1>6. v = IF v >= h THEN s + n ELSE s
  BY <1>1, <1>2, <1>4
<1>7. v = s % n
  <2>1. CASE v >= h
    <3>1. s = n * (-1) + v /\ -1 \in Int
      BY <1>1, <1>2, <1>4, <2>1
    <3> QED
      BY <1>1, <1>4, <1>5, <3>1, DivisionUnique
  <2>2. CASE ~(v >= h)
    BY <1>1, <1>2, <1>4, <2>2, OwnRemainder
  <2> QED
    BY <2>1, <2>2
<1> QED
  BY <1>3, <1>5, <1>6, <1>7 DEF h, n, s

\* A number that fits is what the word of its low bits says.
LEMMA SignedOfRemainder ==
  ASSUME NEW w \in Nat \ {0}, NEW e \in -(2 ^ (w - 1)) .. 2 ^ (w - 1) - 1
  PROVE  /\ Signed(e % 2 ^ w, w) = e
         /\ Negative(e % 2 ^ w, w) <=> e < 0
<1> DEFINE h == 2 ^ (w - 1)
           n == 2 ^ w
           v == e % n
<1>1. h \in Nat \ {0} /\ n \in Nat \ {0} /\ n = 2 * h
  BY HalfPower
<1>2. e \in -h .. h - 1 /\ e \in Int
  BY <1>1
<1>3. Signed(v, w) = IF v >= h THEN v - n ELSE v
  BY DEF Signed, Negative
<1>4. Negative(v, w) <=> v >= h
  BY DEF Negative
<1> HIDE DEF h
<1>5. v = IF e < 0 THEN e + n ELSE e
  <2> HIDE DEF n
  <2>1. CASE e < 0
    <3>1. e = n * (-1) + (e + n) /\ e + n \in 0 .. n - 1 /\ -1 \in Int
      BY <1>1, <1>2, <2>1
    <3>2. e % n = e + n
      BY <1>1, <1>2, <3>1, DivisionUnique
    <3> QED
      BY <2>1, <3>2 DEF v
  <2>2. CASE ~(e < 0)
    <3>1. e \in 0 .. n - 1
      BY <1>1, <1>2, <2>2
    <3> QED
      BY <1>1, <2>2, <3>1, OwnRemainder
  <2> QED
    BY <2>1, <2>2
<1>6. Signed(v, w) = e /\ (Negative(v, w) <=> e < 0)
  <2> HIDE DEF n, v
  <2> QED
    BY <1>1, <1>2, <1>3, <1>4, <1>5
<1> QED
  BY <1>6

\* A bit shifted in at the end of a word.
LEMMA DoubledExact ==
  ASSUME NEW x \in Int, NEW low \in BOOLEAN
  PROVE  Doubled(x % 2 ^ W, low) = (2 * x + Number(low)) % 2 ^ W
<1> DEFINE n == 2 ^ W
           h == 2 ^ (W - 1)
           b == Number(low)
           v == x % n
           q == x \div n
           t == (2 * v) % n
           z == (2 * v) \div n
<1>1. n \in Nat \ {0} /\ h \in Nat \ {0} /\ n = 2 * h
  BY DatapathConstants, HalfPower
<1>2. b \in {0, 1}
  BY DEF Number
<1>3. x = n * q + v /\ v \in 0 .. n - 1 /\ q \in Int
  <2> HIDE DEF n
  <2> QED
    BY <1>1, Division
<1>4. Doubled(v, low) = t + b
  BY DEF Doubled
<1> HIDE DEF h, b, q
<1>5. 2 * v \in Int
  <2> HIDE DEF n, v
  <2> QED
    BY <1>1, <1>3
<1>6. 2 * v = n * z + t /\ t \in 0 .. n - 1 /\ z \in Int
  <2> HIDE DEF n, v
  <2> QED
    BY <1>1, <1>5, Division
<1>7. (2 * x + b) % n = t + b
  <2> HIDE DEF n, v, t, z
  <2>1. t = 2 * (v - h * z)
    BY <1>1, <1>3, <1>6
  <2>2. v - h * z \in Int
    BY <1>1, <1>3, <1>6
  <2>3. t + b \in 0 .. n - 1
    <3> DEFINE y == v - h * z
    <3>1. y \in Int /\ t = 2 * y
      BY <2>1, <2>2
    <3> HIDE DEF y
    <3> QED
      BY <1>1, <1>2, <1>6, <3>1
  <2>4. 2 * x + b = n * (2 * q + z) + (t + b)
    <3>1. 2 * x + b = 2 * (n * q) + 2 * v + b
      BY <1>1, <1>2, <1>3
    <3>2. n * (2 * q + z) = 2 * (n * q) + n * z
      BY <1>1, <1>3, <1>6
    <3> QED
      BY <1>1, <1>2, <1>3, <1>6, <3>1, <3>2
  <2>5. 2 * q + z \in Int /\ 2 * x + b \in Int
    BY <1>2, <1>3, <1>6
  <2> QED
    BY <1>1, <2>3, <2>4, <2>5, DivisionUnique
<1> QED
  BY <1>4, <1>7 DEF b

-----------------------------------------------------------------------------
(***************************************************************************)
(* The circular buffer.                                                    *)
(***************************************************************************)

\* BitLength is the number of bits of a buffer length.
LEMMA BitLengthBounds ==
  ASSUME NEW l \in 1 .. 2 ^ (Address - 1)
  PROVE  BitLength(l) \in 0 .. Address /\ l < 2 ^ BitLength(l)
<1> DEFINE S == {n \in 0 .. Address : l < 2 ^ n}
<1>0. Address \in Nat /\ Address - 1 \in Nat /\ Address - 1 + 1 = Address
  BY DatapathConstants
<1>1. Address \in S
  <2>1. 2 ^ Address = 2 * 2 ^ (Address - 1) /\ 2 ^ (Address - 1) \in Nat \ {0}
    BY <1>0, PowerNext, PowerType
  <2> QED
    BY <1>0, <2>1
<1>2. S \subseteq Nat /\ S # {}
  BY <1>0, <1>1
<1> HIDE DEF S
<1>3. PICK n \in S : \A k \in S : n <= k
  BY <1>2, LeastNatural
<1>4. n \in 0 .. Address /\ l < 2 ^ n
  BY <1>3 DEF S
<1>5. n > 0 => l >= 2 ^ (n - 1)
  <2> SUFFICES ASSUME n > 0, ~(l >= 2 ^ (n - 1)) PROVE FALSE
    OBVIOUS
  <2>1. n - 1 \in 0 .. Address /\ n - 1 \in Nat
    BY <1>0, <1>4
  <2>2. 2 ^ (n - 1) \in Nat
    BY <2>1, PowerType
  <2>3. n - 1 \in S
    BY <2>1, <2>2 DEF S
  <2> QED
    BY <1>3, <1>4, <2>3
<1> QED
  BY <1>4, <1>5 DEF BitLength

\* Every address of a buffer has the buffer's base.
LEMMA BaseOf ==
  ASSUME NEW l \in 1 .. 2 ^ (Address - 1), NEW i \in Nat,
         NEW j \in CircularBase(i, l) .. CircularBase(i, l) + l - 1
  PROVE  CircularBase(j, l) = CircularBase(i, l)
<1> DEFINE k == 2 ^ BitLength(l)
<1>1. k \in Nat \ {0} /\ l < k
  BY BitLengthBounds, PowerType
<1>2. CircularBase(i, l) = i - (i % k) /\ CircularBase(j, l) = j - (j % k)
  BY DEF CircularBase
<1> HIDE DEF k
<1>3. i \in Int
  OBVIOUS
<1>4. i % k \in 0 .. k - 1 /\ i \div k \in Int /\ i = k * (i \div k) + (i % k)
  BY <1>1, <1>3, Division
<1> DEFINE q == i \div k
           m == i % k
<1>5. m \in 0 .. k - 1 /\ q \in Int /\ i = k * q + m
  BY <1>4
<1>6. CircularBase(i, l) = i - m
  BY <1>2
<1> HIDE DEF q, m
<1>7. k * q \in Int
  BY <1>1, <1>5
<1> DEFINE kq == k * q
<1>8. kq \in Int /\ i = kq + m
  BY <1>5, <1>7
<1>9. m \in Int
  BY <1>1, <1>5
<1>10. CircularBase(i, l) = kq
  <2> HIDE DEF kq
  <2> QED
    BY <1>3, <1>6, <1>8, <1>9
<1>11. l \in Int
  <2>1. 2 ^ (Address - 1) \in Int
    BY DatapathConstants, PowerType
  <2> QED
    BY <2>1
<1>12. j \in Int /\ j - kq \in 0 .. k - 1 /\ j = kq + (j - kq)
  <2>1. j \in kq .. kq + l - 1
    BY <1>10
  <2> HIDE DEF kq
  <2> QED
    BY <1>1, <1>8, <1>11, <2>1
<1> DEFINE d == j - kq
<1>13. d \in 0 .. k - 1 /\ j = k * q + d
  BY <1>12
<1> HIDE DEF d
<1>14. j % k = d
  BY <1>1, <1>5, <1>12, <1>13, DivisionUnique
<1>15. j - d = kq
  <2> HIDE DEF kq
  <2> QED
    BY <1>8, <1>12 DEF d
<1> QED
  BY <1>2, <1>10, <1>14, <1>15

\* M as a signed number.
LEMMA SignedType ==
  ASSUME NEW v \in Int, NEW w \in Nat \ {0}
  PROVE  Signed(v, w) \in Int
<1>1. 2 ^ w \in Nat
  BY PowerType
<1> QED
  BY <1>1 DEF Signed

\* A legal move stays in the buffer, where the sum of the moves puts it.
LEMMA MoveInBuffer ==
  ASSUME NEW l \in 1 .. 2 ^ (Address - 1), NEW base \in Nat, NEW i \in base .. base + l - 1,
         NEW m, CircularBase(i, l) = base, base + l <= 2 ^ Address,
         Signed(m, Address) \in -l .. l
  PROVE  /\ NextAddress(i, m, l) \in base .. base + l - 1
         /\ NextAddress(i, m, l) = base + ((i - base + Signed(m, Address)) % l)
<1> DEFINE s == Signed(m, Address)
           moved == IF i + s < base THEN i + s + l
                    ELSE IF i + s >= base + l THEN i + s - l ELSE i + s
<1>1. /\ 2 ^ Address \in Nat \ {0} /\ 2 ^ (Address - 1) \in Nat
      /\ Address - 1 \in Nat
  BY DatapathConstants, PowerType
<1>2. l \in Nat \ {0} /\ i \in Int
  BY <1>1
<1>3. NextAddress(i, m, l) = moved % 2 ^ Address
  BY <1>2 DEF NextAddress
<1> HIDE DEF s
<1>4. s \in -l .. l
  BY DEF s
<1>5. moved \in base .. base + l - 1
  BY <1>2, <1>4
<1>6. PICK q \in {-1, 0, 1} : i - base + s = l * q + (moved - base)
  BY <1>2, <1>4
<1>8. moved - base \in 0 .. l - 1 /\ i - base + s \in Int
  BY <1>2, <1>4, <1>5
<1> HIDE DEF moved
<1>7. moved % 2 ^ Address = moved
  <2> DEFINE n == 2 ^ Address
  <2>1. n \in Nat \ {0} /\ base + l <= n
    BY <1>1
  <2> HIDE DEF n
  <2>2. n \in Nat \ {0} /\ moved \in 0 .. n - 1
    BY <1>2, <1>5, <2>1
  <2>3. moved % n = moved
    BY <2>2, OwnRemainder
  <2> QED
    BY <2>3 DEF n
<1>9. (i - base + s) % l = moved - base
  <2> DEFINE x == i - base + s
             d == moved - base
  <2>1. l \in Nat \ {0} /\ x \in Int /\ d \in 0 .. l - 1 /\ x = l * q + d /\ q \in Int
    BY <1>2, <1>6, <1>8
  <2> HIDE DEF x, d
  <2>2. x % l = d
    BY <2>1, DivisionUnique
  <2> QED
    BY <2>2 DEF x, d
<1> QED
  BY <1>2, <1>3, <1>5, <1>7, <1>9 DEF s

\* The pointer is in its buffer, which fits the address space.
BufferInv ==
  program = "BUFFER" =>
    LET base == CircularBase(given.start, given.length)
    IN /\ given.start \in Nat
       /\ given.length \in 1 .. 2 ^ (Address - 1)
       /\ base \in Nat
       /\ base + given.length <= 2 ^ Address
       /\ exact \in Int
       /\ r.i \in base .. base + given.length - 1
       /\ r.i = base + ((given.start - base + exact) % given.length)

\* The pointer starts in its buffer.
LEMMA InitBufferInv == Init => BufferInv
<1> SUFFICES ASSUME Init, program = "BUFFER" PROVE BufferInv
  BY DEF BufferInv
<1>1. InitBuffer /\ exact = 0
  BY DEF Init, InitDivide, InitNormalize, InitBlock, InitAccumulate, InitDouble
<1> DEFINE i == given.start
           l == given.length
           k == 2 ^ BitLength(l)
           base == CircularBase(i, l)
<1>2. Address - 1 \in Nat /\ Address \in Nat
  BY DatapathConstants
<1>3. 2 ^ Address \in Nat /\ 2 ^ (Address - 1) \in Nat
  BY <1>2, PowerType
<1>4. i \in Nat /\ l \in 1 .. 2 ^ (Address - 1) /\ r.i = i
  BY <1>1, <1>3 DEF InitBuffer, AddressSpace
<1>5. base = i - (i % k)
  BY DEF CircularBase
<1>6. k \in Nat \ {0}
  BY <1>4, BitLengthBounds, PowerType
<1> HIDE DEF k
<1>7. i % k \in 0 .. k - 1 /\ i \div k \in Int /\ i = k * (i \div k) + (i % k)
  <2>1. i \in Int
    BY <1>4
  <2> HIDE DEF i
  <2> QED
    BY <1>6, <2>1, Division
<1>8. base \in Nat /\ i >= base
  <2>1. i \div k \in Nat
    BY <1>4, <1>6
  <2>2. base = k * (i \div k)
    BY <1>4, <1>5, <1>6, <1>7
  <2>3. k * (i \div k) \in Nat
    BY <1>6, <2>1
  <2>4. i % k >= 0
    BY <1>6, <1>7
  <2> HIDE DEF i, base
  <2> QED
    BY <1>4, <1>5, <1>7, <2>2, <2>3, <2>4
<1>9. i < base + l /\ base + l <= 2 ^ Address
  BY <1>1, <1>4 DEF InitBuffer, ConfigurationValid
<1>10. (i - base + exact) % l = i - base
  <2>1. i - base \in 0 .. l - 1 /\ i - base + exact = l * 0 + (i - base) /\ l \in Nat \ {0}
    BY <1>1, <1>3, <1>4, <1>8, <1>9
  <2>2. i - base + exact \in Int
    BY <1>1, <1>4, <1>8
  <2> HIDE DEF i, l, base
  <2> QED
    BY <2>1, <2>2, DivisionUnique
<1> QED
  BY <1>1, <1>4, <1>8, <1>9, <1>10 DEF BufferInv

\* A legal MODIFY keeps it there, one length off or on at an end.
LEMMA MoveKeepsBuffer ==
  ASSUME BufferInv, MODIFY
  PROVE  BufferInv'
<1> DEFINE i == given.start
           l == given.length
           base == CircularBase(i, l)
<1>1. program = "BUFFER" /\ UNCHANGED <<program, given>>
  BY DEF MODIFY, Issue
<1>2. PICK m \in AddressSpace :
        /\ ConfigurationValid(r.i, m, l)
        /\ r' = [i |-> NextAddress(r.i, m, l)]
        /\ exact' = (exact + Signed(m, Address)) % l
  BY DEF MODIFY
<1> DEFINE s == Signed(m, Address)
<1>3. /\ i \in Nat /\ l \in 1 .. 2 ^ (Address - 1)
      /\ base \in Nat /\ base + l <= 2 ^ Address
      /\ exact \in Int
      /\ r.i \in base .. base + l - 1
      /\ r.i = base + ((i - base + exact) % l)
  BY <1>1 DEF BufferInv
<1>4. l \in Nat \ {0}
  <2>1. 2 ^ (Address - 1) \in Nat
    BY DatapathConstants, PowerType
  <2> QED
    BY <1>3, <2>1
<1>5. CircularBase(r.i, l) = base
  BY <1>3, BaseOf
<1>6. s \in -l .. l
  BY <1>2, <1>4 DEF ConfigurationValid
<1> HIDE DEF i, l, base, s
<1>7. /\ NextAddress(r.i, m, l) \in base .. base + l - 1
      /\ NextAddress(r.i, m, l) = base + ((r.i - base + s) % l)
  BY <1>3, <1>5, <1>6, MoveInBuffer DEF s
<1>8. (r.i - base + s) % l = (i - base + exact') % l
  <2>1. s \in Int /\ i - base + exact \in Int /\ exact + s \in Int /\ i - base \in Int
    BY <1>3, <1>4, <1>6
  <2>2. r.i - base + s = s + ((i - base + exact) % l)
    <3>1. (i - base + exact) % l \in Int
      BY <1>4, <2>1, Division
    <3> QED
      BY <1>3, <2>1, <3>1
  <2>3. (s + ((i - base + exact) % l)) % l = (s + (i - base + exact)) % l
    BY <1>4, <2>1, RemainderOfSum
  <2>4. (i - base + ((exact + s) % l)) % l = (i - base + (exact + s)) % l
    BY <1>4, <2>1, RemainderOfSum
  <2>5. s + (i - base + exact) = i - base + (exact + s)
    BY <1>3, <2>1
  <2>6. exact' = (exact + s) % l
    BY <1>2 DEF s, l
  <2> QED
    BY <2>2, <2>3, <2>4, <2>5, <2>6
<1>9. exact' \in Int
  <2>1. exact + s \in Int
    BY <1>3, <1>4, <1>6
  <2> QED
    BY <1>2, <1>4, <2>1, Division DEF s, l
<1>10. given' = given /\ r'.i = NextAddress(r.i, m, l)
  BY <1>1, <1>2 DEF l
<1> QED
  BY <1>3, <1>7, <1>8, <1>9, <1>10 DEF BufferInv, i, l, base

\* What the other programs do is none of the buffer's business.
LEMMA OthersLeaveBuffer ==
  ASSUME BufferInv, [Next]_vars, ~MODIFY
  PROVE  BufferInv'
<1>1. CASE UNCHANGED vars
  BY <1>1 DEF vars, BufferInv
<1>2. CASE Next
  <2>1. program # "BUFFER" /\ UNCHANGED program
    BY <1>2 DEF Next, DIVS, DIVQ, EXPHI, EXPLO, NORM, EXPADJ, MAC, SATMR, AluLow, AluHigh, ALU,
                Issue
  <2> QED
    BY <2>1 DEF BufferInv
<1> QED
  BY <1>1, <1>2

\* The pointer of a circular buffer stays in the buffer and is where the sum of
\* its moves puts it, for every base, length and legal M.
THEOREM BufferStaysCircular == Spec => []BufferCircular
<1>1. BufferInv => BufferCircular
  BY BaseOf DEF BufferInv, BufferCircular
<1>2. BufferInv /\ [Next]_vars => BufferInv'
  BY MoveKeepsBuffer, OthersLeaveBuffer
<1> QED
  BY <1>1, <1>2, InitBufferInv, PTL DEF Spec

-----------------------------------------------------------------------------
(***************************************************************************)
(* The division.  After k bits the upper part, doubled, is the remainder,  *)
(* corrected by one divisor when AQ is set.                                *)
(***************************************************************************)

\* What the double word is divided by, in the fractional format, without sign.
Magnitude(divisor) == IF Signed(divisor, W) < 0 THEN -Signed(divisor, W) ELSE Signed(divisor, W)

\* The partial remainder p, the quotient bits q found and the dividend bits l
\* not yet used, after k instructions on the dividend n.  A wrong last quotient
\* bit is what AQ remembers.
PartialDivision(s, k, n, divisor, q, p, l) ==
  /\ q \in -(2 ^ (k - 1)) .. 2 ^ (k - 1) - 1
  /\ l \in 0 .. 2 ^ (W - k) - 1
  /\ p \in -(2 * Magnitude(divisor)) .. 2 * Magnitude(divisor) - 1
  /\ s.af = p % 2 ^ W
  /\ s.ay0 = l * 2 ^ k + (q % 2 ^ k)
  /\ s.aq = ((p < 0) # Negative(divisor, W))
  /\ n = 2 ^ (W - k) * (p + 2 * Signed(divisor, W) * (q + Number(s.aq))) + l

\* The state of the division unit after k quotient bits of n.
PartiallyDivided(s, k, n, divisor) ==
  \E q, p, l \in Int : PartialDivision(s, k, n, divisor, q, p, l)

\* The magnitude of a word.
LEMMA MagnitudeRange ==
  ASSUME NEW divisor \in Word
  PROVE  /\ Signed(divisor, W) \in Int
         /\ Magnitude(divisor) \in 0 .. 2 ^ (W - 1)
         /\ Negative(divisor, W) <=> Signed(divisor, W) < 0
         /\ Signed(divisor, W) = IF Negative(divisor, W) THEN -Magnitude(divisor)
                                 ELSE Magnitude(divisor)
<1>1. W \in Nat \ {0} /\ 2 ^ (W - 1) \in Nat \ {0}
  BY DatapathConstants, HalfPower
<1>2. Signed(divisor, W) \in -(2 ^ (W - 1)) .. 2 ^ (W - 1) - 1
  BY <1>1, SignedRange DEF Word
<1>3. Negative(divisor, W) <=> Signed(divisor, W) < 0
  BY <1>1, SignedRange DEF Word
<1> DEFINE h == 2 ^ (W - 1)
           d == Signed(divisor, W)
<1> HIDE DEF h, d
<1>4. h \in Nat \ {0} /\ d \in -h .. h - 1
  BY <1>1, <1>2 DEF h, d
<1>5. d \in Int /\ (IF d < 0 THEN -d ELSE d) \in 0 .. h
  BY <1>4
<1>6. Magnitude(divisor) = (IF d < 0 THEN -d ELSE d)
  BY DEF Magnitude, d
<1>7. d = IF d < 0 THEN -Magnitude(divisor) ELSE Magnitude(divisor)
  BY <1>5, <1>6
<1> QED
  BY <1>3, <1>5, <1>6, <1>7 DEF h, d

\* The next bit of the dividend leaves AY0 and one bit of the quotient enters.
LEMMA QuotientShifts ==
  ASSUME NEW k \in 1 .. W - 1, NEW low \in BOOLEAN,
         NEW q \in -(2 ^ (k - 1)) .. 2 ^ (k - 1) - 1, NEW l \in 0 .. 2 ^ (W - k) - 1
  PROVE  LET v == l * 2 ^ k + (q % 2 ^ k)
             b == Number(Negative(v, W))
             a == 2 ^ (W - k - 1)
         IN /\ b \in {0, 1}
            /\ l - a * b \in 0 .. a - 1
            /\ Doubled(v, low)
                 = (l - a * b) * 2 ^ (k + 1) + ((2 * q + Number(low)) % 2 ^ (k + 1))
            /\ 2 * q + Number(low) \in -(2 ^ k) .. 2 ^ k - 1
<1> DEFINE c == 2 ^ (k - 1)
           m == 2 ^ k
           a == 2 ^ (W - k - 1)
           h == 2 ^ (W - 1)
           n == 2 ^ W
           u == q % m
           v == l * m + u
           b == Number(Negative(v, W))
           e == Number(low)
<1>1. W \in Nat \ {0} /\ k \in Nat \ {0} /\ W - k \in Nat \ {0} /\ k + 1 \in Nat \ {0}
  BY DatapathConstants
<1>2. /\ c \in Nat \ {0} /\ m \in Nat \ {0} /\ m = 2 * c
      /\ a \in Nat \ {0} /\ 2 ^ (W - k) = 2 * a
      /\ h \in Nat \ {0} /\ n \in Nat \ {0} /\ n = 2 * h
  BY <1>1, HalfPower
<1>3. h = a * m
  <2>1. (W - k - 1) + k = W - 1 /\ W - k - 1 \in Nat
    BY <1>1
  <2> QED
    BY <1>1, <2>1, PowerSum
<1>4. 2 ^ (k + 1) = 2 * m
  BY <1>1, PowerNext
<1>5. q \in -c .. c - 1 /\ l \in 0 .. 2 * a - 1 /\ e \in {0, 1} /\ q \in Int /\ l \in Int
  BY <1>2 DEF Number
<1>6. u \in 0 .. m - 1 /\ u \in Int
  <2> HIDE DEF m
  <2> QED
    BY <1>2, <1>5, RemainderType
<1>7. b = IF v >= h THEN 1 ELSE 0
  BY DEF Negative, Number
<1>8. Doubled(v, low) = ((2 * v) % n) + e
  BY DEF Doubled
<1> HIDE DEF c, m, a, h, n, u, e
<1>9. l * m \in Int /\ v \in Int
  BY <1>2, <1>5, <1>6
<1>10. b \in {0, 1} /\ l - a * b \in 0 .. a - 1
  <2>1. CASE l >= a
    <3>1. (l - a) * m \in Nat
      BY <1>2, <1>5, <2>1
    <3>2. l * m = (l - a) * m + a * m
      BY <1>2, <1>5
    <3>3. v >= h
      BY <1>2, <1>3, <1>6, <1>9, <3>1, <3>2
    <3>4. b = 1
      BY <1>7, <3>3
    <3> HIDE DEF b
    <3> QED
      BY <1>2, <1>5, <2>1, <3>4
  <2>2. CASE ~(l >= a)
    <3>1. (a - 1 - l) * m \in Nat
      BY <1>2, <1>5, <2>2
    <3>2. a * m = (a - 1 - l) * m + l * m + m
      BY <1>2, <1>5
    <3>3. ~(v >= h)
      BY <1>2, <1>3, <1>6, <1>9, <3>1, <3>2
    <3>4. b = 0
      BY <1>7, <3>3
    <3> HIDE DEF b
    <3> QED
      BY <1>2, <1>5, <2>2, <3>4
  <2> QED
    BY <2>1, <2>2
<1> DEFINE f == l - a * b
<1> HIDE DEF b
<1>11. f \in Int /\ f \in 0 .. a - 1 /\ l = f + a * b
  BY <1>2, <1>5, <1>10
<1> HIDE DEF f
<1>12. (2 * v) % n = 2 * (f * m + u)
  <2> DEFINE y == f * m + u
  <2>1. f * m \in Nat /\ (a - 1 - f) * m \in Nat
    BY <1>2, <1>11
  <2>2. a * m = (a - 1 - f) * m + f * m + m
    BY <1>2, <1>11
  <2>3. y \in 0 .. h - 1
    BY <1>2, <1>3, <1>6, <2>1, <2>2
  <2>4. l * m = f * m + h * b
    <3>1. CASE b = 0
      BY <1>2, <1>11, <3>1
    <3>2. CASE b = 1
      <4>1. l = f + a
        BY <1>2, <1>11, <3>2
      <4>2. l * m = f * m + a * m
        BY <1>2, <1>11, <4>1
      <4> QED
        BY <1>2, <1>3, <3>2, <4>2
    <3> QED
      BY <1>10, <3>1, <3>2
  <2>5. v = y + h * b
    <3> DEFINE lm == l * m
               fm == f * m
               hb == h * b
    <3>1. lm \in Int /\ fm \in Int /\ hb \in Int /\ lm = fm + hb /\ v = lm + u /\ y = fm + u
      BY <1>2, <1>9, <1>10, <2>1, <2>4
    <3> HIDE DEF lm, fm, hb, v, y
    <3>2. v = y + hb
      BY <1>6, <3>1
    <3> QED
      BY <3>2 DEF hb
  <2> HIDE DEF y, v
  <2>6. 2 * v = n * b + 2 * y
    BY <1>2, <1>9, <1>10, <2>3, <2>5
  <2>7. 2 * y \in 0 .. n - 1 /\ 2 * v \in Int /\ b \in Int
    BY <1>2, <1>9, <1>10, <2>3
  <2>8. (2 * v) % n = 2 * y
    <3> DEFINE vv == 2 * v
               yy == 2 * y
    <3>1. vv = n * b + yy /\ yy \in 0 .. n - 1 /\ vv \in Int /\ b \in Int
      BY <2>6, <2>7
    <3> HIDE DEF vv, yy
    <3>2. n \in Nat \ {0}
      BY <1>2
    <3>3. vv % n = yy
      BY <3>1, <3>2, DivisionUnique
    <3> QED
      BY <3>3 DEF vv, yy
  <2> QED
    BY <2>8 DEF y
<1>13. (2 * q + e) % (2 * m) = 2 * u + e
  <2>1. q = m * (q \div m) + u /\ q \div m \in Int
    <3>1. q = m * (q \div m) + (q % m) /\ q \div m \in Int
      BY <1>2, <1>5, Division
    <3> QED
      BY <3>1 DEF u
  <2> DEFINE g == q \div m
  <2>2. g \in Int /\ q = m * g + u
    BY <2>1
  <2> HIDE DEF g
  <2>3. 2 * q + e = (2 * m) * g + (2 * u + e)
    <3>1. m * g \in Int /\ (2 * m) * g = 2 * (m * g)
      BY <1>2, <2>2
    <3> QED
      BY <1>5, <1>6, <2>2, <3>1
  <2>4. 2 * u + e \in 0 .. 2 * m - 1 /\ 2 * q + e \in Int /\ 2 * m \in Nat \ {0}
    BY <1>2, <1>5, <1>6
  <2> DEFINE x == 2 * q + e
             y == 2 * u + e
             mm == 2 * m
  <2>5. x = mm * g + y /\ y \in 0 .. mm - 1 /\ x \in Int /\ mm \in Nat \ {0}
    BY <2>3, <2>4
  <2> HIDE DEF g, x, y, mm
  <2>6. x % mm = y
    BY <2>2, <2>5, DivisionUnique
  <2> QED
    BY <2>6 DEF x, y, mm
<1>14. 2 * q + e \in -m .. m - 1
  BY <1>2, <1>5
<1>15. Doubled(v, low) = f * (2 * m) + (2 * u + e)
  <2>1. f * m \in Int /\ f * (2 * m) = 2 * (f * m)
    BY <1>2, <1>11
  <2> HIDE DEF v
  <2> QED
    BY <1>5, <1>6, <1>8, <1>12, <2>1
<1> QED
  BY <1>4, <1>10, <1>13, <1>14, <1>15 DEF b, f, m, e, a, u

\* One DIVQ: the remainder doubles, the divisor is subtracted or added back.
LEMMA DivideStepExact ==
  ASSUME NEW k \in 1 .. W - 1, NEW divisor \in Word, NEW n \in Int, NEW s,
         PartiallyDivided(s, k, n, divisor)
  PROVE  PartiallyDivided(DivideStep(s, divisor), k + 1, n, divisor)
<1> DEFINE d == Signed(divisor, W)
           e == Magnitude(divisor)
           neg == Negative(divisor, W)
           full == 2 ^ W
           h == 2 ^ (W - 1)
           a == 2 ^ (W - k - 1)
           raw == (IF s.aq THEN s.af + divisor ELSE s.af - divisor) % full
           aq == (Negative(raw, W) # neg)
           b == Number(Negative(s.ay0, W))
           t == DivideStep(s, divisor)
<1>1. PICK q, p, l \in Int : PartialDivision(s, k, n, divisor, q, p, l)
  BY DEF PartiallyDivided
<1>2. W \in Nat \ {0} /\ k \in Nat \ {0} /\ W - k \in Nat \ {0} /\ W - k - 1 \in Nat
  BY DatapathConstants
<1>3. /\ full \in Nat \ {0} /\ h \in Nat \ {0} /\ full = 2 * h
      /\ a \in Nat \ {0} /\ 2 ^ (W - k) = 2 * a
  BY <1>2, HalfPower
<1>4. /\ d \in Int /\ e \in 0 .. h /\ (neg <=> d < 0)
      /\ d = IF neg THEN -e ELSE e
  BY MagnitudeRange
<1>5. e \in Int /\ neg \in BOOLEAN
  BY <1>3, <1>4 DEF Negative
<1>6. /\ q \in -(2 ^ (k - 1)) .. 2 ^ (k - 1) - 1
      /\ l \in 0 .. 2 ^ (W - k) - 1
      /\ p \in -(2 * e) .. 2 * e - 1
      /\ s.af = p % full
      /\ s.ay0 = l * 2 ^ k + (q % 2 ^ k)
      /\ s.aq = ((p < 0) # neg)
      /\ n = 2 ^ (W - k) * (p + 2 * d * (q + Number(s.aq))) + l
  BY <1>1 DEF PartialDivision
<1> DEFINE rest == IF s.aq THEN p + d ELSE p - d
<1>7. t.af = Doubled(raw, Negative(s.ay0, W)) /\ t.ay0 = Doubled(s.ay0, ~aq) /\ t.aq = aq
  BY DEF DivideStep
<1>8. rest \in Int /\ rest \in -e .. e - 1
  <2> HIDE DEF d, e, neg
  <2>1. s.aq <=> ((p < 0) # neg)
    BY <1>6
  <2>2. CASE neg
    <3>1. d = -e /\ (s.aq <=> ~(p < 0))
      BY <1>4, <2>1, <2>2
    <3> QED
      BY <1>5, <1>6, <3>1
  <2>3. CASE ~neg
    <3>1. d = e /\ (s.aq <=> p < 0)
      BY <1>4, <1>5, <2>1, <2>3
    <3> QED
      BY <1>5, <1>6, <3>1
  <2> QED
    BY <2>2, <2>3
<1>9. raw = rest % full
  <2>1. divisor = d % full
    BY <1>2, SignedRange DEF Word
  <2>2. divisor \in Int
    BY <1>3 DEF Word
  <2> HIDE DEF d, full
  <2>9. full \in Nat \ {0} /\ p \in Int /\ d \in Int
    BY <1>3, <1>4
  <2>3. ((p % full) + divisor) % full = (p + d) % full
    <3>1. p % full \in Int
      BY <1>3, RemainderType
    <3>2. ((p % full) + (d % full)) % full = ((p % full) + d) % full
      BY <1>3, <1>4, <3>1, RemainderOfSum
    <3>3. ((p % full) + d) % full = (p + d) % full
      BY <2>9, RemainderOfRemainders
    <3> QED
      BY <2>1, <3>2, <3>3
  <2>4. ((p % full) - divisor) % full = (p - d) % full
    <3>1. p % full \in Int
      BY <1>3, RemainderType
    <3>2. ((p % full) - (d % full)) % full = ((p % full) - d) % full
      BY <1>3, <1>4, <3>1, RemainderOfRemainders
    <3>3. ((p % full) - d) % full = (p - d) % full
      BY <2>9, RemainderOfRemainders
    <3> QED
      BY <2>1, <3>2, <3>3
  <2>5. CASE s.aq
    BY <1>6, <2>3, <2>5
  <2>6. CASE ~s.aq
    BY <1>6, <2>4, <2>6
  <2> QED
    BY <2>5, <2>6
<1>10. Negative(raw, W) <=> rest < 0
  <2> HIDE DEF e, rest
  <2>1. rest \in -(2 ^ (W - 1)) .. 2 ^ (W - 1) - 1
    BY <1>3, <1>4, <1>8
  <2> QED
    BY <1>2, <1>9, <2>1, SignedOfRemainder
<1>11. aq = ((rest < 0) # neg) /\ aq \in BOOLEAN
  <2>1. Negative(raw, W) = (rest < 0)
    <3>1. Negative(raw, W) \in BOOLEAN
      BY DEF Negative
    <3> HIDE DEF raw, rest
    <3> QED
      BY <1>8, <1>10, <3>1
  <2> HIDE DEF neg, rest, raw
  <2> QED
    BY <2>1, Zenon
<1> DEFINE q1 == 2 * q + Number(~aq)
           l1 == l - a * b
           p1 == 2 * rest + b
<1>12. /\ b \in {0, 1}
       /\ l1 \in 0 .. a - 1
       /\ Doubled(s.ay0, ~aq) = l1 * 2 ^ (k + 1) + (q1 % 2 ^ (k + 1))
       /\ q1 \in -(2 ^ k) .. 2 ^ k - 1
  <2>1. (~aq) \in BOOLEAN
    BY Zenon
  <2> DEFINE low == ~aq
  <2>2. low \in BOOLEAN
    BY <2>1
  <2> HIDE DEF low
  <2> HIDE DEF aq
  <2>3. LET v == l * 2 ^ k + (q % 2 ^ k)
            c == Number(Negative(v, W))
        IN /\ c \in {0, 1}
           /\ l - a * c \in 0 .. a - 1
           /\ Doubled(v, low)
                = (l - a * c) * 2 ^ (k + 1) + ((2 * q + Number(low)) % 2 ^ (k + 1))
           /\ 2 * q + Number(low) \in -(2 ^ k) .. 2 ^ k - 1
    BY <1>6, <2>2, QuotientShifts
  <2> QED
    BY <1>6, <2>3 DEF low
<1>13. t.af = p1 % full
  <2>1. Negative(s.ay0, W) \in BOOLEAN
    BY DEF Negative
  <2> HIDE DEF rest
  <2>2. Doubled(rest % 2 ^ W, Negative(s.ay0, W)) = (2 * rest + b) % 2 ^ W
    BY <1>8, <2>1, DoubledExact
  <2> QED
    BY <1>7, <1>9, <2>2
<1>14. p1 \in -(2 * e) .. 2 * e - 1 /\ p1 \in Int /\ (p1 < 0 <=> rest < 0)
  <2> HIDE DEF e, rest, b
  <2> QED
    BY <1>5, <1>8, <1>12
<1>15. n = a * (p1 + 2 * d * (q1 + Number(aq))) + l1
  <2> DEFINE c == Number(s.aq)
  <2>1. q1 + Number(aq) = 2 * q + 1
    <3> HIDE DEF aq
    <3> QED
      BY <1>11 DEF Number
  <2>2. c \in {0, 1} /\ rest = p + d * (2 * c - 1)
    <3> HIDE DEF d
    <3> QED
      BY <1>4 DEF Number
  <2> DEFINE dq == d * q
             dc == d * c
             ap == a * p
             adq == a * dq
             ad == a * d
             adc == a * dc
             ab == a * b
  <2> HIDE DEF d, c, a, b, rest
  <2>3. /\ dq \in Int /\ dc \in Int /\ ap \in Int /\ adq \in Int /\ ad \in Int /\ adc \in Int
        /\ ab \in Int
    BY <1>3, <1>4, <1>12, <2>2
  <2>4. n = 2 * ap + 4 * adq + 4 * adc + l
    <3>1. n = (2 * a) * (p + 2 * d * (q + c)) + l
      BY <1>3, <1>6 DEF c
    <3>2. 2 * d * (q + c) = 2 * dq + 2 * dc
      BY <1>4, <2>2
    <3>3. (2 * a) * (p + (2 * dq + 2 * dc)) = 2 * ap + 4 * adq + 4 * adc
      <4> HIDE DEF dq, dc
      <4> QED
        BY <1>3, <2>3
    <3> QED
      BY <3>1, <3>2, <3>3
  <2>5. a * (p1 + 2 * d * (2 * q + 1)) = 2 * ap + 4 * adq + 4 * adc + ab
    <3>1. rest = p + 2 * dc - d
      BY <1>4, <2>2, <2>3
    <3>2. 2 * d * (2 * q + 1) = 4 * dq + 2 * d
      BY <1>4
    <3>3. p1 + (4 * dq + 2 * d) = 2 * p + 4 * dc + b + 4 * dq
      <4> HIDE DEF dq, dc
      <4> QED
        BY <1>4, <1>12, <2>3, <3>1
    <3>4. a * (2 * p + 4 * dc + b + 4 * dq) = 2 * ap + 4 * adc + ab + 4 * adq
      <4> HIDE DEF dq, dc
      <4> QED
        BY <1>3, <1>12, <2>3
    <3> QED
      BY <2>3, <3>2, <3>3, <3>4
  <2>6. n = a * (p1 + 2 * d * (2 * q + 1)) + l1
    <3> HIDE DEF adq, adc, ap, p1, dq, dc
    <3> QED
      BY <2>3, <2>4, <2>5
  <2> QED
    BY <2>1, <2>6
<1>16. W - (k + 1) = W - k - 1 /\ (k + 1) - 1 = k
  BY <1>2
<1>17. q1 \in Int /\ l1 \in Int
  <2>1. 2 ^ k \in Int
    BY <1>2, PowerType
  <2> HIDE DEF q1, l1, a
  <2> QED
    BY <1>3, <1>12, <2>1
<1>18. PartialDivision(t, k + 1, n, divisor, q1, p1, l1)
  <2>1. t.aq = ((p1 < 0) # neg)
    BY <1>7, <1>11, <1>14
  <2>2. t.ay0 = l1 * 2 ^ (k + 1) + (q1 % 2 ^ (k + 1))
    BY <1>7, <1>12
  <2> HIDE DEF t, q1, p1, l1
  <2>3. n = 2 ^ (W - (k + 1)) * (p1 + 2 * d * (q1 + Number(t.aq))) + l1
    BY <1>7, <1>15, <1>16
  <2>4. q1 \in -(2 ^ ((k + 1) - 1)) .. 2 ^ ((k + 1) - 1) - 1
          /\ l1 \in 0 .. 2 ^ (W - (k + 1)) - 1
    BY <1>12, <1>16
  <2> QED
    BY <1>13, <1>14, <2>1, <2>2, <2>3, <2>4 DEF PartialDivision
<1> QED
  BY <1>14, <1>17, <1>18 DEF PartiallyDivided

\* The quotient is a fraction: it fits one word.
Divisible(n, divisor) ==
  /\ n < 2 * Magnitude(divisor) * 2 ^ (W - 1)
  /\ -n < 2 * Magnitude(divisor) * 2 ^ (W - 1)

\* A sign bit alone is a word of one bit.
LEMMA SignBit ==
  ASSUME NEW sign \in BOOLEAN
  PROVE  LET q == IF sign THEN -1 ELSE 0
         IN q \in -1 .. 0 /\ q % 2 = Number(sign) /\ q + Number(sign) = 0
<1>1. (-1) % 2 = 1
  <2>1. -1 = 2 * (-1) + 1 /\ -1 \in Int /\ 1 \in 0 .. 2 - 1 /\ 2 \in Nat \ {0}
    OBVIOUS
  <2> QED
    BY <2>1, DivisionUnique
<1>2. 0 % 2 = 0
  BY OwnRemainder
<1>3. CASE sign
  BY <1>1, <1>3 DEF Number
<1>4. CASE ~sign
  BY <1>2, <1>4 DEF Number
<1> QED
  BY <1>3, <1>4

\* DIVS: the first quotient bit is the sign.
LEMMA DivideSignExact ==
  ASSUME NEW upper \in Word, NEW ay0 \in Word, NEW divisor \in Word,
         Divisible(Double(upper, ay0), divisor)
  PROVE  PartiallyDivided(DivideSign(upper, ay0, divisor), 1, Double(upper, ay0), divisor)
<1> DEFINE u == Signed(upper, W)
           e == Magnitude(divisor)
           full == 2 ^ W
           h == 2 ^ (W - 1)
           b == Number(Negative(ay0, W))
           sign == (Negative(upper, W) # Negative(divisor, W))
           n == Double(upper, ay0)
           t == DivideSign(upper, ay0, divisor)
           p == 2 * u + b
           q == IF sign THEN -1 ELSE 0
           l == ay0 - h * b
<1>1. W \in Nat \ {0}
  BY DatapathConstants
<1>2. full \in Nat \ {0} /\ h \in Nat \ {0} /\ full = 2 * h
  BY <1>1, HalfPower
<1>3. /\ u \in -h .. h - 1 /\ u \in Int /\ (Negative(upper, W) <=> u < 0)
      /\ upper = u % full
  <2>1. /\ u \in -h .. h - 1 /\ (Negative(upper, W) <=> u < 0)
        /\ upper = u % full
    BY <1>1, SignedRange DEF Word
  <2> HIDE DEF u, h
  <2> QED
    BY <1>2, <2>1
<1>4. ay0 \in 0 .. full - 1 /\ ay0 \in Int
  BY <1>2 DEF Word
<1>5. b = IF ay0 >= h THEN 1 ELSE 0
  BY DEF Negative, Number
<1>6. b \in {0, 1} /\ l \in 0 .. h - 1 /\ l \in Int
  <2> HIDE DEF h, full, b
  <2> QED
    BY <1>2, <1>4, <1>5
<1>7. t.af = p % full
  <2>1. Negative(ay0, W) \in BOOLEAN
    BY DEF Negative
  <2>2. t.af = Doubled(upper, Negative(ay0, W))
    BY DEF DivideSign
  <2> HIDE DEF u
  <2>3. Doubled(u % 2 ^ W, Negative(ay0, W)) = (2 * u + b) % 2 ^ W
    BY <1>3, <2>1, DoubledExact
  <2> QED
    BY <1>3, <2>2, <2>3
<1>8. sign \in BOOLEAN
  BY Zenon
<1>9. q \in -1 .. 0 /\ q % 2 = Number(sign) /\ q + Number(sign) = 0
  <2> HIDE DEF sign
  <2> QED
    BY <1>8, SignBit
<1>10. t.ay0 = l * 2 + (q % 2)
  <2>1. t.ay0 = ((2 * ay0) % full) + Number(sign)
    BY DEF DivideSign, Doubled
  <2>2. (2 * ay0) % full = 2 * l
    <3> DEFINE x == 2 * ay0
               y == 2 * l
    <3> HIDE DEF h, full, b
    <3>1. x = full * b + y /\ y \in 0 .. full - 1 /\ x \in Int /\ b \in Int
      <4> HIDE DEF l
      <4>1. h * b \in Int /\ ay0 = l + h * b
        BY <1>2, <1>4, <1>6 DEF l
      <4>2. full * b = 2 * (h * b)
        BY <1>2, <1>6
      <4> QED
        BY <1>2, <1>4, <1>6, <4>1, <4>2
    <3> HIDE DEF x, y
    <3>2. full \in Nat \ {0}
      BY <1>2
    <3>3. x % full = y
      BY <3>1, <3>2, DivisionUnique
    <3> QED
      BY <3>3 DEF x, y
  <2>3. l * 2 = 2 * l
    <3> HIDE DEF l
    <3> QED
      BY <1>6
  <2> QED
    BY <1>9, <2>1, <2>2, <2>3
<1>11. p \in Int /\ (p < 0 <=> u < 0)
  <2> HIDE DEF u, b
  <2> QED
    BY <1>3, <1>6
<1>12. t.aq = ((p < 0) # Negative(divisor, W))
  <2>1. t.aq = sign
    BY DEF DivideSign
  <2>2. Negative(upper, W) = (p < 0)
    <3>1. Negative(upper, W) \in BOOLEAN
      BY DEF Negative
    <3> HIDE DEF p
    <3> QED
      BY <1>3, <1>11, <3>1
  <2> HIDE DEF p
  <2> QED
    BY <2>1, <2>2, Zenon
<1>13. n = h * p + l
  <2>1. n = u * full + ay0
    BY DEF Double
  <2> HIDE DEF u, h, full, b, n
  <2>2. h * u \in Int /\ h * b \in Int /\ u * full = 2 * (h * u) /\ h * p = 2 * (h * u) + h * b
    BY <1>2, <1>3, <1>6
  <2> QED
    BY <1>2, <1>4, <2>1, <2>2
<1>14. n = h * (p + 2 * Signed(divisor, W) * (q + Number(t.aq))) + l
  <2>1. q + Number(t.aq) = 0
    <3>1. t.aq = sign
      BY DEF DivideSign
    <3> HIDE DEF sign, q, t
    <3> QED
      BY <1>9, <3>1
  <2>2. Signed(divisor, W) \in Int
    BY MagnitudeRange
  <2>3. 2 * Signed(divisor, W) * (q + Number(t.aq)) = 0
    BY <2>1, <2>2
  <2> HIDE DEF p, q, t
  <2>4. p + 2 * Signed(divisor, W) * (q + Number(t.aq)) = p
    BY <1>11, <2>3
  <2> QED
    BY <1>13, <2>4
<1>15. p \in -(2 * e) .. 2 * e - 1
  <2>1. e \in Nat
    <3>1. h \in Int
      BY <1>2
    <3> HIDE DEF h
    <3>2. e \in 0 .. h
      BY MagnitudeRange DEF h
    <3> QED
      BY <3>1, <3>2
  <2>2. n < 2 * e * h /\ -n < 2 * e * h
    BY DEF Divisible
  <2> HIDE DEF e, h, p, l, n
  <2>3. p < 2 * e
    <3> SUFFICES ASSUME p - 2 * e >= 0 PROVE FALSE
      BY <1>11, <2>1
    <3>1. h * (p - 2 * e) \in Nat
      BY <1>2, <1>11, <2>1
    <3>2. h * p = h * (p - 2 * e) + 2 * e * h
      BY <1>2, <1>11, <2>1
    <3>3. h * p \in Int /\ 2 * e * h \in Int
      BY <1>2, <1>11, <2>1
    <3> QED
      BY <1>6, <1>13, <2>2, <3>1, <3>2, <3>3
  <2>4. p >= -(2 * e)
    <3> SUFFICES ASSUME -(2 * e) - p - 1 >= 0 PROVE FALSE
      BY <1>11, <2>1
    <3>1. h * (-(2 * e) - p - 1) \in Nat
      BY <1>2, <1>11, <2>1
    <3>2. h * p = -(h * (-(2 * e) - p - 1)) - 2 * e * h - h
      BY <1>2, <1>11, <2>1
    <3>3. h * p \in Int /\ 2 * e * h \in Int
      BY <1>2, <1>11, <2>1
    <3> QED
      BY <1>2, <1>6, <1>13, <2>2, <3>1, <3>2, <3>3
  <2> QED
    BY <1>11, <2>1, <2>3, <2>4
<1>16. PartialDivision(t, 1, n, divisor, q, p, l)
  <2>1. 2 ^ (1 - 1) = 1 /\ 2 ^ 1 = 2
    <3>1. 2 ^ (0 + 1) = 2 * 2 ^ 0
      BY PowerNext
    <3> QED
      BY <3>1, PowerZero
  <2> HIDE DEF t, n, q, p, l, e, h
  <2>2. q \in -(2 ^ (1 - 1)) .. 2 ^ (1 - 1) - 1
    BY <1>9, <2>1
  <2>3. l \in 0 .. 2 ^ (W - 1) - 1
    BY <1>6 DEF h
  <2>4. t.ay0 = l * 2 ^ 1 + (q % 2 ^ 1)
    BY <1>10, <2>1
  <2>5. p \in -(2 * Magnitude(divisor)) .. 2 * Magnitude(divisor) - 1
    BY <1>15 DEF e
  <2>6. n = 2 ^ (W - 1) * (p + 2 * Signed(divisor, W) * (q + Number(t.aq))) + l
    BY <1>14 DEF h
  <2> QED
    BY <1>7, <1>12, <2>2, <2>3, <2>4, <2>5, <2>6 DEF PartialDivision
<1>17. q \in Int
  <2> HIDE DEF q
  <2> QED
    BY <1>9
<1> QED
  BY <1>6, <1>11, <1>16, <1>17 DEF PartiallyDivided

\* After W instructions every bit of AY0 is a quotient bit.
LEMMA DivisionEnds ==
  ASSUME NEW divisor \in Word, NEW n \in Int, NEW s, PartiallyDivided(s, W, n, divisor)
  PROVE  LET d == 2 * Signed(divisor, W)
             q == Signed(s.ay0, W)
         IN /\ q \in Int
            /\ d > 0 => q * d <= n /\ n < (q + 1) * d
            /\ d < 0 => q * d > n /\ n >= (q + 1) * d
<1> DEFINE d == Signed(divisor, W)
           e == Magnitude(divisor)
           neg == Negative(divisor, W)
<1>1. PICK q, p, l \in Int : PartialDivision(s, W, n, divisor, q, p, l)
  BY DEF PartiallyDivided
<1>2. W \in Nat \ {0} /\ W - W = 0
  BY DatapathConstants
<1>3. 2 ^ (W - W) = 1
  BY <1>2, PowerZero
<1>4. l = 0
  <2>1. l \in 0 .. 2 ^ (W - W) - 1
    BY <1>1 DEF PartialDivision
  <2> QED
    BY <1>3, <2>1
<1>5. Signed(s.ay0, W) = q
  <2>1. q \in -(2 ^ (W - 1)) .. 2 ^ (W - 1) - 1 /\ s.ay0 = l * 2 ^ W + (q % 2 ^ W)
    BY <1>1 DEF PartialDivision
  <2>2. l * 2 ^ W = 0
    <3>1. 2 ^ W \in Int
      BY <1>2, PowerType
    <3> QED
      BY <1>4, <3>1
  <2>3. q % 2 ^ W \in Int
    BY <1>2, PowerType, RemainderType
  <2>4. s.ay0 = q % 2 ^ W
    BY <2>1, <2>2, <2>3
  <2> QED
    BY <1>2, <2>1, <2>4, SignedOfRemainder
<1>6. d \in Int /\ e \in Int /\ (neg <=> d < 0) /\ d = (IF neg THEN -e ELSE e)
        /\ neg \in BOOLEAN
  <2>1. 2 ^ (W - 1) \in Int
    BY <1>2, HalfPower
  <2>2. d \in Int /\ e \in 0 .. 2 ^ (W - 1) /\ (neg <=> d < 0) /\ d = (IF neg THEN -e ELSE e)
    BY MagnitudeRange
  <2>3. neg \in BOOLEAN
    BY DEF Negative
  <2> HIDE DEF d, e, neg
  <2> QED
    BY <2>1, <2>2, <2>3
<1>7. p \in -(2 * e) .. 2 * e - 1 /\ s.aq = ((p < 0) # neg)
  BY <1>1 DEF PartialDivision
<1> DEFINE c == Number(s.aq)
<1>8. n = p + 2 * d * (q + c)
  <2>1. n = 2 ^ (W - W) * (p + 2 * d * (q + c)) + l
    BY <1>1 DEF PartialDivision
  <2>2. c \in Int
    BY DEF Number
  <2> HIDE DEF d, c
  <2>3. p + 2 * d * (q + c) \in Int
    BY <1>6, <2>2
  <2> QED
    BY <1>3, <1>4, <2>1, <2>3
<1>9. c = IF (p < 0) # neg THEN 1 ELSE 0
  BY <1>7 DEF Number
<1> HIDE DEF d, e, neg, c
<1> DEFINE qd == q * (2 * d)
<1>10. qd \in Int /\ (q + 1) * (2 * d) = qd + 2 * d
  BY <1>6
<1>11. n = p + qd + 2 * d * c
  <2>1. c \in Int
    BY <1>9
  <2>2. 2 * d * (q + c) = qd + 2 * d * c
    BY <1>6, <2>1
  <2>3. 2 * d * c \in Int
    BY <1>6, <2>1
  <2> HIDE DEF qd
  <2> QED
    BY <1>8, <1>10, <2>2, <2>3
<1> HIDE DEF qd
<1>12. CASE d > 0
  <2>1. ~neg /\ e = d
    BY <1>6, <1>12
  <2>2. CASE p < 0
    <3>1. c = 1
      BY <1>6, <1>9, <2>1, <2>2
    <3>2. n = p + qd + 2 * d
      BY <1>6, <1>11, <3>1
    <3>3. qd <= n /\ n < qd + 2 * d
      BY <1>6, <1>7, <1>10, <2>1, <2>2, <3>2
    <3> QED
      BY <1>5, <1>6, <1>10, <1>12, <3>3 DEF qd, d
  <2>3. CASE ~(p < 0)
    <3>1. c = 0
      BY <1>6, <1>9, <2>1, <2>3
    <3>2. n = p + qd
      BY <1>6, <1>10, <1>11, <3>1
    <3>3. qd <= n /\ n < qd + 2 * d
      BY <1>6, <1>7, <1>10, <2>1, <2>3, <3>2
    <3> QED
      BY <1>5, <1>6, <1>10, <1>12, <3>3 DEF qd, d
  <2> QED
    BY <2>2, <2>3
<1>13. CASE d < 0
  <2>1. neg /\ e = -d
    BY <1>6, <1>13
  <2>2. CASE p < 0
    <3>1. c = 0
      BY <1>6, <1>9, <2>1, <2>2
    <3>2. n = p + qd
      BY <1>6, <1>10, <1>11, <3>1
    <3>3. qd > n /\ n >= qd + 2 * d
      BY <1>6, <1>7, <1>10, <2>1, <2>2, <3>2
    <3> QED
      BY <1>5, <1>6, <1>10, <1>13, <3>3 DEF qd, d
  <2>3. CASE ~(p < 0)
    <3>1. c = 1
      BY <1>6, <1>9, <2>1, <2>3
    <3>2. n = p + qd + 2 * d
      BY <1>6, <1>11, <3>1
    <3>3. qd > n /\ n >= qd + 2 * d
      BY <1>6, <1>7, <1>10, <2>1, <2>3, <3>2
    <3> QED
      BY <1>5, <1>6, <1>10, <1>13, <3>3 DEF qd, d
  <2> QED
    BY <2>2, <2>3
<1>14. CASE d = 0
  <2>1. ~(2 * d > 0) /\ ~(2 * d < 0)
    BY <1>14
  <2> QED
    BY <1>5, <2>1 DEF d
<1> QED
  BY <1>6, <1>12, <1>13, <1>14

\* The dividend, and what DIVS and the DIVQs leave of it.
Dividend == Double(given.upper, given.ay0)

\* A division under way has an exact partial result.
DivideInv ==
  program = "DIVIDE" =>
    /\ given \in [upper : Word, ay0 : Word, divisor : Word]
    /\ pc \in 0 .. W
    /\ pc = 0 => r.ay0 = given.ay0
    /\ pc > 0 /\ Divisible(Dividend, given.divisor)
         => PartiallyDivided(r, pc, Dividend, given.divisor)

\* Nothing is claimed before DIVS.
LEMMA InitDivideInv == Init => DivideInv
<1> SUFFICES ASSUME Init, program = "DIVIDE" PROVE DivideInv
  BY DEF DivideInv
<1>1. InitDivide /\ pc = 0
  BY DEF Init, InitNormalize, InitBlock, InitAccumulate, InitBuffer, InitDouble
<1>2. r.ay0 = given.ay0 /\ given \in [upper : Word, ay0 : Word, divisor : Word]
  BY <1>1 DEF InitDivide
<1> QED
  BY <1>1, <1>2, DatapathConstants DEF DivideInv

\* Each instruction of the division adds its quotient bit.
LEMMA DivideKeepsInv ==
  ASSUME DivideInv, DIVS \/ DIVQ
  PROVE  DivideInv'
<1>1. /\ program = "DIVIDE" /\ UNCHANGED <<program, given>>
      /\ pc' = pc + 1
  BY DEF DIVS, DIVQ, Issue
<1>2. given \in [upper : Word, ay0 : Word, divisor : Word] /\ pc \in 0 .. W
  BY <1>1 DEF DivideInv
<1>3. given.upper \in Word /\ given.ay0 \in Word /\ given.divisor \in Word
  BY <1>2
<1>4. W \in Nat \ {0}
  BY DatapathConstants
<1>5. Dividend \in Int
  <2>1. Signed(given.upper, W) \in -(2 ^ (W - 1)) .. 2 ^ (W - 1) - 1
    BY <1>3, <1>4, SignedRange DEF Word
  <2>2. 2 ^ W \in Nat /\ 2 ^ (W - 1) \in Nat
    BY <1>4, HalfPower
  <2>3. Signed(given.upper, W) \in Int /\ given.ay0 \in Int
    BY <1>3, <2>1, <2>2 DEF Word
  <2> QED
    BY <2>2, <2>3 DEF Dividend, Double
<1>6. UNCHANGED <<Dividend, given>>
  BY <1>1 DEF Dividend
<1>7. CASE DIVS
  <2>1. pc = 0 /\ r' = DivideSign(given.upper, given.ay0, given.divisor)
    BY <1>1, <1>7 DEF DIVS, Issue, DivideInv
  <2>2. Divisible(Dividend, given.divisor)
          => PartiallyDivided(r', 1, Dividend, given.divisor)
    BY <1>3, <2>1, DivideSignExact DEF Dividend
  <2>3. pc' = 1 /\ pc' \in 0 .. W
    BY <1>1, <1>4, <2>1
  <2> QED
    BY <1>1, <1>2, <1>6, <2>2, <2>3 DEF DivideInv
<1>8. CASE DIVQ
  <2>1. pc \in 1 .. W - 1 /\ r' = DivideStep(r, given.divisor)
    BY <1>8 DEF DIVQ
  <2>2. ASSUME Divisible(Dividend, given.divisor)
        PROVE  PartiallyDivided(r', pc + 1, Dividend, given.divisor)
    <3>1. PartiallyDivided(r, pc, Dividend, given.divisor)
      BY <1>1, <1>4, <2>1, <2>2 DEF DivideInv
    <3>2. PartiallyDivided(DivideStep(r, given.divisor), pc + 1, Dividend, given.divisor)
      BY <1>3, <1>5, <2>1, <3>1, DivideStepExact
    <3> QED
      BY <2>1, <3>2
  <2>3. pc' \in 0 .. W /\ pc' > 0
    BY <1>1, <1>4, <2>1
  <2> QED
    BY <1>1, <1>2, <1>6, <2>2, <2>3 DEF DivideInv
<1> QED
  BY <1>7, <1>8

\* The other programs do not divide.
LEMMA OthersLeaveDivide ==
  ASSUME DivideInv, [Next]_vars, ~(DIVS \/ DIVQ)
  PROVE  DivideInv'
<1>1. CASE UNCHANGED vars
  BY <1>1 DEF vars, DivideInv, Dividend
<1>2. CASE Next
  <2>1. program # "DIVIDE" /\ UNCHANGED program
    BY <1>2 DEF Next, EXPHI, EXPLO, NORM, EXPADJ, MAC, SATMR, MODIFY, AluLow, AluHigh, ALU,
           Issue
  <2> QED
    BY <2>1 DEF DivideInv
<1> QED
  BY <1>1, <1>2

\* The bounds the property puts on the dividend are those of the magnitude.
LEMMA DivisibleBySign ==
  ASSUME NEW n \in Int, NEW divisor \in Word
  PROVE  LET d == 2 * Signed(divisor, W)
         IN /\ d > 0 /\ n < d * 2 ^ (W - 1) /\ -n < d * 2 ^ (W - 1) => Divisible(n, divisor)
            /\ d < 0 /\ n < -d * 2 ^ (W - 1) /\ -n < -d * 2 ^ (W - 1) => Divisible(n, divisor)
<1> DEFINE d == Signed(divisor, W)
           h == 2 ^ (W - 1)
<1>1. d \in Int /\ h \in Nat
  BY MagnitudeRange, DatapathConstants, HalfPower
<1>2. Magnitude(divisor) = IF d < 0 THEN -d ELSE d
  BY DEF Magnitude
<1>3. Divisible(n, divisor) <=> n < 2 * Magnitude(divisor) * h
        /\ -n < 2 * Magnitude(divisor) * h
  BY DEF Divisible
<1> HIDE DEF d, h
<1>4. ASSUME 2 * d > 0, n < 2 * d * h, -n < 2 * d * h PROVE Divisible(n, divisor)
  <2>1. Magnitude(divisor) = d
    BY <1>1, <1>2, <1>4
  <2> QED
    BY <1>3, <1>4, <2>1
<1>5. ASSUME 2 * d < 0, n < -(2 * d) * h, -n < -(2 * d) * h PROVE Divisible(n, divisor)
  <2>1. Magnitude(divisor) = -d
    BY <1>1, <1>2, <1>5
  <2>2. 2 * (-d) * h = -(2 * d) * h
    BY <1>1
  <2>3. n < 2 * (-d) * h /\ -n < 2 * (-d) * h
    BY <1>5, <2>2
  <2> QED
    BY <1>3, <2>1, <2>3
<1> QED
  BY <1>4, <1>5 DEF d, h

\* After the last bit the quotient is exact.
LEMMA DivideInvExact == DivideInv => QuotientExact
<1> SUFFICES ASSUME DivideInv, program = "DIVIDE", pc = W PROVE QuotientExact
  BY DEF QuotientExact
<1> DEFINE v == given.divisor
           d == 2 * Signed(v, W)
           h == 2 ^ (W - 1)
           q == Signed(r.ay0, W)
<1>1. given.upper \in Word /\ given.ay0 \in Word /\ v \in Word
  BY DEF DivideInv
<1>2. W \in Nat \ {0}
  BY DatapathConstants
<1>3. Dividend \in Int
  <2>1. Signed(given.upper, W) \in -(2 ^ (W - 1)) .. 2 ^ (W - 1) - 1
    BY <1>1, <1>2, SignedRange DEF Word
  <2>2. 2 ^ W \in Nat /\ 2 ^ (W - 1) \in Nat
    BY <1>2, HalfPower
  <2>3. Signed(given.upper, W) \in Int /\ given.ay0 \in Int
    BY <1>1, <2>1, <2>2 DEF Word
  <2> QED
    BY <2>2, <2>3 DEF Dividend, Double
<1>4. ASSUME Divisible(Dividend, v)
      PROVE  /\ d > 0 => q * d <= Dividend /\ Dividend < (q + 1) * d
             /\ d < 0 => q * d > Dividend /\ Dividend >= (q + 1) * d
  <2>1. PartiallyDivided(r, W, Dividend, v)
    BY <1>2, <1>4 DEF DivideInv
  <2> QED
    BY <1>1, <1>3, <2>1, DivisionEnds
<1>5. /\ d > 0 /\ Dividend < d * h /\ -Dividend < d * h => Divisible(Dividend, v)
      /\ d < 0 /\ Dividend < -d * h /\ -Dividend < -d * h => Divisible(Dividend, v)
  BY <1>1, <1>3, DivisibleBySign
<1> HIDE DEF d, h, q, v
<1>6. /\ d > 0 /\ Dividend < d * h /\ -Dividend < d * h =>
           q * d <= Dividend /\ Dividend < (q + 1) * d
      /\ d < 0 /\ Dividend < -d * h /\ -Dividend < -d * h =>
           q * d > Dividend /\ Dividend >= (q + 1) * d
  BY <1>4, <1>5
<1> QED
  BY <1>6 DEF QuotientExact, Dividend, d, h, q, v

\* A division leaves the exact quotient, for every width, dividend and divisor.
THEOREM DivisionIsExact == Spec => []QuotientExact
<1>1. DivideInv /\ [Next]_vars => DivideInv'
  BY DivideKeepsInv, OthersLeaveDivide
<1> QED
  BY <1>1, InitDivideInv, DivideInvExact, PTL DEF Spec

-----------------------------------------------------------------------------
(***************************************************************************)
(* The multiplier and accumulator.  MR always holds the low bits of the    *)
(* exact sum; the guard bits and rounding to even are exact while the sum  *)
(* fits.                                                                   *)
(***************************************************************************)

\* The widths of the accumulator.
LEMMA AccumulatorWidths ==
  /\ MR \in Nat \ {0} /\ W \in Nat \ {0}
  /\ 2 ^ MR \in Nat \ {0} /\ 2 ^ W \in Nat \ {0}
  /\ 2 ^ (W + Guard) \in Nat \ {0} /\ 2 ^ MR = 2 ^ W * 2 ^ (W + Guard)
  /\ 2 ^ (2 * W - 1) \in Nat \ {0} /\ 2 ^ Guard \in Nat \ {0, 1}
  /\ 2 ^ (MR - 1) = 2 ^ (2 * W - 1) * 2 ^ Guard
  /\ 2 ^ (Guard + 1) = 2 * 2 ^ Guard
  /\ 2 ^ MR = 2 ^ (2 * W - 1) * 2 ^ (Guard + 1)
<1>1. W \in Nat \ {0} /\ Guard \in Nat \ {0}
  BY DatapathConstants
<1>2. /\ MR \in Nat \ {0} /\ W + Guard \in Nat /\ MR = W + (W + Guard)
      /\ 2 * W - 1 \in Nat /\ MR - 1 = (2 * W - 1) + Guard
      /\ Guard + 1 \in Nat /\ MR = (2 * W - 1) + (Guard + 1)
  BY <1>1 DEF MR
<1>3. 2 ^ MR = 2 ^ W * 2 ^ (W + Guard)
  BY <1>1, <1>2, PowerSum
<1>4. 2 ^ (MR - 1) = 2 ^ (2 * W - 1) * 2 ^ Guard
  BY <1>1, <1>2, PowerSum
<1>5. 2 ^ MR = 2 ^ (2 * W - 1) * 2 ^ (Guard + 1)
  BY <1>1, <1>2, PowerSum
<1>6. 2 ^ Guard \in Nat \ {0, 1}
  <2>1. 2 ^ Guard = 2 * 2 ^ (Guard - 1) /\ 2 ^ (Guard - 1) \in Nat \ {0}
    BY <1>1, HalfPower
  <2> QED
    BY <2>1
<1>7. /\ 2 ^ MR \in Nat \ {0} /\ 2 ^ W \in Nat \ {0} /\ 2 ^ (W + Guard) \in Nat \ {0}
      /\ 2 ^ (2 * W - 1) \in Nat \ {0}
  BY <1>1, <1>2, PowerType
<1>8. 2 ^ (Guard + 1) = 2 * 2 ^ Guard
  BY <1>1, PowerNext
<1> QED
  BY <1>1, <1>2, <1>3, <1>4, <1>5, <1>6, <1>7, <1>8

\* Rounding the low bits of a number is rounding the number.
LEMMA RoundToEvenExact ==
  ASSUME NEW n \in Int
  PROVE  Nearest(n) \in Int /\ RoundToEven(n % 2 ^ MR) = Nearest(n) % 2 ^ MR
<1> DEFINE m == 2 ^ W
           h == 2 ^ (W - 1)
           w == W + Guard
           k == 2 ^ w
           j == 2 ^ (w - 1)
           f == 2 ^ MR
           z == n \div f
           v == n % f
           u == n \div m
           l == n % m
<1>1. m \in Nat \ {0} /\ k \in Nat \ {0} /\ f \in Nat \ {0} /\ f = m * k
  BY AccumulatorWidths
<1>2. h \in Nat \ {0} /\ m = 2 * h
  BY AccumulatorWidths, HalfPower
<1>3. j \in Nat \ {0} /\ k = 2 * j
  <2>1. w \in Nat \ {0}
    BY DatapathConstants
  <2> HIDE DEF w
  <2> QED
    BY <2>1, HalfPower
<1> HIDE DEF h, j, k
<1>4. n = f * z + v /\ v \in 0 .. f - 1 /\ z \in Int /\ v \in Int
  <2> HIDE DEF f
  <2>1. n = f * z + v /\ v \in 0 .. f - 1 /\ z \in Int
    BY <1>1, Division
  <2> HIDE DEF v, z
  <2> QED
    BY <1>1, <2>1
<1>5. n = m * u + l /\ l \in 0 .. m - 1 /\ u \in Int /\ l \in Int
  <2> HIDE DEF m
  <2>1. n = m * u + l /\ l \in 0 .. m - 1 /\ u \in Int
    BY <1>1, Division
  <2> HIDE DEF l, u
  <2> QED
    BY <1>1, <2>1
<1>6. v % m = l /\ v \div m = u - k * z
  <2> HIDE DEF f, z, v, m, u, l
  <2> DEFINE q == u - k * z
  <2>1. q \in Int /\ v = m * q + l
    <3>1. m * (k * z) = f * z /\ m * u \in Int /\ k * z \in Int
      BY <1>1, <1>4, <1>5
    <3>2. m * q = m * u - m * (k * z)
      BY <1>1, <1>5, <3>1
    <3>3. f * z \in Int
      BY <1>1, <1>4
    <3> QED
      BY <1>1, <1>4, <1>5, <3>1, <3>2, <3>3
  <2> HIDE DEF q
  <2>2. v % m = l /\ v \div m = q
    BY <1>1, <1>4, <1>5, <2>1, DivisionUnique
  <2> QED
    BY <2>2 DEF q
<1>7. (u - k * z) % 2 = u % 2
  <2> HIDE DEF f, z, v, m, u, l
  <2> DEFINE y == -(j * z)
  <2>1. y \in Int /\ u - k * z = u + 2 * y
    <3>1. j * z \in Int /\ k * z = 2 * (j * z)
      BY <1>3, <1>4
    <3> QED
      BY <1>5, <3>1
  <2> HIDE DEF y
  <2> QED
    BY <1>5, <2>1, SameRemainder
<1> DEFINE up == l > h \/ (l = h /\ u % 2 = 1)
           b == Number(up)
<1>8. RoundToEven(v) = (((u - k * z) + b) * m) % f
  <2> HIDE DEF v, z, u, l
  <2> QED
    BY <1>6, <1>7 DEF RoundToEven, h
<1>9. Nearest(n) = (u + b) * m
  <2> DEFINE down == n - l
  <2>1. down = m * u + 0 /\ down \in Int
    <3> HIDE DEF m, u, l
    <3> QED
      BY <1>1, <1>5
  <2>2. down \div m = u
    <3> HIDE DEF m, u, l, down
    <3>1. 0 \in 0 .. m - 1
      BY <1>1
    <3> QED
      BY <1>1, <1>5, <2>1, <3>1, DivisionUnique
  <2>3. Nearest(n) = IF n - down < (down + m) - n \/ (n - down = (down + m) - n /\ u % 2 = 0)
                     THEN down ELSE down + m
    <3> HIDE DEF u
    <3> QED
      BY <2>2 DEF Nearest
  <2>4. u % 2 \in {0, 1}
    <3> HIDE DEF u
    <3>1. u % 2 \in 0 .. 2 - 1
      BY <1>5, RemainderType
    <3> QED
      BY <3>1
  <2>5. (u + b) * m = m * u + b * m
    <3> HIDE DEF u, m, up
    <3>1. b \in Int
      BY DEF Number
    <3> HIDE DEF b
    <3> QED
      BY <1>1, <1>5, <3>1
  <2> DEFINE mu == m * u
             e == u % 2
  <2>6. mu \in Int /\ n = mu + l /\ down = mu
    <3> HIDE DEF m, u, l
    <3> QED
      BY <1>1, <1>5
  <2>7. up <=> (l > h \/ (l = h /\ e = 1))
    OBVIOUS
  <2>8. e \in {0, 1}
    BY <2>4
  <2>9. Nearest(n) = IF n - down < (down + m) - n \/ (n - down = (down + m) - n /\ e = 0)
                     THEN down ELSE down + m
    BY <2>3
  <2> HIDE DEF mu, e, m, u, l, down, up
  <2>10. CASE up
    <3>1. b = 1 /\ b * m = m
      BY <1>1, <2>10 DEF Number
    <3>2. Nearest(n) = mu + m
      BY <1>1, <1>2, <1>5, <2>6, <2>7, <2>8, <2>9, <2>10
    <3> QED
      BY <2>5, <3>1, <3>2 DEF mu
  <2>11. CASE ~up
    <3>1. b = 0 /\ b * m = 0
      BY <1>1, <2>11 DEF Number
    <3>2. Nearest(n) = mu
      BY <1>1, <1>2, <1>5, <2>6, <2>7, <2>8, <2>9, <2>11
    <3> QED
      BY <2>5, <2>6, <3>1, <3>2 DEF mu
  <2> QED
    BY <2>10, <2>11
<1>10. b \in Int
  <2> HIDE DEF up
  <2> QED
    BY DEF Number
<1> HIDE DEF b
<1>11. (((u - k * z) + b) * m) % f = ((u + b) * m) % f
  <2> HIDE DEF f, z, v, m, u, l
  <2> DEFINE x == (u + b) * m
             y == -z
             s == ((u - k * z) + b) * m
  <2>1. x \in Int /\ y \in Int /\ s = x + f * y
    <3>1. k * z \in Int /\ (k * z) * m = f * z /\ u * m \in Int /\ b * m \in Int
            /\ f * z \in Int
      BY <1>1, <1>4, <1>5, <1>10
    <3>2. f * y = -(f * z)
      BY <1>1, <1>4
    <3>3. s = u * m - (k * z) * m + b * m
      BY <1>1, <1>5, <1>10, <3>1
    <3>4. x = u * m + b * m /\ x \in Int
      BY <1>1, <1>5, <1>10, <3>1
    <3> HIDE DEF x, s
    <3>5. s = x + f * y
      BY <3>1, <3>2, <3>3, <3>4
    <3> QED
      BY <1>4, <3>4, <3>5
  <2> HIDE DEF x, y, s
  <2>2. s % f = x % f
    BY <1>1, <2>1, SameRemainder
  <2> QED
    BY <2>2 DEF s, x
<1>12. Nearest(n) \in Int
  <2> HIDE DEF u, m
  <2> QED
    BY <1>1, <1>5, <1>9, <1>10
<1> QED
  BY <1>8, <1>9, <1>11, <1>12

\* A product is an integer.
LEMMA ProductType ==
  ASSUME NEW f \in MacFunctions, NEW x \in Word, NEW y \in Word
  PROVE  Product(f, x, y) \in Int
<1>1. 2 ^ W \in Nat /\ 2 ^ (W - 1) \in Nat
  BY DatapathConstants, HalfPower
<1>2. \A v \in Word : \A s : Factor(v, s) \in Int
  BY <1>1 DEF Factor, Signed, Word
<1>3. Factor(x, f.xSigned) \in Int /\ Factor(y, f.ySigned) \in Int
  BY <1>2
<1> QED
  BY <1>3 DEF Product

\* A product added to the low bits of a sum gives the low bits of the new sum.
LEMMA MacKeepsLowBits ==
  ASSUME NEW f \in MacFunctions, NEW x \in Word, NEW y \in Word, NEW e \in Int
  PROVE  LET sum == CASE f.op = 1 -> Product(f, x, y)
                      [] f.op = 2 -> e + Product(f, x, y)
                      [] f.op = 3 -> e - Product(f, x, y)
             next == IF f.round THEN Nearest(sum) ELSE sum
         IN next \in Int /\ Mac(f, x, y, e % 2 ^ MR) = next % 2 ^ MR
<1> DEFINE n == 2 ^ MR
           p == Product(f, x, y)
           sum == CASE f.op = 1 -> p [] f.op = 2 -> e + p [] f.op = 3 -> e - p
           raw == CASE f.op = 1 -> p [] f.op = 2 -> (e % n) + p [] f.op = 3 -> (e % n) - p
<1>1. n \in Nat \ {0}
  BY AccumulatorWidths
<1>2. p \in Int
  BY ProductType
<1>3. f.op \in 1 .. 3 /\ f.round \in BOOLEAN
  BY DEF MacFunctions
<1>4. Mac(f, x, y, e % n) = IF f.round THEN RoundToEven(raw % n) ELSE raw % n
  BY DEF Mac
<1> HIDE DEF n, p
<1>5. sum \in Int /\ raw % n = sum % n
  <2>1. ((e % n) + p) % n = (e + p) % n /\ ((e % n) - p) % n = (e - p) % n
    BY <1>1, <1>2, RemainderOfRemainders
  <2>2. CASE f.op = 1
    BY <1>2, <2>2
  <2>3. CASE f.op = 2
    <3>1. sum = e + p /\ raw = (e % n) + p
      BY <2>3
    <3> HIDE DEF sum, raw
    <3> QED
      BY <1>2, <2>1, <3>1
  <2>4. CASE f.op = 3
    <3>1. sum = e - p /\ raw = (e % n) - p
      BY <2>4
    <3> HIDE DEF sum, raw
    <3> QED
      BY <1>2, <2>1, <3>1
  <2> QED
    BY <1>3, <2>2, <2>3, <2>4
<1> HIDE DEF sum, raw
<1>6. Nearest(sum) \in Int /\ RoundToEven(sum % n) = Nearest(sum) % n
  BY <1>5, RoundToEvenExact DEF n
<1>7. (IF f.round THEN Nearest(sum) ELSE sum) \in Int
  BY <1>5, <1>6
<1>8. Mac(f, x, y, e % n) = (IF f.round THEN Nearest(sum) ELSE sum) % n
  BY <1>4, <1>5, <1>6
<1> QED
  BY <1>7, <1>8 DEF sum, n, p

\* What MR, MV and SAT MR make of a sum the guard bits hold.
LEMMA GuardBitsExact ==
  ASSUME NEW e \in -(2 ^ (MR - 1)) .. 2 ^ (MR - 1) - 1
  PROVE  LET high == 2 ^ (2 * W - 1) - 1
             low == -(2 ^ (2 * W - 1))
             v == e % 2 ^ MR
         IN /\ MacOverflow(v) <=> e \notin low .. high
            /\ Signed(v, MR) = e
            /\ Signed(SaturateMR(v, MacOverflow(v)), MR) = Clamp(e, low, high)
<1> DEFINE n == 2 ^ MR
           t == 2 ^ (MR - 1)
           h == 2 ^ (2 * W - 1)
           g == 2 ^ Guard
           v == e % n
           mv == MacOverflow(v)
<1>1. /\ n \in Nat \ {0} /\ h \in Nat \ {0} /\ g \in Nat \ {0, 1} /\ MR \in Nat \ {0}
      /\ t = h * g /\ n = h * (2 * g) /\ 2 ^ (Guard + 1) = 2 * g
  BY AccumulatorWidths
<1>2. t \in Nat \ {0} /\ n = 2 * t
  BY <1>1, HalfPower
<1>3. Signed(v, MR) = e /\ (Negative(v, MR) <=> e < 0)
  BY <1>1, SignedOfRemainder
<1>4. e \in -t .. t - 1 /\ e \in Int
  BY <1>2
<1>5. mv <=> v \div h # 0 /\ v \div h # 2 * g - 1
  BY <1>1 DEF MacOverflow
<1> HIDE DEF n, t, h, g, v, mv
<1>6. h <= t /\ h * (g - 1) = t - h /\ t - h >= 0
  <2>1. h * (g - 1) \in Nat /\ h * g = h * (g - 1) + h
    BY <1>1
  <2> QED
    BY <1>1, <1>2, <2>1
<1>7. v = (IF e < 0 THEN e + n ELSE e) /\ v \in Int
  <2>1. CASE e < 0
    <3>1. e = n * (-1) + (e + n) /\ e + n \in 0 .. n - 1 /\ -1 \in Int
      BY <1>1, <1>2, <1>4, <2>1
    <3> DEFINE y == e + n
    <3>2. e = n * (-1) + y /\ y \in 0 .. n - 1
      BY <3>1
    <3> HIDE DEF y
    <3>3. e % n = y
      BY <1>1, <1>4, <3>1, <3>2, DivisionUnique
    <3> QED
      BY <1>1, <1>4, <2>1, <3>3 DEF v, y
  <2>2. CASE ~(e < 0)
    <3>1. e \in 0 .. n - 1
      BY <1>1, <1>2, <1>4, <2>2
    <3>2. e % n = e
      BY <1>1, <3>1, OwnRemainder
    <3> QED
      BY <1>4, <2>2, <3>2 DEF v
  <2> QED
    BY <2>1, <2>2
<1>8. v = h * (v \div h) + (v % h) /\ v % h \in 0 .. h - 1 /\ v \div h \in Int
  BY <1>1, <1>7, Division
<1> DEFINE c == v \div h
           d == v % h
<1>9. v = h * c + d /\ d \in 0 .. h - 1 /\ c \in Int /\ d \in Int
  BY <1>1, <1>8
<1>10. mv <=> c # 0 /\ c # 2 * g - 1
  BY <1>5
<1> HIDE DEF c, d
<1>11. c = 0 <=> v \in 0 .. h - 1
  <2>1. CASE c = 0
    <3>1. h * c = 0
      BY <1>1, <2>1
    <3> QED
      BY <1>7, <1>9, <2>1, <3>1
  <2>2. ASSUME v \in 0 .. h - 1 PROVE c = 0
    BY <1>1, <2>2, OwnRemainder DEF c
  <2> QED
    BY <2>1, <2>2
<1>12. h * (2 * g - 1) = n - h
  BY <1>1
<1>13. c = 2 * g - 1 <=> v \in n - h .. n - 1
  <2>1. CASE c = 2 * g - 1
    <3>1. h * c = n - h
      BY <1>12, <2>1
    <3> QED
      BY <1>1, <1>7, <1>9, <2>1, <3>1
  <2>2. ASSUME v \in n - h .. n - 1 PROVE c = 2 * g - 1
    <3>1. v = h * (2 * g - 1) + (v - (n - h)) /\ v - (n - h) \in 0 .. h - 1
      BY <1>1, <1>7, <1>12, <2>2
    <3>2. 2 * g - 1 \in Int
      BY <1>1
    <3> DEFINE y == v - (n - h)
               q == 2 * g - 1
    <3>3. v = h * q + y /\ y \in 0 .. h - 1 /\ q \in Int
      BY <3>1, <3>2
    <3> HIDE DEF y, q
    <3>4. v \div h = q
      BY <1>1, <1>7, <3>3, DivisionUnique
    <3> QED
      BY <3>4 DEF c, q
  <2> QED
    BY <2>1, <2>2
<1>14. mv <=> e \notin -h .. h - 1
  <2>1. CASE e < 0
    <3>1. ~(v \in 0 .. h - 1) /\ (v \in n - h .. n - 1 <=> e \in -h .. h - 1)
      BY <1>1, <1>2, <1>4, <1>6, <1>7, <2>1
    <3> QED
      BY <1>10, <1>11, <1>13, <3>1
  <2>2. CASE ~(e < 0)
    <3>1. (v \in 0 .. h - 1 <=> e \in -h .. h - 1) /\ ~(v \in n - h .. n - 1)
      BY <1>1, <1>2, <1>4, <1>6, <1>7, <2>2
    <3> QED
      BY <1>10, <1>11, <1>13, <3>1
  <2> QED
    BY <2>1, <2>2
<1>15. Signed(SaturateMR(v, mv), MR) = Clamp(e, -h, h - 1)
  <2>1. CASE ~mv
    <3>1. SaturateMR(v, mv) = v
      BY <2>1 DEF SaturateMR
    <3>2. Clamp(e, -h, h - 1) = e
      BY <1>1, <1>4, <1>14, <2>1 DEF Clamp
    <3> QED
      BY <1>3, <3>1, <3>2
  <2>2. CASE mv /\ e < 0
    <3>1. SaturateMR(v, mv) = n - h
      BY <1>3, <2>2 DEF SaturateMR, NegativeSaturation, n, h
    <3>2. Clamp(e, -h, h - 1) = -h
      BY <1>1, <1>4, <1>14, <2>2 DEF Clamp
    <3>3. Signed(n - h, MR) = IF n - h >= t THEN (n - h) - n ELSE n - h
      BY DEF Signed, Negative, t, n
    <3>4. Signed(n - h, MR) = -h
      BY <1>1, <1>2, <1>6, <3>3
    <3> QED
      BY <3>1, <3>2, <3>4
  <2>3. CASE mv /\ ~(e < 0)
    <3>1. SaturateMR(v, mv) = h - 1
      BY <1>3, <2>3 DEF SaturateMR, PositiveSaturation, h
    <3>2. Clamp(e, -h, h - 1) = h - 1
      BY <1>1, <1>4, <1>14, <2>3 DEF Clamp
    <3>3. Signed(h - 1, MR) = IF h - 1 >= t THEN (h - 1) - n ELSE h - 1
      BY DEF Signed, Negative, t, n
    <3>4. Signed(h - 1, MR) = h - 1
      BY <1>1, <1>2, <1>6, <3>3
    <3> QED
      BY <3>1, <3>2, <3>4
  <2> QED
    BY <2>1, <2>2, <2>3
<1> QED
  BY <1>3, <1>14, <1>15 DEF n, h, v, mv

-----------------------------------------------------------------------------
\* MR and MV hold the low bits of the exact sum, or SAT MR's word for it.
AccumulateInv ==
  program = "ACCUMULATE" =>
    LET v == exact % 2 ^ MR
    IN /\ exact \in Int
       /\ given.last \in {"NONE", "MAC", "SAT"}
       /\ r = [mr |-> IF given.last = "SAT" THEN SaturateMR(v, MacOverflow(v)) ELSE v,
               mv |-> MacOverflow(v)]

\* MR and the sum start at zero.
LEMMA InitAccumulateInv == Init => AccumulateInv
<1> SUFFICES ASSUME Init, program = "ACCUMULATE" PROVE AccumulateInv
  BY DEF AccumulateInv
<1>1. InitAccumulate /\ exact = 0
  BY DEF Init, InitDivide, InitNormalize, InitBlock, InitBuffer, InitDouble
<1>2. given.last = "NONE" /\ r = [mr |-> 0, mv |-> FALSE]
  BY <1>1 DEF InitAccumulate
<1>3. 0 % 2 ^ MR = 0
  <2> DEFINE n == 2 ^ MR
  <2>1. n \in Nat \ {0}
    BY AccumulatorWidths
  <2> HIDE DEF n
  <2>2. 0 \in 0 .. n - 1
    BY <2>1
  <2>3. 0 % n = 0
    BY <2>1, <2>2, OwnRemainder
  <2> QED
    BY <2>3 DEF n
<1>4. MacOverflow(0) = FALSE
  <2> DEFINE h == 2 ^ (2 * W - 1)
  <2>1. h \in Nat \ {0}
    BY AccumulatorWidths
  <2> HIDE DEF h
  <2>2. 0 \in 0 .. h - 1
    BY <2>1
  <2>3. 0 \div h = 0
    BY <2>1, <2>2, OwnRemainder
  <2> QED
    BY <2>3 DEF MacOverflow, h
<1> DEFINE v == exact % 2 ^ MR
<1>5. v = 0
  BY <1>1, <1>3
<1> HIDE DEF v
<1>6. r = [mr |-> v, mv |-> MacOverflow(v)]
  BY <1>2, <1>4, <1>5
<1>7. exact \in Int /\ given.last = "NONE"
  BY <1>1, <1>2
<1> QED
  BY <1>6, <1>7 DEF AccumulateInv, v

\* MAC and SAT MR keep the low bits of MR those of the sum.
LEMMA AccumulateKeepsInv ==
  ASSUME AccumulateInv, MAC \/ SATMR
  PROVE  AccumulateInv'
<1>1. program = "ACCUMULATE" /\ UNCHANGED program
  BY DEF MAC, SATMR, Issue
<1> DEFINE v == exact % 2 ^ MR
<1>2. /\ exact \in Int
      /\ r = [mr |-> IF given.last = "SAT" THEN SaturateMR(v, MacOverflow(v)) ELSE v,
              mv |-> MacOverflow(v)]
  BY <1>1 DEF AccumulateInv
<1>3. CASE MAC
  <2>1. PICK f \in MacFunctions, x \in Word, y \in Word :
          LET mr == Mac(f, x, y, r.mr)
              sum == CASE f.op = 1 -> Product(f, x, y)
                       [] f.op = 2 -> exact + Product(f, x, y)
                       [] f.op = 3 -> exact - Product(f, x, y)
          IN /\ r' = [mr |-> mr, mv |-> MacOverflow(mr)]
             /\ exact' = IF f.round THEN Nearest(sum) ELSE sum
    BY <1>3 DEF MAC
  <2>2. r.mr = v /\ given'.last = "MAC"
    BY <1>2, <1>3 DEF MAC
  <2>3. exact' \in Int /\ Mac(f, x, y, v) = exact' % 2 ^ MR
    BY <1>2, <2>1, MacKeepsLowBits
  <2>4. r' = [mr |-> Mac(f, x, y, v), mv |-> MacOverflow(Mac(f, x, y, v))]
    BY <2>1, <2>2
  <2> QED
    BY <1>1, <2>2, <2>3, <2>4 DEF AccumulateInv
<1>4. CASE SATMR
  <2>1. given.last = "MAC" /\ given'.last = "SAT" /\ exact' = exact
    BY <1>4 DEF SATMR
  <2> DEFINE mv == MacOverflow(v)
             sat == SaturateMR(v, mv)
  <2>2. r = [mr |-> v, mv |-> mv]
    BY <1>2, <2>1
  <2>3. r' = [r EXCEPT !.mr = SaturateMR(r.mr, r.mv)]
    BY <1>4 DEF SATMR
  <2>4. r' = [mr |-> sat, mv |-> mv]
    <3> HIDE DEF v, mv
    <3> QED
      BY <2>2, <2>3
  <2> QED
    BY <1>1, <1>2, <2>1, <2>4 DEF AccumulateInv
<1> QED
  BY <1>3, <1>4

\* The other programs do not accumulate.
LEMMA OthersLeaveAccumulate ==
  ASSUME AccumulateInv, [Next]_vars, ~(MAC \/ SATMR)
  PROVE  AccumulateInv'
<1>1. CASE UNCHANGED vars
  BY <1>1 DEF vars, AccumulateInv
<1>2. CASE Next
  <2>1. program # "ACCUMULATE" /\ UNCHANGED program
    BY <1>2 DEF Next, DIVS, DIVQ, EXPHI, EXPLO, NORM, EXPADJ, MODIFY, AluLow, AluHigh, ALU,
           Issue
  <2> QED
    BY <2>1 DEF AccumulateInv
<1> QED
  BY <1>1, <1>2

\* A sum that the guard bits hold is its low bits.
LEMMA AccumulateInvExact == AccumulateInv => AccumulatorExact
<1> DEFINE h == 2 ^ (2 * W - 1)
           v == exact % 2 ^ MR
<1> SUFFICES ASSUME AccumulateInv, program = "ACCUMULATE",
                    exact \in -(2 ^ (MR - 1)) .. 2 ^ (MR - 1) - 1
             PROVE  /\ r.mv <=> exact \notin -h .. h - 1
                    /\ Signed(r.mr, MR)
                         = IF given.last = "SAT" THEN Clamp(exact, -h, h - 1) ELSE exact
  BY DEF AccumulatorExact
<1>1. r = [mr |-> IF given.last = "SAT" THEN SaturateMR(v, MacOverflow(v)) ELSE v,
           mv |-> MacOverflow(v)]
  BY DEF AccumulateInv
<1>2. /\ MacOverflow(v) <=> exact \notin -h .. h - 1
      /\ Signed(v, MR) = exact
      /\ Signed(SaturateMR(v, MacOverflow(v)), MR) = Clamp(exact, -h, h - 1)
  BY GuardBitsExact
<1> HIDE DEF v, h
<1> QED
  BY <1>1, <1>2

-----------------------------------------------------------------------------
(***************************************************************************)
(* Addition of double words through the carry.                             *)
(***************************************************************************)

\* A word as a signed number.
LEMMA SignedOfWord ==
  ASSUME NEW v \in Word
  PROVE  Signed(v, W) \in Int
<1>1. 2 ^ W \in Nat /\ 2 ^ (W - 1) \in Nat
  BY DatapathConstants, HalfPower
<1> QED
  BY <1>1 DEF Signed, Word

\* The sum of two words and a carry: what the result and each flag say of the
\* exact sum.
LEMMA SumExact ==
  ASSUME NEW x \in Word, NEW y \in Word, NEW c \in {0, 1}
  PROVE  LET n == Signed(x, W) + Signed(y, W) + c
             s == Sum(x, y, c)
         IN /\ n \in Int
            /\ s.raw \in Word
            /\ s.raw = n % 2 ^ W
            /\ x + y + c = s.raw + 2 ^ W * Number(s.ac)
            /\ s.ac \in BOOLEAN /\ s.av \in BOOLEAN
            /\ s.av <=> n \notin -(2 ^ (W - 1)) .. 2 ^ (W - 1) - 1
            /\ s.av => (s.ac <=> n < 0)
            /\ (Negative(s.raw, W) # s.av) <=> n < 0
<1> DEFINE m == 2 ^ W
           h == 2 ^ (W - 1)
           a == Signed(x, W)
           b == Signed(y, W)
           n == a + b + c
           s == Sum(x, y, c)
           xh == x % h
           yh == y % h
<1>1. m \in Nat \ {0} /\ h \in Nat \ {0} /\ m = 2 * h
  BY DatapathConstants, HalfPower
<1>2. x \in 0 .. m - 1 /\ y \in 0 .. m - 1 /\ x \in Int /\ y \in Int
  BY <1>1 DEF Word
<1>3. /\ a = IF x >= h THEN x - m ELSE x
      /\ b = IF y >= h THEN y - m ELSE y
  BY DEF Signed, Negative
<1> DEFINE t == x + y + c
           out == t >= m
           low == xh + yh + c
<1>4. /\ s.raw = t % m
      /\ s.ac = out
      /\ s.av = ((low >= h) # out)
  BY DEF Sum, Negative
<1>5. Negative(s.raw, W) = (s.raw >= h)
  BY DEF Negative
<1> HIDE DEF m, h, a, b, s
<1>6. \A v \in 0 .. m - 1 : v % h = IF v >= h THEN v - h ELSE v
  <2> TAKE v \in 0 .. m - 1
  <2>1. CASE v >= h
    <3> DEFINE k == v - h
    <3>1. v = h * 1 + k /\ k \in 0 .. h - 1 /\ v \in Int /\ 1 \in Int
      BY <1>1, <2>1
    <3> HIDE DEF k
    <3>2. v % h = k
      BY <1>1, <3>1, DivisionUnique
    <3> QED
      BY <2>1, <3>2 DEF k
  <2>2. CASE ~(v >= h)
    <3>1. v \in 0 .. h - 1
      BY <1>1, <2>2
    <3> QED
      BY <1>1, <2>2, <3>1, OwnRemainder
  <2> QED
    BY <2>1, <2>2
<1>7. /\ xh = IF x >= h THEN x - h ELSE x
      /\ yh = IF y >= h THEN y - h ELSE y
  BY <1>2, <1>6
<1> HIDE DEF xh, yh
<1>8. s.raw = IF out THEN t - m ELSE t
  <2>1. CASE out
    <3> DEFINE k == t - m
    <3>1. t = m * 1 + k /\ k \in 0 .. m - 1 /\ t \in Int /\ 1 \in Int
      BY <1>1, <1>2, <2>1
    <3> HIDE DEF k, t
    <3>2. t % m = k
      BY <1>1, <3>1, DivisionUnique
    <3> QED
      BY <1>4, <2>1, <3>2 DEF k
  <2>2. CASE ~out
    <3>1. t \in 0 .. m - 1
      BY <1>1, <1>2, <2>2
    <3> HIDE DEF t
    <3> QED
      BY <1>1, <1>4, <2>2, <3>1, OwnRemainder
  <2> QED
    BY <2>1, <2>2
<1> DEFINE u == s.raw
<1>9. u \in 0 .. m - 1 /\ t = u + m * Number(out)
  <2>1. CASE out
    <3>1. u = t - m /\ Number(out) = 1
      BY <1>8, <2>1 DEF Number
    <3> HIDE DEF u
    <3> QED
      BY <1>1, <1>2, <2>1, <3>1
  <2>2. CASE ~out
    <3>1. u = t /\ Number(out) = 0
      BY <1>8, <2>2 DEF Number
    <3> HIDE DEF u
    <3> QED
      BY <1>1, <1>2, <2>2, <3>1
  <2> QED
    BY <2>1, <2>2
<1>10. n \in Int
  BY <1>1, <1>2, <1>3
<1>11. u = n % m
  <2> DEFINE k == (IF out THEN -1 ELSE 0) + (IF x >= h THEN 1 ELSE 0)
        + (IF y >= h THEN 1 ELSE 0)
  <2>1. k \in Int /\ u = n + m * k
    <3>1. k \in Int
      OBVIOUS
    <3> HIDE DEF u
    <3>2. CASE x >= h /\ y >= h
      BY <1>1, <1>2, <1>3, <1>8, <3>2 DEF u
    <3>3. CASE ~(x >= h) /\ y >= h
      BY <1>1, <1>2, <1>3, <1>8, <3>3 DEF u
    <3>4. CASE x >= h /\ ~(y >= h)
      BY <1>1, <1>2, <1>3, <1>8, <3>4 DEF u
    <3>5. CASE ~(x >= h) /\ ~(y >= h)
      BY <1>1, <1>2, <1>3, <1>8, <3>5 DEF u
    <3> QED
      BY <3>1, <3>2, <3>3, <3>4, <3>5
  <2> HIDE DEF k, u, n
  <2>2. u % m = n % m
    BY <1>1, <1>10, <2>1, SameRemainder
  <2>3. u % m = u
    BY <1>1, <1>9, OwnRemainder
  <2> QED
    BY <2>2, <2>3
<1> DEFINE av == (low >= h) # out
<1>12. av <=> n \notin -h .. h - 1
  <2>1. av <=> ((low >= h) /\ ~out) \/ (~(low >= h) /\ out)
    OBVIOUS
  <2> HIDE DEF av
  <2>2. CASE x >= h /\ y >= h
    BY <1>1, <1>2, <1>3, <1>7, <2>1, <2>2
  <2>3. CASE ~(x >= h) /\ y >= h
    BY <1>1, <1>2, <1>3, <1>7, <2>1, <2>3
  <2>4. CASE x >= h /\ ~(y >= h)
    BY <1>1, <1>2, <1>3, <1>7, <2>1, <2>4
  <2>5. CASE ~(x >= h) /\ ~(y >= h)
    BY <1>1, <1>2, <1>3, <1>7, <2>1, <2>5
  <2> QED
    BY <2>2, <2>3, <2>4, <2>5
<1>13. av => (out <=> n < 0)
  <2>1. av <=> n \notin -h .. h - 1
    BY <1>12
  <2> HIDE DEF av
  <2> QED
    BY <1>1, <1>2, <1>3, <2>1
<1>14. (u >= h) # av <=> n < 0
  <2>1. (u >= h) # av <=> ((u >= h) /\ ~av) \/ (~(u >= h) /\ av)
    OBVIOUS
  <2>2. av <=> n \notin -h .. h - 1
    BY <1>12
  <2> HIDE DEF av, u
  <2>3. u = IF out THEN t - m ELSE t
    BY <1>8 DEF u
  <2>4. CASE x >= h /\ y >= h
    BY <1>1, <1>2, <1>3, <2>1, <2>2, <2>3, <2>4
  <2>5. CASE ~(x >= h) /\ y >= h
    BY <1>1, <1>2, <1>3, <2>1, <2>2, <2>3, <2>5
  <2>6. CASE x >= h /\ ~(y >= h)
    BY <1>1, <1>2, <1>3, <2>1, <2>2, <2>3, <2>6
  <2>7. CASE ~(x >= h) /\ ~(y >= h)
    BY <1>1, <1>2, <1>3, <2>1, <2>2, <2>3, <2>7
  <2> QED
    BY <2>4, <2>5, <2>6, <2>7
<1>15. av \in BOOLEAN /\ out \in BOOLEAN
  <2>1. av \in BOOLEAN
    BY Zenon
  <2>2. out \in BOOLEAN
    BY <1>1, <1>2
  <2> QED
    BY <2>1, <2>2
<1>16. s.av = av /\ s.ac = out
  BY <1>4
<1> HIDE DEF av, out, u, t, n
<1>17. u \in Word /\ Negative(u, W) = (u >= h)
  BY <1>5, <1>9 DEF Word, m, u
<1>18. (Negative(s.raw, W) # s.av) <=> n < 0
  BY <1>14, <1>16, <1>17 DEF u
<1> QED
  BY <1>9, <1>10, <1>11, <1>12, <1>13, <1>15, <1>16, <1>17, <1>18 DEF u, m, h, s, n, t, a, b

\* The ones' complement of a word.
LEMMA ComplementExact ==
  ASSUME NEW y \in Word
  PROVE  /\ Complement(y) \in Word
         /\ Complement(y) = 2 ^ W - 1 - y
         /\ Signed(Complement(y), W) = -1 - Signed(y, W)
<1> DEFINE m == 2 ^ W
           h == 2 ^ (W - 1)
           c == Complement(y)
<1>1. m \in Nat \ {0} /\ h \in Nat \ {0} /\ m = 2 * h
  BY DatapathConstants, HalfPower
<1>2. y \in 0 .. m - 1 /\ y \in Int
  BY <1>1 DEF Word
<1>3. c = m - 1 - y
  BY DEF Complement
<1>4. /\ Signed(y, W) = IF y >= h THEN y - m ELSE y
      /\ Signed(c, W) = IF c >= h THEN c - m ELSE c
  BY DEF Signed, Negative
<1> HIDE DEF m, h, c
<1>5. c \in 0 .. m - 1 /\ c \in Int
  BY <1>1, <1>2, <1>3
<1>6. Signed(c, W) = -1 - Signed(y, W)
  <2>1. CASE y >= h
    <3>1. ~(c >= h)
      BY <1>1, <1>2, <1>3, <2>1
    <3>2. Signed(y, W) = y - m /\ Signed(c, W) = c
      BY <1>4, <2>1, <3>1
    <3> QED
      BY <1>1, <1>2, <1>3, <3>2
  <2>2. CASE ~(y >= h)
    <3>1. c >= h
      BY <1>1, <1>2, <1>3, <2>2
    <3>2. Signed(y, W) = y /\ Signed(c, W) = c - m
      BY <1>4, <2>2, <3>1
    <3> QED
      BY <1>1, <1>2, <1>3, <3>2
  <2> QED
    BY <2>1, <2>2
<1> QED
  BY <1>3, <1>5, <1>6 DEF c, m, Word

\* What the two instructions add: the operand, or its complement with a carry.
Addend(y, subtract) == IF subtract THEN Complement(y) ELSE y

\* The four functions of the program are additions.
LEMMA AluAdds ==
  ASSUME NEW x, NEW y, NEW c
  PROVE  /\ AluRaw("X+Y", x, y, c) = Sum(x, y, 0)
         /\ AluRaw("X-Y", x, y, c) = Sum(x, Complement(y), 1)
         /\ AluRaw("X+Y+C", x, y, c) = Sum(x, y, c)
         /\ AluRaw("X-Y+C-1", x, y, c) = Sum(x, Complement(y), c)
  BY DEF AluRaw

\* The sums of the low and of the high words.
LowSum == Sum(given.xLo, Addend(given.yLo, given.subtract), Number(given.subtract))

HighSum == Sum(given.xHi, Addend(given.yHi, given.subtract), Number(LowSum.ac))

\* The registers hold the words of the two sums, the flags what the last one says.
DoubleInv ==
  program = "DOUBLE" =>
    /\ given \in [xHi : Word, xLo : Word, yHi : Word, yLo : Word, subtract : BOOLEAN]
    /\ pc \in 0 .. 2
    /\ pc = 1 => r.lo = LowSum.raw /\ r.flag["AC"] = LowSum.ac
    /\ pc = 2 => /\ r.lo = LowSum.raw /\ r.hi = HighSum.raw
                 /\ r.flag["AN"] = Negative(HighSum.raw, W)
                 /\ r.flag["AV"] = HighSum.av /\ r.flag["AC"] = HighSum.ac

\* Nothing is claimed before the low words are added.
LEMMA InitDoubleInv == Init => DoubleInv
<1> SUFFICES ASSUME Init, program = "DOUBLE" PROVE DoubleInv
  BY DEF DoubleInv
<1>1. InitDouble /\ pc = 0
  BY DEF Init, InitDivide, InitNormalize, InitBlock, InitAccumulate, InitBuffer
<1> QED
  BY <1>1 DEF InitDouble, DoubleInv

\* The two instructions leave the two sums.
LEMMA DoubleKeepsInv ==
  ASSUME DoubleInv, AluLow \/ AluHigh
  PROVE  DoubleInv'
<1>1. /\ program = "DOUBLE" /\ UNCHANGED <<program, given>> /\ pc' = pc + 1
  BY DEF AluLow, AluHigh, ALU, Issue
<1>2. given \in [xHi : Word, xLo : Word, yHi : Word, yLo : Word, subtract : BOOLEAN]
  BY <1>1 DEF DoubleInv
<1>3. LowSum' = LowSum /\ HighSum' = HighSum
  BY <1>1 DEF LowSum, HighSum
<1>4. given.subtract \in BOOLEAN
  BY <1>2
<1>5. CASE AluLow
  <2> DEFINE f == IF given.subtract THEN "X-Y" ELSE "X+Y"
             s == AluRaw(f, given.xLo, given.yLo, 0)
  <2>1. pc = 0 /\ r' = [lo |-> IF 0 = 0 THEN s.raw ELSE r.lo, hi |-> s.raw,
                        flag |-> [AZ |-> s.raw = 0, AN |-> Negative(s.raw, W),
                                 AV |-> s.av, AC |-> s.ac]]
    BY <1>5 DEF AluLow, ALU, Issue
  <2>2. s = LowSum
    <3>1. CASE given.subtract
      BY <3>1, AluAdds DEF LowSum, Addend, Number
    <3>2. CASE ~given.subtract
      BY <3>2, AluAdds DEF LowSum, Addend, Number
    <3> QED
      BY <3>1, <3>2
  <2> HIDE DEF s
  <2>3. r'.lo = LowSum.raw /\ r'.flag["AC"] = LowSum.ac
    BY <2>1, <2>2
  <2>4. pc' = 1
    BY <1>1, <2>1
  <2> QED
    BY <1>1, <1>2, <1>3, <2>3, <2>4 DEF DoubleInv
<1>6. CASE AluHigh
  <2> DEFINE f == IF given.subtract THEN "X-Y+C-1" ELSE "X+Y+C"
             s == AluRaw(f, given.xHi, given.yHi, Number(r.flag["AC"]))
  <2>1. pc = 1 /\ r' = [lo |-> IF 1 = 0 THEN s.raw ELSE r.lo, hi |-> s.raw,
                        flag |-> [AZ |-> s.raw = 0, AN |-> Negative(s.raw, W),
                                 AV |-> s.av, AC |-> s.ac]]
    BY <1>6 DEF AluHigh, ALU, Issue
  <2>2. r.lo = LowSum.raw /\ r.flag["AC"] = LowSum.ac
    BY <1>1, <2>1 DEF DoubleInv
  <2>3. s = HighSum
    <3>1. CASE given.subtract
      BY <2>2, <3>1, AluAdds DEF HighSum, Addend
    <3>2. CASE ~given.subtract
      BY <2>2, <3>2, AluAdds DEF HighSum, Addend
    <3> QED
      BY <3>1, <3>2
  <2> HIDE DEF s
  <2>4. /\ r'.lo = LowSum.raw /\ r'.hi = HighSum.raw
        /\ r'.flag["AN"] = Negative(HighSum.raw, W)
        /\ r'.flag["AV"] = HighSum.av /\ r'.flag["AC"] = HighSum.ac
    <3>1. 1 # 0
      OBVIOUS
    <3> QED
      BY <2>1, <2>2, <2>3, <3>1
  <2>5. pc' = 2
    BY <1>1, <2>1
  <2> QED
    BY <1>1, <1>2, <1>3, <2>4, <2>5 DEF DoubleInv
<1> QED
  BY <1>5, <1>6

\* The other programs leave them alone.
LEMMA OthersLeaveDouble ==
  ASSUME DoubleInv, [Next]_vars, ~(AluLow \/ AluHigh)
  PROVE  DoubleInv'
<1>1. CASE UNCHANGED vars
  BY <1>1 DEF vars, DoubleInv, LowSum, HighSum
<1>2. CASE Next
  <2>1. program # "DOUBLE" /\ UNCHANGED program
    BY <1>2 DEF Next, DIVS, DIVQ, EXPHI, EXPLO, NORM, EXPADJ, MAC, SATMR, MODIFY, Issue
  <2> QED
    BY <2>1 DEF DoubleInv
<1> QED
  BY <1>1, <1>2

\* The exact result is the high sum above the low word.
LEMMA DoubleIsHighSum ==
  ASSUME given \in [xHi : Word, xLo : Word, yHi : Word, yLo : Word, subtract : BOOLEAN]
  PROVE  LET x == Double(given.xHi, given.xLo)
             y == Double(given.yHi, given.yLo)
             n == IF given.subtract THEN x - y ELSE x + y
             high == Signed(given.xHi, W) + Signed(Addend(given.yHi, given.subtract), W)
                       + Number(LowSum.ac)
         IN /\ x \in Int /\ y \in Int
            /\ n = 2 ^ W * high + LowSum.raw
<1> DEFINE m == 2 ^ W
           xs == Signed(given.xHi, W)
           ys == Signed(given.yHi, W)
           as == Signed(Addend(given.yHi, given.subtract), W)
           al == Addend(given.yLo, given.subtract)
           c == Number(given.subtract)
           k == Number(LowSum.ac)
           lo == LowSum.raw
           xl == given.xLo
           yl == given.yLo
<1>1. /\ given.xHi \in Word /\ xl \in Word /\ given.yHi \in Word /\ yl \in Word
      /\ given.subtract \in BOOLEAN
  OBVIOUS
<1>2. m \in Nat \ {0}
  BY DatapathConstants, HalfPower
<1>3. xs \in Int /\ ys \in Int
  BY <1>1, SignedOfWord
<1>4. xl \in Int /\ yl \in Int
  BY <1>1, <1>2 DEF Word
<1>5. /\ al \in Word /\ c \in {0, 1}
      /\ given.subtract => as = -1 - ys /\ al = m - 1 - yl /\ c = 1
      /\ ~given.subtract => as = ys /\ al = yl /\ c = 0
  BY <1>1, ComplementExact DEF Addend, Number
<1>6. xl + al + c = lo + m * k /\ lo \in Word
  BY <1>1, <1>5, SumExact DEF LowSum
<1>7. lo \in Int /\ k \in {0, 1}
  BY <1>2, <1>6 DEF Word, Number
<1> DEFINE x == xs * m + xl
           y == ys * m + yl
<1>8. Double(given.xHi, given.xLo) = x /\ Double(given.yHi, given.yLo) = y
  BY DEF Double
<1> HIDE DEF m, xs, ys, as, al, c, k, lo, xl, yl
<1>9. x \in Int /\ y \in Int
  BY <1>2, <1>3, <1>4
<1> DEFINE mx == m * xs
           my == m * ys
           mk == m * k
<1>10. mx \in Int /\ my \in Int /\ mk \in Int /\ x = mx + xl /\ y = my + yl
  BY <1>2, <1>3, <1>4, <1>7
<1>11. (IF given.subtract THEN x - y ELSE x + y) = m * (xs + as + k) + lo
  <2>1. CASE given.subtract
    <3>1. m * (xs + (-1 - ys) + k) = mx - m - my + mk
      BY <1>2, <1>3, <1>7
    <3>2. xl + (m - 1 - yl) + 1 = lo + mk
      BY <1>5, <1>6, <2>1
    <3> HIDE DEF mx, my, mk, x, y
    <3>3. x - y = m * (xs + (-1 - ys) + k) + lo
      BY <1>2, <1>4, <1>7, <1>10, <3>1, <3>2
    <3> QED
      BY <1>5, <2>1, <3>3
  <2>2. CASE ~given.subtract
    <3>1. m * (xs + ys + k) = mx + my + mk
      BY <1>2, <1>3, <1>7
    <3>2. xl + yl + 0 = lo + mk
      BY <1>5, <1>6, <2>2
    <3> HIDE DEF mx, my, mk, x, y
    <3>3. x + y = m * (xs + ys + k) + lo
      BY <1>2, <1>4, <1>7, <1>10, <3>1, <3>2
    <3> QED
      BY <1>5, <2>2, <3>3
  <2> QED
    BY <1>1, <2>1, <2>2
<1> QED
  BY <1>8, <1>9, <1>11 DEF m, xs, as, k, lo

\* A double word whose high word is a sum reduced to one word.
LEMMA DoubleWord ==
  ASSUME NEW s \in Int, NEW lo \in Word
  PROVE  LET m == 2 ^ W
             h == 2 ^ (W - 1)
             n == m * s + lo
         IN /\ (s % m) * m + lo = n % 2 ^ (2 * W)
            /\ n \in -(2 ^ (2 * W - 1)) .. 2 ^ (2 * W - 1) - 1 <=> s \in -h .. h - 1
            /\ n \div m = s
            /\ n < 0 <=> s < 0
<1> DEFINE m == 2 ^ W
           h == 2 ^ (W - 1)
           mm == 2 ^ (2 * W)
           mh == 2 ^ (2 * W - 1)
           n == m * s + lo
           hi == s % m
           z == s \div m
<1>1. W \in Nat \ {0} /\ W - 1 \in Nat /\ 2 * W = W + W /\ 2 * W - 1 = W + (W - 1)
  BY DatapathConstants
<1>2. m \in Nat \ {0} /\ h \in Nat \ {0} /\ m = 2 * h
  BY <1>1, HalfPower
<1>3. mm = m * m /\ mh = m * h
  BY <1>1, PowerSum
<1>4. lo \in 0 .. m - 1 /\ lo \in Int
  BY <1>2 DEF Word
<1>5. s = m * z + hi /\ hi \in 0 .. m - 1 /\ z \in Int /\ hi \in Int
  <2> HIDE DEF m
  <2>1. s = m * z + hi /\ hi \in 0 .. m - 1 /\ z \in Int
    BY <1>2, Division
  <2> HIDE DEF hi, z
  <2> QED
    BY <1>2, <2>1
<1> HIDE DEF m, h, mm, mh, hi, z
<1>6. n \in Int /\ m * s \in Int
  BY <1>2, <1>4
<1>7. n \div m = s
  <2> HIDE DEF n
  <2>1. n = m * s + lo
    BY DEF n
  <2> QED
    BY <1>2, <1>4, <1>6, <2>1, DivisionUnique
<1>8. hi * m + lo = n % mm
  <2> DEFINE k == hi * m + lo
  <2>1. k \in 0 .. mm - 1
    <3>1. hi * m \in Nat /\ (m - 1 - hi) * m \in Nat
      BY <1>2, <1>5
    <3>2. m * m = (m - 1 - hi) * m + hi * m + m
      BY <1>2, <1>5
    <3> QED
      BY <1>2, <1>3, <1>4, <3>1, <3>2
  <2>2. n = mm * z + k
    <3>1. m * s = (m * m) * z + hi * m
      BY <1>2, <1>5
    <3>2. (m * m) * z \in Int /\ hi * m \in Int
      BY <1>2, <1>5
    <3> QED
      BY <1>3, <1>4, <3>1, <3>2
  <2>3. mm \in Nat \ {0}
    BY <1>2, <1>3
  <2> HIDE DEF n, k
  <2>4. n % mm = k
    BY <1>5, <1>6, <2>1, <2>2, <2>3, DivisionUnique
  <2> QED
    BY <2>4 DEF k
<1>9. n \in -mh .. mh - 1 <=> s \in -h .. h - 1
  <2>1. m * h \in Nat
    BY <1>2
  <2>2. CASE s >= h
    <3>1. m * (s - h) \in Nat /\ m * s = m * (s - h) + m * h
      BY <1>2, <2>2
    <3> QED
      BY <1>2, <1>3, <1>4, <1>6, <2>1, <2>2, <3>1
  <2>3. CASE s < -h
    <3>1. m * (-h - 1 - s) \in Nat /\ m * s = -(m * (-h - 1 - s)) - m * h - m
      BY <1>2, <2>3
    <3> QED
      BY <1>2, <1>3, <1>4, <1>6, <2>1, <2>3, <3>1
  <2>4. CASE s \in -h .. h - 1
    <3>1. m * (h - 1 - s) \in Nat /\ m * s = m * h - m - m * (h - 1 - s)
      BY <1>2, <2>4
    <3>2. m * (s + h) \in Nat /\ m * s = m * (s + h) - m * h
      BY <1>2, <2>4
    <3> QED
      BY <1>2, <1>3, <1>4, <1>6, <2>1, <2>4, <3>1, <3>2
  <2> QED
    BY <1>2, <2>2, <2>3, <2>4
<1>10. n < 0 <=> s < 0
  <2>1. CASE s >= 0
    <3>1. m * s \in Nat
      BY <1>2, <2>1
    <3> QED
      BY <1>4, <2>1, <3>1
  <2>2. CASE s < 0
    <3>1. m * (-1 - s) \in Nat /\ m * s = -(m * (-1 - s)) - m
      BY <1>2, <2>2
    <3> QED
      BY <1>2, <1>4, <1>6, <2>2, <3>1
  <2> QED
    BY <2>1, <2>2
<1> QED
  BY <1>7, <1>8, <1>9, <1>10 DEF m, h, mm, mh, hi

\* The two sums are the exact double word, its overflow and its order.
LEMMA DoubleInvExact == DoubleInv => DoubleExact
<1> DEFINE m == 2 ^ W
           h == 2 ^ (W - 1)
           x == Double(given.xHi, given.xLo)
           y == Double(given.yHi, given.yLo)
           n == IF given.subtract THEN x - y ELSE x + y
           fits == n \in -(2 ^ (2 * W - 1)) .. 2 ^ (2 * W - 1) - 1
           ah == Addend(given.yHi, given.subtract)
           s == Signed(given.xHi, W) + Signed(ah, W) + Number(LowSum.ac)
           hi == HighSum
           lo == LowSum.raw
<1> SUFFICES ASSUME DoubleInv, program = "DOUBLE", pc = 2
             PROVE  /\ r.hi * m + r.lo = n % 2 ^ (2 * W)
                    /\ r.flag["AV"] <=> ~fits
                    /\ given.subtract => /\ IfCondition("LT", r.flag, FALSE) <=> x < y
                                         /\ IfCondition("GE", r.flag, FALSE) <=> x >= y
                    /\ Signed(Saturate([raw |-> r.hi, ac |-> r.flag["AC"],
                            av |-> r.flag["AV"]]), W)
                         = Clamp(n \div m, -h, h - 1)
  BY DEF DoubleExact
<1>1. /\ given \in [xHi : Word, xLo : Word, yHi : Word, yLo : Word, subtract : BOOLEAN]
      /\ r.lo = lo /\ r.hi = hi.raw
      /\ r.flag["AN"] = Negative(hi.raw, W) /\ r.flag["AV"] = hi.av /\ r.flag["AC"] = hi.ac
  BY DEF DoubleInv
<1>2. given.xHi \in Word /\ ah \in Word /\ lo \in Word /\ Number(LowSum.ac) \in {0, 1}
  <2>1. /\ given.xHi \in Word /\ given.xLo \in Word /\ given.yHi \in Word /\ given.yLo \in Word
        /\ given.subtract \in BOOLEAN
    BY <1>1
  <2>2. ah \in Word /\ Addend(given.yLo, given.subtract) \in Word
          /\ Number(given.subtract) \in {0, 1}
    BY <2>1, ComplementExact DEF Addend, Number
  <2>3. lo \in Word
    BY <2>1, <2>2, SumExact DEF LowSum
  <2> QED
    BY <2>1, <2>2, <2>3 DEF Number
<1>3. /\ s \in Int
      /\ hi.raw = s % m
      /\ hi.ac \in BOOLEAN /\ hi.av \in BOOLEAN
      /\ hi.av <=> s \notin -h .. h - 1
      /\ hi.av => (hi.ac <=> s < 0)
      /\ (Negative(hi.raw, W) # hi.av) <=> s < 0
  <2> DEFINE c == Number(LowSum.ac)
  <2>1. c \in {0, 1}
    BY <1>2
  <2>2. hi = Sum(given.xHi, ah, c)
    BY DEF HighSum
  <2> HIDE DEF c, ah, hi
  <2>3. LET u == Signed(given.xHi, W) + Signed(ah, W) + c
            v == Sum(given.xHi, ah, c)
        IN /\ u \in Int
           /\ v.raw = u % 2 ^ W
           /\ v.ac \in BOOLEAN /\ v.av \in BOOLEAN
           /\ v.av <=> u \notin -(2 ^ (W - 1)) .. 2 ^ (W - 1) - 1
           /\ v.av => (v.ac <=> u < 0)
           /\ (Negative(v.raw, W) # v.av) <=> u < 0
    BY <1>2, <2>1, SumExact
  <2> QED
    BY <2>2, <2>3 DEF c
<1>4. x \in Int /\ y \in Int /\ n = m * s + lo
  BY <1>1, DoubleIsHighSum
<1> HIDE DEF s, x, y, ah, hi
<1>5. /\ (s % m) * m + lo = n % 2 ^ (2 * W)
      /\ fits <=> s \in -h .. h - 1
      /\ n \div m = s
      /\ n < 0 <=> s < 0
  <2> HIDE DEF n, lo
  <2>1. LET k == m * s + lo
        IN /\ (s % m) * m + lo = k % 2 ^ (2 * W)
           /\ k \in -(2 ^ (2 * W - 1)) .. 2 ^ (2 * W - 1) - 1 <=> s \in -h .. h - 1
           /\ k \div m = s
           /\ k < 0 <=> s < 0
    BY <1>2, <1>3, DoubleWord
  <2> QED
    BY <1>4, <2>1
<1>6. r.hi * m + r.lo = n % 2 ^ (2 * W)
  BY <1>1, <1>3, <1>5
<1>7. r.flag["AV"] <=> ~fits
  <2> HIDE DEF fits
  <2> QED
    BY <1>1, <1>3, <1>5
<1>8. ASSUME given.subtract
      PROVE  /\ IfCondition("LT", r.flag, FALSE) <=> x < y
             /\ IfCondition("GE", r.flag, FALSE) <=> x >= y
  <2>1. n < 0 <=> x < y
    BY <1>4, <1>8
  <2> DEFINE less == r.flag["AN"] # r.flag["AV"]
  <2>2. IfCondition("LT", r.flag, FALSE) = less /\ IfCondition("GE", r.flag, FALSE) = ~less
    BY DEF IfCondition
  <2>3. less <=> s < 0
    BY <1>1, <1>3
  <2> HIDE DEF less
  <2>4. less <=> x < y
    BY <1>5, <2>1, <2>3
  <2>5. ~(x < y) <=> x >= y
    BY <1>4
  <2> QED
    BY <2>2, <2>4, <2>5
<1>9. Signed(Saturate([raw |-> r.hi, ac |-> r.flag["AC"], av |-> r.flag["AV"]]), W)
        = Clamp(n \div m, -h, h - 1)
  <2> DEFINE w == Saturate([raw |-> r.hi, ac |-> r.flag["AC"], av |-> r.flag["AV"]])
  <2>1. w = IF hi.av THEN IF hi.ac THEN h ELSE h - 1 ELSE hi.raw
    BY <1>1 DEF Saturate
  <2>2. m \in Nat \ {0} /\ h \in Nat \ {0} /\ m = 2 * h
    BY DatapathConstants, HalfPower
  <2>3. Signed(w, W) = IF w >= h THEN w - m ELSE w
    BY DEF Signed, Negative
  <2>4. n \div m = s
    BY <1>5
  <2> HIDE DEF w
  <2>5. CASE ~hi.av
    <3>1. s \in -(2 ^ (W - 1)) .. 2 ^ (W - 1) - 1 /\ w = s % 2 ^ W
      BY <1>3, <2>1, <2>5
    <3>2. Signed(w, W) = s
      BY <3>1, DatapathConstants, SignedOfRemainder
    <3> HIDE DEF h, m, n
    <3>3. Clamp(s, -h, h - 1) = s
      BY <1>3, <2>2, <2>5 DEF Clamp
    <3> QED
      BY <2>4, <3>2, <3>3 DEF w
  <2>6. CASE hi.av /\ hi.ac
    <3> HIDE DEF h, m, n
    <3>1. w = h /\ Signed(w, W) = -h
      BY <2>1, <2>2, <2>3, <2>6
    <3>2. Clamp(s, -h, h - 1) = -h
      BY <1>3, <2>2, <2>6 DEF Clamp
    <3> QED
      BY <2>4, <3>1, <3>2 DEF w
  <2>7. CASE hi.av /\ ~hi.ac
    <3> HIDE DEF h, m, n
    <3>1. w = h - 1 /\ Signed(w, W) = h - 1
      BY <2>1, <2>2, <2>3, <2>7
    <3>2. Clamp(s, -h, h - 1) = h - 1
      BY <1>3, <2>2, <2>7 DEF Clamp
    <3> QED
      BY <2>4, <3>1, <3>2 DEF w
  <2> QED
    BY <2>5, <2>6, <2>7
<1> QED
  BY <1>6, <1>7, <1>8, <1>9

\* Sums of products through guard bits and rounding, and sums of double words
\* through the carry, are exact, and so are the flags and saturations that go
\* with them.
THEOREM SumsAreExact == Spec => []SumsExact
<1>1. AccumulateInv /\ DoubleInv => SumsExact
  BY AccumulateInvExact, DoubleInvExact DEF SumsExact
<1>2. AccumulateInv /\ [Next]_vars => AccumulateInv'
  BY AccumulateKeepsInv, OthersLeaveAccumulate
<1>3. DoubleInv /\ [Next]_vars => DoubleInv'
  BY DoubleKeepsInv, OthersLeaveDouble
<1> QED
  BY <1>1, <1>2, <1>3, InitAccumulateInv, InitDoubleInv, PTL DEF Spec

-----------------------------------------------------------------------------
(***************************************************************************)
(* Words as sets of bits: every set of bits spells one word, and a word    *)
(* or-ed with one that ends below it is their sum.                         *)
(***************************************************************************)

\* An element of a set, as the fold picks it.
Picked(s) == CHOOSE x \in s : TRUE

\* g adds up the subsets of S, element by element.
AddsUp(g, S) ==
  g = [s \in SUBSET S |-> IF s = {} THEN 0 ELSE Picked(s) + g[s \ {Picked(s)}]]

\* SumSet is one of the functions that add up a set.
LEMMA SumSetIsFold == ASSUME NEW S PROVE SumSet(S) = (CHOOSE g : AddsUp(g, S))[S]
  BY DEF SumSet, FoldSet, MapThenFoldSet, AddsUp, Picked

\* The recursion of the fold has a solution.
LEMMA FoldExists ==
  ASSUME NEW S, IsFiniteSet(S)
  PROVE  \E g : AddsUp(g, S)
<1> DEFINE Sum1(g, s) == IF s = {} THEN 0 ELSE Picked(s) + g[s \ {Picked(s)}]
           Upto(g, n) == \A s \in SUBSET S : Cardinality(s) <= n => g[s] = Sum1(g, s)
           N == {n \in Nat : \E g : g = [s \in SUBSET S |-> g[s]] /\ Upto(g, n)}
<1>1. \A s \in SUBSET S : /\ IsFiniteSet(s) /\ Cardinality(s) \in Nat
                          /\ s # {} => /\ s \ {Picked(s)} \in SUBSET S
                                       /\ Cardinality(s \ {Picked(s)}) = Cardinality(s) - 1
  <2> TAKE s \in SUBSET S
  <2>1. IsFiniteSet(s)
    BY FS_Subset
  <2>2. Cardinality(s) \in Nat
    BY <2>1, FS_CardinalityType
  <2>3. ASSUME s # {} PROVE Picked(s) \in s
    BY <2>3 DEF Picked
  <2>4. ASSUME s # {} PROVE Cardinality(s \ {Picked(s)}) = Cardinality(s) - 1
    BY <2>1, <2>3, <2>4, FS_RemoveElement
  <2> QED
    BY <2>1, <2>2, <2>4
<1>2. 0 \in N
  <2> DEFINE g == [s \in SUBSET S |-> 0]
  <2>1. \A s \in SUBSET S : Cardinality(s) <= 0 => s = {}
    <3> TAKE s \in SUBSET S
    <3>1. IsFiniteSet(s) /\ Cardinality(s) \in Nat
      BY <1>1
    <3>2. Cardinality(s) = 0 => s = {}
      BY <3>1, FS_EmptySet
    <3> QED
      BY <3>1, <3>2
  <2>2. Upto(g, 0)
    BY <2>1
  <2>3. g = [s \in SUBSET S |-> g[s]]
    OBVIOUS
  <2> QED
    BY <2>2, <2>3
<1>3. ASSUME NEW n \in Nat, n \in N PROVE n + 1 \in N
  <2>1. PICK g : g = [s \in SUBSET S |-> g[s]] /\ Upto(g, n)
    BY <1>3
  <2> DEFINE k == [s \in SUBSET S |-> Sum1(g, s)]
  <2>2. \A s \in SUBSET S : Cardinality(s) <= n => k[s] = g[s]
    BY <2>1
  <2>3. Upto(k, n + 1)
    <3> SUFFICES ASSUME NEW s \in SUBSET S, Cardinality(s) <= n + 1
                 PROVE  k[s] = Sum1(k, s)
      OBVIOUS
    <3>1. k[s] = Sum1(g, s)
      OBVIOUS
    <3>2. CASE s = {}
      BY <3>1, <3>2
    <3>3. CASE s # {}
      <4>1. s \ {Picked(s)} \in SUBSET S /\ Cardinality(s \ {Picked(s)}) <= n
        <5>1. Cardinality(s) \in Nat /\ Cardinality(s \ {Picked(s)}) = Cardinality(s) - 1
          BY <1>1, <3>3
        <5> QED
          BY <5>1
      <4>2. k[s \ {Picked(s)}] = g[s \ {Picked(s)}]
        BY <2>2, <4>1
      <4> HIDE DEF k
      <4> QED
        BY <3>1, <3>3, <4>2
    <3> QED
      BY <3>2, <3>3
  <2>4. k = [s \in SUBSET S |-> k[s]]
    OBVIOUS
  <2> HIDE DEF k, Upto
  <2>5. \E x : x = [s \in SUBSET S |-> x[s]] /\ Upto(x, n + 1)
    BY <2>3, <2>4
  <2>6. n + 1 \in Nat
    OBVIOUS
  <2> QED
    BY <2>5, <2>6
<1>4. Cardinality(S) \in N
  <2>1. Nat \subseteq N
    <3> HIDE DEF N
    <3> QED
      BY <1>2, <1>3, Induction
  <2> QED
    BY <2>1, FS_CardinalityType
<1>5. PICK g : g = [s \in SUBSET S |-> g[s]] /\ Upto(g, Cardinality(S))
  BY <1>4
<1>6. \A s \in SUBSET S : g[s] = Sum1(g, s)
  <2> TAKE s \in SUBSET S
  <2>1. Cardinality(s) <= Cardinality(S)
    BY FS_Subset
  <2> QED
    BY <1>5, <2>1
<1>7. AddsUp(g, S)
  BY <1>5, <1>6 DEF AddsUp
<1> QED
  BY <1>7

-----------------------------------------------------------------------------
(* Bits *)

\* The bits of a number in two parts.
LEMMA BitsOfSplit ==
  ASSUME NEW k \in Nat, NEW c \in Nat, NEW b \in 0 .. 2 ^ k - 1, NEW n \in Nat
  PROVE  Bit(2 ^ k * c + b, n) <=> IF n < k THEN Bit(b, n) ELSE Bit(c, n - k)
<1> DEFINE kk == 2 ^ k
           nn == 2 ^ n
           v == kk * c + b
<1>1. kk \in Nat \ {0} /\ nn \in Nat \ {0} /\ b \in Nat
  BY PowerType
<1>2. kk * c \in Nat /\ v \in Nat
  BY <1>1
<1>3. CASE n < k
  <2> DEFINE d == k - n
             dd == 2 ^ d
             h == 2 ^ (d - 1)
             q == b \div nn
             t == b % nn
  <2>1. d \in Nat \ {0} /\ n + d = k
    BY <1>3
  <2>2. kk = nn * dd
    <3> HIDE DEF d
    <3> QED
      BY <2>1, PowerSum
  <2>3. dd = 2 * h /\ h \in Nat \ {0} /\ dd \in Nat \ {0}
    <3> HIDE DEF d
    <3> QED
      BY <2>1, HalfPower
  <2> HIDE DEF dd, h
  <2>4. b = nn * q + t /\ t \in 0 .. nn - 1 /\ q \in Int
    <3>1. b \in Int
      BY <1>1
    <3> HIDE DEF nn
    <3> QED
      BY <1>1, <3>1, Division
  <2> HIDE DEF kk, nn, q, t
  <2> DEFINE y == h * c
             p == 2 * y + q
  <2>5. y \in Int /\ p \in Int
    BY <2>3, <2>4
  <2>6. v = nn * p + t
    <3>1. kk * c = nn * (2 * y)
      BY <1>1, <2>2, <2>3
    <3> HIDE DEF y
    <3>2. nn * p = nn * (2 * y) + nn * q
      BY <1>1, <2>4, <2>5
    <3>3. nn * (2 * y) \in Int /\ nn * q \in Int /\ t \in Int
      BY <1>1, <2>4, <2>5
    <3> QED
      BY <2>4, <3>1, <3>2, <3>3
  <2>7. v \div nn = p
    <3> HIDE DEF v, p
    <3>1. v \in Int
      BY <1>2
    <3> QED
      BY <1>1, <2>4, <2>5, <2>6, <3>1, DivisionUnique
  <2>8. p % 2 = q % 2
    <3> HIDE DEF y
    <3>1. (q + 2 * y) % 2 = q % 2
      BY <2>4, <2>5, SameRemainder
    <3>2. p = q + 2 * y
      BY <2>4, <2>5
    <3> QED
      BY <3>1, <3>2
  <2> HIDE DEF v, p
  <2>9. Bit(v, n) <=> Bit(b, n)
    BY <2>7, <2>8 DEF Bit, nn, q
  <2> QED
    BY <1>3, <2>9 DEF v, kk
<1>4. CASE ~(n < k)
  <2> DEFINE d == n - k
             dd == 2 ^ d
             g == c \div dd
             u == c % dd
             t == kk * u + b
  <2>1. d \in Nat /\ k + d = n
    BY <1>4
  <2>2. nn = kk * dd /\ dd \in Nat \ {0}
    <3> HIDE DEF d
    <3> QED
      BY <2>1, PowerSum, PowerType
  <2>3. c = dd * g + u /\ u \in 0 .. dd - 1 /\ g \in Int
    <3>1. c \in Int
      OBVIOUS
    <3> HIDE DEF dd
    <3> QED
      BY <2>2, <3>1, Division
  <2>4. b \in 0 .. kk - 1
    OBVIOUS
  <2> HIDE DEF kk, nn, dd, g, u
  <2>5. t \in 0 .. nn - 1
    <3>1. kk * u \in Nat /\ kk * (dd - 1 - u) \in Nat
      BY <1>1, <2>2, <2>3
    <3>2. kk * dd = kk * (dd - 1 - u) + kk * u + kk
      BY <1>1, <2>2, <2>3
    <3> QED
      BY <1>1, <2>2, <2>4, <3>1, <3>2
  <2>6. v = nn * g + t
    <3>1. kk * c = (kk * dd) * g + kk * u
      BY <1>1, <2>2, <2>3
    <3>2. (kk * dd) * g \in Int /\ kk * u \in Int
      BY <1>1, <2>2, <2>3
    <3> QED
      BY <1>1, <2>2, <3>1, <3>2
  <2>7. v \div nn = g
    <3> HIDE DEF v, t
    <3>1. v \in Int
      BY <1>2
    <3> QED
      BY <1>1, <2>3, <2>5, <2>6, <3>1, DivisionUnique
  <2> HIDE DEF v
  <2>8. Bit(v, n) <=> Bit(c, n - k)
    BY <2>7 DEF Bit, nn, g, dd
  <2> QED
    BY <1>4, <2>8 DEF v, kk
<1> QED
  BY <1>3, <1>4

\* A single bit.
LEMMA BitOfSmall ==
  ASSUME NEW c \in {0, 1}, NEW n \in Nat
  PROVE  Bit(c, n) <=> n = 0 /\ c = 1
<1>1. CASE n = 0
  <2>1. c % 2 = c /\ c \div 1 = c
    <3>1. c \in 0 .. 2 - 1 /\ c \in Int /\ 1 \in Nat \ {0} /\ 0 \in 0 .. 1 - 1 /\ c = 1 * c + 0
      OBVIOUS
    <3> QED
      BY <3>1, OwnRemainder, DivisionUnique
  <2> QED
    BY <1>1, <2>1, PowerZero DEF Bit
<1>2. CASE n # 0
  <2>1. 2 ^ n \in Nat \ {0} /\ c < 2 ^ n
    <3>1. 2 ^ n = 2 * 2 ^ (n - 1) /\ 2 ^ (n - 1) \in Nat \ {0}
      BY <1>2, HalfPower
    <3> QED
      BY <3>1
  <2>2. c \div 2 ^ n = 0
    <3> DEFINE m == 2 ^ n
    <3>1. m \in Nat \ {0} /\ c < m
      BY <2>1
    <3> HIDE DEF m
    <3>2. c \in 0 .. m - 1
      BY <3>1
    <3> QED
      BY <3>1, <3>2, OwnRemainder DEF m
  <2>3. 0 % 2 = 0
    BY OwnRemainder
  <2> DEFINE u == c \div 2 ^ n
  <2>4. Bit(c, n) <=> u % 2 = 1
    BY DEF Bit
  <2>5. u = 0
    BY <2>2
  <2> HIDE DEF u
  <2> QED
    BY <1>2, <2>3, <2>4, <2>5
<1> QED
  BY <1>1, <1>2

\* Zero has no bits.
LEMMA BitOfZero == ASSUME NEW n \in Nat PROVE ~Bit(0, n)
  BY BitOfSmall

\* The top bit.
LEMMA BitSplit ==
  ASSUME NEW n \in Nat, NEW v \in 0 .. 2 ^ (n + 1) - 1
  PROVE  /\ Bit(v, n) <=> v >= 2 ^ n
         /\ \A i \in 0 .. n - 1 : Bit(v, i) <=> Bit(IF v >= 2 ^ n THEN v - 2 ^ n ELSE v, i)
<1> DEFINE m == 2 ^ n
           c == IF v >= m THEN 1 ELSE 0
           b == IF v >= m THEN v - m ELSE v
<1>1. m \in Nat \ {0} /\ 2 ^ (n + 1) = 2 * m
  BY PowerType, PowerNext
<1>2. b \in 0 .. m - 1 /\ v = m * c + b /\ c \in {0, 1}
  <2> HIDE DEF m
  <2> QED
    BY <1>1
<1>3. \A i \in Nat : Bit(v, i) <=> IF i < n THEN Bit(b, i) ELSE Bit(c, i - n)
  <2> HIDE DEF b, c
  <2> QED
    BY <1>2, BitsOfSplit
<1>4. Bit(v, n) <=> Bit(c, 0)
  BY <1>3
<1>5. Bit(c, 0) <=> c = 1
  <2> HIDE DEF c
  <2> QED
    BY <1>2, BitOfSmall
<1>6. \A i \in 0 .. n - 1 : Bit(v, i) <=> Bit(b, i)
  <2> HIDE DEF b, c
  <2> QED
    BY <1>3
<1> QED
  BY <1>4, <1>5, <1>6

\* A word is known by its bits.
LEMMA BitsInjective ==
  ASSUME NEW w \in Nat, NEW x \in 0 .. 2 ^ w - 1, NEW y \in 0 .. 2 ^ w - 1,
         Bits(x, w) = Bits(y, w)
  PROVE  x = y
<1> DEFINE Alike(u, v, k) == \A i \in 0 .. k - 1 : Bit(u, i) <=> Bit(v, i)
           S == {k \in Nat : \A u, v \in 0 .. 2 ^ k - 1 : Alike(u, v, k) => u = v}
<1>1. 0 \in S
  BY PowerZero
<1>2. ASSUME NEW k \in Nat, k \in S PROVE k + 1 \in S
  <2> SUFFICES ASSUME NEW u \in 0 .. 2 ^ (k + 1) - 1, NEW v \in 0 .. 2 ^ (k + 1) - 1,
                      Alike(u, v, k + 1)
               PROVE  u = v
    OBVIOUS
  <2> DEFINE m == 2 ^ k
             a == IF u >= m THEN u - m ELSE u
             b == IF v >= m THEN v - m ELSE v
  <2>1. m \in Nat \ {0} /\ 2 ^ (k + 1) = 2 * m
    BY PowerType, PowerNext
  <2>2. a \in 0 .. m - 1 /\ b \in 0 .. m - 1
    <3> HIDE DEF m
    <3> QED
      BY <2>1
  <2>3. u >= m <=> v >= m
    <3>1. k \in 0 .. (k + 1) - 1
      OBVIOUS
    <3>2. Bit(u, k) <=> Bit(v, k)
      BY <3>1
    <3>3. (Bit(u, k) <=> u >= m) /\ (Bit(v, k) <=> v >= m)
      BY BitSplit
    <3> QED
      BY <3>2, <3>3
  <2>4. Alike(a, b, k)
    <3> SUFFICES ASSUME NEW i \in 0 .. k - 1 PROVE Bit(a, i) <=> Bit(b, i)
      OBVIOUS
    <3>1. i \in 0 .. (k + 1) - 1
      OBVIOUS
    <3>2. Bit(u, i) <=> Bit(v, i)
      BY <3>1
    <3>3. (Bit(u, i) <=> Bit(a, i)) /\ (Bit(v, i) <=> Bit(b, i))
      BY BitSplit
    <3> QED
      BY <3>2, <3>3
  <2>5. a = b
    <3>1. \A p, q \in 0 .. 2 ^ k - 1 : Alike(p, q, k) => p = q
      BY <1>2
    <3> HIDE DEF Alike, a, b
    <3> QED
      BY <2>2, <2>4, <3>1
  <2> HIDE DEF m
  <2> QED
    BY <2>1, <2>3, <2>5
<1>3. w \in S
  <2> HIDE DEF S
  <2> QED
    BY <1>1, <1>2, Induction
<1>4. Alike(x, y, w)
  <2> TAKE i \in 0 .. w - 1
  <2> QED
    BY DEF Bits
<1> QED
  BY <1>3, <1>4

\* Setting a clear bit.
LEMMA SetBit ==
  ASSUME NEW w \in Nat, NEW v \in 0 .. 2 ^ w - 1, NEW j \in 0 .. w - 1, ~Bit(v, j)
  PROVE  /\ v + 2 ^ j \in 0 .. 2 ^ w - 1
         /\ Bits(v + 2 ^ j, w) = Bits(v, w) \cup {j}
<1> DEFINE jj == 2 ^ j
           c == v \div jj
           b == v % jj
           ee == 2 ^ (w - j)
           h == 2 ^ (w - j - 1)
<1>1. jj \in Nat \ {0} /\ ee \in Nat \ {0} /\ h \in Nat \ {0} /\ ee = 2 * h /\ 2 ^ w = jj * ee
  <2> DEFINE d == w - j
  <2>1. d \in Nat \ {0} /\ j + d = w /\ j \in Nat
    OBVIOUS
  <2> HIDE DEF d
  <2>2. 2 ^ d \in Nat \ {0} /\ 2 ^ (d - 1) \in Nat \ {0} /\ 2 ^ d = 2 * 2 ^ (d - 1)
    BY <2>1, HalfPower
  <2>3. 2 ^ w = 2 ^ j * 2 ^ d /\ 2 ^ j \in Nat \ {0}
    BY <2>1, PowerSum, PowerType
  <2> QED
    BY <2>2, <2>3 DEF d
<1>2. v \in Int
  OBVIOUS
<1>3. v = jj * c + b /\ b \in 0 .. jj - 1 /\ c \in Int
  <2> HIDE DEF jj
  <2> QED
    BY <1>1, <1>2, Division
<1>4. c % 2 # 1
  BY DEF Bit
<1> HIDE DEF jj, c, b, ee, h
<1>5. v \in 0 .. jj * ee - 1
  BY <1>1
<1>6. c \in 0 .. ee - 1
  <2>1. CASE c >= ee
    <3>1. jj * (c - ee) \in Nat /\ jj * c = jj * (c - ee) + jj * ee /\ jj * ee \in Int
      BY <1>1, <1>3, <2>1
    <3> QED
      BY <1>1, <1>3, <1>5, <3>1
  <2>2. CASE c < 0
    <3>1. jj * (-1 - c) \in Nat /\ jj * c = -(jj * (-1 - c)) - jj
      BY <1>1, <1>3, <2>2
    <3> QED
      BY <1>1, <1>3, <1>5, <3>1
  <2> QED
    BY <1>1, <1>3, <2>1, <2>2
<1> DEFINE p == c \div 2
<1>7. c = 2 * p /\ p \in Int
  <2>1. c = 2 * p + (c % 2) /\ c % 2 \in 0 .. 2 - 1 /\ p \in Int
    BY <1>3, Division
  <2> HIDE DEF p
  <2> QED
    BY <1>3, <1>4, <2>1
<1> HIDE DEF p
<1>8. p \in Nat /\ c \in Nat /\ c + 1 <= ee - 1
  BY <1>1, <1>6, <1>7
<1>9. v + jj = jj * (c + 1) + b
  <2>1. jj * (c + 1) = jj * c + jj /\ jj * c \in Int
    BY <1>1, <1>3
  <2> QED
    BY <1>1, <1>3, <2>1
<1>10. v + jj \in 0 .. jj * ee - 1
  <2>1. jj * (ee - 1 - (c + 1)) \in Nat
    BY <1>1, <1>8
  <2>2. jj * ee = jj * (ee - 1 - (c + 1)) + jj * (c + 1) + jj
    BY <1>1, <1>8
  <2>3. jj * (c + 1) \in Nat
    BY <1>1, <1>8
  <2> QED
    BY <1>1, <1>3, <1>9, <2>1, <2>2, <2>3
<1>11. ASSUME NEW i \in 0 .. w - 1
       PROVE  Bit(v + jj, i) <=> (i = j \/ Bit(v, i))
  <2>1. Bit(v, i) <=> IF i < j THEN Bit(b, i) ELSE Bit(c, i - j)
    <3>1. i \in Nat /\ j \in Nat /\ b \in 0 .. 2 ^ j - 1
      BY <1>3 DEF jj
    <3>2. Bit(jj * c + b, i) <=> IF i < j THEN Bit(b, i) ELSE Bit(c, i - j)
      BY <1>8, <3>1, BitsOfSplit DEF jj
    <3> QED
      BY <1>3, <3>2
  <2>2. Bit(v + jj, i) <=> IF i < j THEN Bit(b, i) ELSE Bit(c + 1, i - j)
    <3>1. c + 1 \in Nat /\ i \in Nat /\ j \in Nat
      BY <1>8
    <3>2. Bit(jj * (c + 1) + b, i) <=> IF i < j THEN Bit(b, i) ELSE Bit(c + 1, i - j)
      BY <1>3, <3>1, BitsOfSplit DEF jj
    <3> QED
      BY <1>9, <3>2
  <2>3. CASE i < j
    BY <2>1, <2>2, <2>3
  <2>4. CASE ~(i < j)
    <3> DEFINE k == i - j
    <3>1. k \in Nat /\ (k = 0 <=> i = j)
      BY <2>4
    <3>2. 2 ^ 1 = 2
      <4>1. 2 ^ (0 + 1) = 2 * 2 ^ 0
        BY PowerNext
      <4> QED
        BY <4>1, PowerZero
    <3> HIDE DEF k
    <3>3. \A e \in {0, 1} : Bit(2 ^ 1 * p + e, k) <=> IF k < 1 THEN Bit(e, k) ELSE Bit(p, k - 1)
      <4> TAKE e \in {0, 1}
      <4>1. e \in 0 .. 2 ^ 1 - 1 /\ 1 \in Nat /\ p \in Nat
        BY <1>8, <3>2
      <4> QED
        BY <3>1, <4>1, BitsOfSplit
    <3>4. 2 ^ 1 * p + 0 = c /\ 2 ^ 1 * p + 1 = c + 1
      BY <1>7, <3>2
    <3>5. /\ Bit(c, k) <=> IF k < 1 THEN Bit(0, k) ELSE Bit(p, k - 1)
          /\ Bit(c + 1, k) <=> IF k < 1 THEN Bit(1, k) ELSE Bit(p, k - 1)
      BY <3>3, <3>4
    <3>6. Bit(1, k) <=> k = 0
      BY <3>1, BitOfSmall
    <3> QED
      BY <2>1, <2>2, <2>4, <3>1, <3>5, <3>6 DEF k
  <2> QED
    BY <2>3, <2>4
<1>12. Bits(v + jj, w) = Bits(v, w) \cup {j}
  BY <1>11 DEF Bits
<1> QED
  BY <1>1, <1>10, <1>12 DEF jj

\* Different exponents give different powers.
LEMMA PowerInjective ==
  ASSUME NEW i \in Nat, NEW j \in Nat, 2 ^ i = 2 ^ j
  PROVE  i = j
<1>1. \A m, n \in Nat : m < n => 2 ^ m < 2 ^ n
  <2> SUFFICES ASSUME NEW m \in Nat, NEW n \in Nat, m < n PROVE 2 ^ m < 2 ^ n
    OBVIOUS
  <2>1. m + 1 \in Nat /\ m + 1 <= n
    OBVIOUS
  <2>2. 2 ^ (m + 1) = 2 * 2 ^ m /\ 2 ^ (m + 1) <= 2 ^ n
    BY <2>1, PowerNext, PowerGrows
  <2>3. 2 ^ m \in Nat \ {0} /\ 2 ^ n \in Nat
    BY PowerType
  <2> QED
    BY <2>2, <2>3
<1>2. 2 ^ i \in Nat
  BY PowerType
<1>3. ~(i < j) /\ ~(j < i)
  BY <1>1, <1>2
<1> QED
  BY <1>3

\* The word that a set of bits spells has those bits.
LEMMA WordOfBits ==
  ASSUME NEW w \in Nat, NEW B \in SUBSET (0 .. w - 1)
  PROVE  FromBits(B) \in 0 .. 2 ^ w - 1 /\ Bits(FromBits(B), w) = B
<1> DEFINE Pow(C) == {2 ^ n : n \in C}
           S == Pow(B)
           g == CHOOSE f : AddsUp(f, S)
           Spells(v, C) == v \in 0 .. 2 ^ w - 1 /\ Bits(v, w) = C
           N == {m \in Nat : \A C \in SUBSET B : Cardinality(C) = m => Spells(g[Pow(C)], C)}
<1>1. IsFiniteSet(B)
  <2>1. IsFiniteSet(0 .. w - 1)
    BY FS_Interval
  <2> QED
    BY <2>1, FS_Subset
<1>2. IsFiniteSet(S)
  <2> DEFINE f == [n \in B |-> 2 ^ n]
  <2>1. f \in Surjection(B, S)
    BY DEF Surjection
  <2> HIDE DEF f, S
  <2> QED
    BY <1>1, <2>1, FS_Surjection
<1>3. AddsUp(g, S)
  <2> HIDE DEF S
  <2>1. \E f : AddsUp(f, S)
    BY <1>2, FoldExists
  <2> QED
    BY <2>1
<1>4. FromBits(B) = g[S]
  BY SumSetIsFold DEF FromBits
<1> HIDE DEF g
<1>5. \A T \in SUBSET S : g[T] = IF T = {} THEN 0 ELSE Picked(T) + g[T \ {Picked(T)}]
  <2> HIDE DEF S
  <2>1. \A T \in SUBSET S :
          [s \in SUBSET S |-> IF s = {} THEN 0 ELSE Picked(s) + g[s \ {Picked(s)}]][T]
            = IF T = {} THEN 0 ELSE Picked(T) + g[T \ {Picked(T)}]
    OBVIOUS
  <2>2. g = [s \in SUBSET S |-> IF s = {} THEN 0 ELSE Picked(s) + g[s \ {Picked(s)}]]
    BY <1>3 DEF AddsUp
  <2> QED
    BY <2>1, <2>2, Zenon
<1>6. \A C \in SUBSET B : Pow(C) \in SUBSET S /\ IsFiniteSet(C)
  BY <1>1, FS_Subset
<1>7. Spells(0, {})
  <2>1. 2 ^ w \in Nat \ {0}
    BY PowerType
  <2>2. \A n \in 0 .. w - 1 : ~Bit(0, n)
    BY BitOfZero
  <2> QED
    BY <2>1, <2>2 DEF Bits
<1>8. 0 \in N
  <2> SUFFICES ASSUME NEW C \in SUBSET B, Cardinality(C) = 0 PROVE Spells(g[Pow(C)], C)
    OBVIOUS
  <2>1. C = {}
    BY <1>6, FS_EmptySet
  <2>2. Pow(C) = {} /\ Pow(C) \in SUBSET S
    BY <1>6, <2>1
  <2>3. g[Pow(C)] = 0
    BY <1>5, <2>2
  <2> QED
    BY <1>7, <2>1, <2>3
<1>9. ASSUME NEW m \in Nat, m \in N PROVE m + 1 \in N
  <2> SUFFICES ASSUME NEW C \in SUBSET B, Cardinality(C) = m + 1 PROVE Spells(g[Pow(C)], C)
    OBVIOUS
  <2> DEFINE T == Pow(C)
             x == Picked(T)
  <2>1. C # {}
    BY FS_EmptySet
  <2>2. T # {} /\ T \in SUBSET S
    BY <1>6, <2>1
  <2>3. x \in T
    <3> HIDE DEF T
    <3> QED
      BY <2>2 DEF Picked
  <2>4. PICK j \in C : x = 2 ^ j
    BY <2>3
  <2>5. j \in 0 .. w - 1 /\ j \in Nat /\ \A i \in C : i \in Nat
    OBVIOUS
  <2> DEFINE D == C \ {j}
  <2>6. T \ {x} = Pow(D)
    <3>1. \A i \in C : 2 ^ i = 2 ^ j => i = j
      BY <2>5, PowerInjective
    <3> HIDE DEF x
    <3> QED
      BY <2>4, <3>1
  <2>7. D \in SUBSET B /\ Cardinality(D) = m
    <3>1. Cardinality(D) = Cardinality(C) - 1
      BY <1>6, FS_RemoveElement
    <3> QED
      BY <3>1
  <2> DEFINE u == g[Pow(D)]
  <2>8. Spells(u, D)
    BY <1>9, <2>7
  <2>9. g[T] = x + u
    <3>1. g[T] = x + g[T \ {x}]
      <4> HIDE DEF T
      <4> QED
        BY <1>5, <2>2
    <3> HIDE DEF T, x, D
    <3> QED
      BY <2>6, <3>1
  <2> HIDE DEF u, x
  <2>10. ~Bit(u, j)
    <3>1. j \notin Bits(u, w)
      BY <2>8
    <3> QED
      BY <2>5, <3>1 DEF Bits
  <2>11. u + 2 ^ j \in 0 .. 2 ^ w - 1 /\ Bits(u + 2 ^ j, w) = Bits(u, w) \cup {j}
    BY <2>5, <2>8, <2>10, SetBit
  <2>12. x + u = u + 2 ^ j
    <3>1. u \in Int /\ 2 ^ j \in Int
      <4>1. 2 ^ w \in Int
        BY PowerType
      <4> QED
        BY <2>5, <2>8, <4>1, PowerType
    <3> QED
      BY <2>4, <3>1
  <2>13. Bits(u, w) \cup {j} = C
    BY <2>8
  <2>14. g[T] = u + 2 ^ j
    BY <2>9, <2>12
  <2> HIDE DEF T
  <2>15. Spells(g[T], C)
    BY <2>11, <2>13, <2>14
  <2> QED
    BY <2>15 DEF T
<1>10. Cardinality(B) \in N
  <2>1. Nat \subseteq N
    <3> HIDE DEF N
    <3> QED
      BY <1>8, <1>9, Induction
  <2>2. Cardinality(B) \in Nat
    BY <1>1, FS_CardinalityType
  <2> QED
    BY <2>1, <2>2
<1>11. Spells(g[S], B)
  BY <1>10
<1> QED
  BY <1>4, <1>11

\* A word is spelled by its bits.
LEMMA FromBitsOfBits ==
  ASSUME NEW w \in Nat, NEW v \in 0 .. 2 ^ w - 1
  PROVE  FromBits(Bits(v, w)) = v
<1>1. Bits(v, w) \in SUBSET (0 .. w - 1)
  BY DEF Bits
<1>2. /\ FromBits(Bits(v, w)) \in 0 .. 2 ^ w - 1
      /\ Bits(FromBits(Bits(v, w)), w) = Bits(v, w)
  BY <1>1, WordOfBits
<1> QED
  BY <1>2, BitsInjective

\* Or-ing two numbers that share no bit position adds them.
LEMMA OrAdds ==
  ASSUME NEW w \in Nat, NEW k \in Nat, NEW c \in Nat, NEW b \in 0 .. 2 ^ k - 1,
         2 ^ k * c + b < 2 ^ w
  PROVE  FromBits(Bits(2 ^ k * c, w) \cup Bits(b, w)) = 2 ^ k * c + b
<1> DEFINE a == 2 ^ k * c
           v == a + b
<1>1. 2 ^ k \in Nat \ {0} /\ 2 ^ w \in Nat
  BY PowerType
<1>2. a \in Nat /\ b \in Nat
  BY <1>1
<1>3. v \in 0 .. 2 ^ w - 1
  <2> HIDE DEF a
  <2> QED
    BY <1>1, <1>2 DEF a
<1>4. ASSUME NEW n \in 0 .. w - 1 PROVE Bit(v, n) <=> Bit(a, n) \/ Bit(b, n)
  <2>1. n \in Nat
    OBVIOUS
  <2>2. Bit(v, n) <=> IF n < k THEN Bit(b, n) ELSE Bit(c, n - k)
    BY <2>1, BitsOfSplit
  <2>3. Bit(a, n) <=> IF n < k THEN Bit(0, n) ELSE Bit(c, n - k)
    <3>1. 0 \in 0 .. 2 ^ k - 1
      BY <1>1
    <3>2. Bit(2 ^ k * c + 0, n) <=> IF n < k THEN Bit(0, n) ELSE Bit(c, n - k)
      BY <2>1, <3>1, BitsOfSplit
    <3>3. 2 ^ k * c + 0 = a
      BY <1>2
    <3> QED
      BY <3>2, <3>3
  <2>4. Bit(b, n) <=> IF n < k THEN Bit(b, n) ELSE Bit(0, n - k)
    <3>1. Bit(2 ^ k * 0 + b, n) <=> IF n < k THEN Bit(b, n) ELSE Bit(0, n - k)
      BY <2>1, BitsOfSplit
    <3>2. 2 ^ k * 0 + b = b
      BY <1>1, <1>2
    <3> QED
      BY <3>1, <3>2
  <2>5. ~Bit(0, n)
    BY <2>1, BitOfZero
  <2>6. ~(n < k) => ~Bit(0, n - k)
    BY <2>1, BitOfZero
  <2> HIDE DEF v, a
  <2> QED
    BY <2>2, <2>3, <2>4, <2>5, <2>6
<1>5. Bits(v, w) = Bits(a, w) \cup Bits(b, w)
  <2> HIDE DEF v, a
  <2> QED
    BY <1>4 DEF Bits
<1> HIDE DEF v
<1>6. FromBits(Bits(v, w)) = v
  BY <1>3, FromBitsOfBits
<1> QED
  BY <1>5, <1>6 DEF v

\* The greatest element of a bounded set of naturals.
LEMMA MaxOf ==
  ASSUME NEW n \in Nat, NEW S \in SUBSET (0 .. n), S # {}
  PROVE  Max(S) \in S /\ \A y \in S : y <= Max(S)
<1> DEFINE D == {n - x : x \in S}
<1>1. D \subseteq Nat /\ D # {}
  <2>1. \A x \in S : n - x \in Nat
    OBVIOUS
  <2>2. PICK x \in S : TRUE
    OBVIOUS
  <2>3. n - x \in D
    OBVIOUS
  <2> QED
    BY <2>1, <2>3
<1>2. PICK d \in D : \A e \in D : d <= e
  <2> HIDE DEF D
  <2> QED
    BY <1>1, LeastNatural
<1>3. PICK x \in S : d = n - x
  BY <1>2
<1>4. \A y \in S : x >= y
  BY <1>2, <1>3
<1>5. \E z \in S : \A y \in S : z >= y
  BY <1>4
<1>6. Max(S) \in S /\ \A y \in S : Max(S) >= y
  BY <1>5 DEF Max
<1>7. \A y \in S : y \in Int
  OBVIOUS
<1> QED
  BY <1>6, <1>7

\* A number is below the power above its highest bit.
LEMMA HighBitsClear ==
  ASSUME NEW w \in Nat, NEW v \in 0 .. 2 ^ w - 1, NEW k \in 0 .. w,
         \A n \in k .. w - 1 : ~Bit(v, n)
  PROVE  v < 2 ^ k
<1> DEFINE S == {j \in Nat : j <= w /\ v < 2 ^ j}
<1>1. S \subseteq Nat /\ w \in S
  <2>1. 2 ^ w \in Nat
    BY PowerType
  <2> QED
    BY <2>1
<1>2. PICK j \in S : \A i \in S : j <= i
  <2> HIDE DEF S
  <2> QED
    BY <1>1, LeastNatural
<1>3. j \in Nat /\ j <= w /\ v < 2 ^ j
  BY <1>2
<1>4. j <= k
  <2> SUFFICES ASSUME j > k PROVE FALSE
    BY <1>3
  <2> DEFINE i == j - 1
  <2>1. i \in Nat /\ i \in k .. w - 1 /\ i + 1 = j
    BY <1>3
  <2> HIDE DEF i
  <2>2. v \in 0 .. 2 ^ (i + 1) - 1
    <3>1. 2 ^ j \in Nat /\ v \in Nat
      BY <1>3, PowerType
    <3> QED
      BY <1>3, <2>1, <3>1
  <2>3. Bit(v, i) <=> v >= 2 ^ i
    BY <2>1, <2>2, BitSplit
  <2>4. v < 2 ^ i
    <3>1. 2 ^ i \in Nat /\ v \in Nat
      BY <2>1, <2>2, PowerType
    <3> QED
      BY <2>1, <2>3, <3>1
  <2>5. i \in S
    BY <2>1, <2>4
  <2>6. j <= i
    BY <1>2, <2>5
  <2> QED
    BY <1>3, <2>1, <2>6
<1>5. 2 ^ j <= 2 ^ k /\ 2 ^ j \in Nat /\ 2 ^ k \in Nat /\ v \in Int
  BY <1>3, <1>4, PowerGrows, PowerType
<1> QED
  BY <1>3, <1>5

\* A bit that is set bounds a number from below.
LEMMA SetBitBounds ==
  ASSUME NEW v \in Nat, NEW n \in Nat, Bit(v, n)
  PROVE  v >= 2 ^ n
<1> DEFINE m == 2 ^ n
<1>1. m \in Nat \ {0}
  BY PowerType
<1> HIDE DEF m
<1> SUFFICES ASSUME ~(v >= m) PROVE FALSE
  BY DEF m
<1>2. v \in 0 .. m - 1
  BY <1>1
<1>3. v \div m = 0
  BY <1>1, <1>2, OwnRemainder
<1>4. 0 % 2 = 0
  BY OwnRemainder
<1> DEFINE u == v \div m
<1>5. u % 2 = 1
  BY DEF Bit, m
<1>6. u = 0
  BY <1>3
<1> HIDE DEF u
<1> QED
  BY <1>4, <1>5, <1>6

-----------------------------------------------------------------------------
(***************************************************************************)
(* The exponent detector.                                                  *)
(***************************************************************************)

\* The ones' complement inverts every bit.
LEMMA ComplementBit ==
  ASSUME NEW v \in Word, NEW n \in 0 .. W - 1
  PROVE  Bit(Complement(v), n) <=> ~Bit(v, n)
<1> DEFINE m == 2 ^ W
           nn == 2 ^ n
           dd == 2 ^ (W - n)
           h == 2 ^ (W - n - 1)
           q == v \div nn
           t == v % nn
           c == Complement(v)
<1>1. nn \in Nat \ {0} /\ dd \in Nat \ {0} /\ h \in Nat \ {0} /\ dd = 2 * h /\ m = nn * dd
  <2> DEFINE d == W - n
  <2>1. d \in Nat \ {0} /\ n + d = W /\ n \in Nat
    BY DatapathConstants
  <2> HIDE DEF d
  <2>2. 2 ^ d \in Nat \ {0} /\ 2 ^ (d - 1) \in Nat \ {0} /\ 2 ^ d = 2 * 2 ^ (d - 1)
    BY <2>1, HalfPower
  <2>3. 2 ^ W = 2 ^ n * 2 ^ d /\ 2 ^ n \in Nat \ {0}
    BY <2>1, PowerSum, PowerType
  <2> QED
    BY <2>2, <2>3 DEF d
<1>2. v \in Int /\ m \in Int
  BY DatapathConstants, HalfPower DEF Word
<1>3. v = nn * q + t /\ t \in 0 .. nn - 1 /\ q \in Int
  <2> HIDE DEF nn
  <2> QED
    BY <1>1, <1>2, Division
<1>4. c = m - 1 - v
  BY DEF Complement
<1> HIDE DEF m, nn, dd, h, q, t, c
<1> DEFINE p == dd - 1 - q
           u == nn - 1 - t
<1>5. c = nn * p + u
  <2>1. nn * p = nn * dd - nn - nn * q /\ nn * q \in Int /\ nn * dd \in Int
    BY <1>1, <1>3
  <2> QED
    BY <1>1, <1>2, <1>3, <1>4, <2>1
<1>6. p \in Int /\ u \in 0 .. nn - 1 /\ c \in Int
  BY <1>1, <1>2, <1>3, <1>4
<1>7. c \div nn = p
  <2> HIDE DEF p, u
  <2> QED
    BY <1>1, <1>5, <1>6, DivisionUnique
<1>8. p % 2 = 1 <=> ~(q % 2 = 1)
  <2>1. q = 2 * (q \div 2) + (q % 2) /\ q % 2 \in 0 .. 2 - 1 /\ q \div 2 \in Int
    BY <1>3, Division
  <2> DEFINE a == q \div 2
             b == q % 2
  <2>2. q = 2 * a + b /\ b \in {0, 1} /\ a \in Int
    BY <2>1
  <2> HIDE DEF a, b
  <2>3. p = 2 * (h - 1 - a) + (1 - b) /\ h - 1 - a \in Int /\ 1 - b \in 0 .. 2 - 1
    BY <1>1, <1>3, <2>2
  <2> DEFINE f == h - 1 - a
             g == 1 - b
  <2>4. p = 2 * f + g /\ f \in Int /\ g \in 0 .. 2 - 1
    BY <2>3
  <2> HIDE DEF p, f, g
  <2>5. p % 2 = g
    BY <1>6, <2>4, DivisionUnique
  <2> QED
    BY <2>2, <2>5 DEF g, b
<1> HIDE DEF p
<1> QED
  BY <1>7, <1>8 DEF Bit, c, nn, q

\* The value of a word without its sign.
Unsigned(x, sign) == IF sign THEN Complement(x) ELSE x

\* Without its sign, a word's bits are those that differ from the sign.
LEMMA UnsignedBits ==
  ASSUME NEW x \in Word, NEW sign \in BOOLEAN
  PROVE  /\ Unsigned(x, sign) \in Word
         /\ \A n \in 0 .. W - 1 : Bit(Unsigned(x, sign), n) <=> (Bit(x, n) # sign)
<1>1. \A n \in 0 .. W - 1 : Bit(x, n) \in BOOLEAN
  BY DEF Bit
<1>2. CASE sign
  <2>1. Unsigned(x, sign) = Complement(x)
    BY <1>2 DEF Unsigned
  <2>2. Complement(x) \in Word
    BY ComplementExact
  <2>3. \A n \in 0 .. W - 1 : Bit(Complement(x), n) <=> ~Bit(x, n)
    BY ComplementBit
  <2> QED
    BY <1>1, <1>2, <2>1, <2>2, <2>3
<1>3. CASE ~sign
  <2>1. Unsigned(x, sign) = x
    BY <1>3 DEF Unsigned
  <2> QED
    BY <1>1, <1>3, <2>1
<1> QED
  BY <1>2, <1>3

\* A word is its sign and its other bits.
LEMMA UnsignedOfSigned ==
  ASSUME NEW x \in Word
  PROVE  LET y == Unsigned(x, Negative(x, W))
         IN /\ y \in 0 .. 2 ^ (W - 1) - 1
            /\ Signed(x, W) = IF Negative(x, W) THEN -1 - y ELSE y
<1> DEFINE m == 2 ^ W
           h == 2 ^ (W - 1)
           y == Unsigned(x, Negative(x, W))
<1>1. m \in Nat \ {0} /\ h \in Nat \ {0} /\ m = 2 * h
  BY DatapathConstants, HalfPower
<1>2. x \in 0 .. m - 1 /\ x \in Int
  BY <1>1 DEF Word
<1>3. Negative(x, W) <=> x >= h
  BY DEF Negative
<1>4. y = IF x >= h THEN m - 1 - x ELSE x
  BY <1>3 DEF Unsigned, Complement
<1>5. Signed(x, W) = IF x >= h THEN x - m ELSE x
  BY DEF Signed, Negative
<1> HIDE DEF y, h, m
<1> QED
  BY <1>1, <1>2, <1>3, <1>4, <1>5 DEF y, h, m

\* The highest bit that is set bounds the number on both sides.
LEMMA HighestBit ==
  ASSUME NEW w \in Nat, NEW z \in 0 .. 2 ^ w - 1
  PROVE  /\ Bits(z, w) = {} => z = 0
         /\ Bits(z, w) # {} => LET m == Max(Bits(z, w))
                               IN m \in 0 .. w - 1 /\ 2 ^ m <= z /\ z < 2 ^ (m + 1)
<1>0. z \in Nat
  BY PowerType
<1>1. ASSUME Bits(z, w) = {} PROVE z = 0
  <2>1. \A n \in 0 .. w - 1 : ~Bit(z, n)
    BY <1>1 DEF Bits
  <2>2. z < 2 ^ 0
    <3>1. 0 \in 0 .. w
      OBVIOUS
    <3> QED
      BY <2>1, <3>1, HighBitsClear
  <2> QED
    BY <1>0, <2>2, PowerZero
<1>2. ASSUME Bits(z, w) # {}
      PROVE  LET m == Max(Bits(z, w))
             IN m \in 0 .. w - 1 /\ 2 ^ m <= z /\ z < 2 ^ (m + 1)
  <2> DEFINE S == Bits(z, w)
             m == Max(S)
  <2>1. S \in SUBSET (0 .. w - 1) /\ w - 1 \in Nat
    BY <1>2 DEF Bits
  <2> HIDE DEF S
  <2>2. m \in S /\ \A n \in S : n <= m
    BY <1>2, <2>1, MaxOf DEF S
  <2> HIDE DEF m
  <2>3. m \in 0 .. w - 1 /\ Bit(z, m)
    BY <2>1, <2>2 DEF S, Bits
  <2>4. z >= 2 ^ m /\ 2 ^ m \in Nat
    BY <1>0, <2>3, SetBitBounds, PowerType
  <2>5. \A n \in m + 1 .. w - 1 : ~Bit(z, n)
    <3> TAKE n \in m + 1 .. w - 1
    <3>1. n \notin S /\ n \in 0 .. w - 1
      BY <2>2, <2>3
    <3> QED
      BY <3>1 DEF S, Bits
  <2>6. m + 1 \in 0 .. w
    BY <2>3
  <2>7. z < 2 ^ (m + 1)
    BY <2>5, <2>6, HighBitsClear
  <2> QED
    BY <1>0, <2>3, <2>4, <2>7 DEF m, S
<1> QED
  BY <1>1, <1>2

\* e is the number of redundant sign bits of a w-bit magnitude.
Redundant(z, w, e) ==
  /\ e \in 0 .. w
  /\ z < 2 ^ (w - e)
  /\ e < w => z >= 2 ^ (w - e - 1)

\* What EXP counts down to: the bits above the highest that is set.
LEMMA RedundantBits ==
  ASSUME NEW w \in Nat, NEW z \in 0 .. 2 ^ w - 1
  PROVE  LET e == IF Bits(z, w) = {} THEN w ELSE w - 1 - Max(Bits(z, w))
         IN Redundant(z, w, e)
<1>1. CASE Bits(z, w) = {}
  <2>1. z = 0
    BY <1>1, HighestBit
  <2>2. w - w = 0 /\ w \in 0 .. w /\ ~(w < w)
    OBVIOUS
  <2>3. z < 2 ^ (w - w)
    BY <2>1, <2>2, PowerZero
  <2>4. Redundant(z, w, w)
    BY <2>2, <2>3 DEF Redundant
  <2> QED
    BY <1>1, <2>4
<1>2. CASE Bits(z, w) # {}
  <2> DEFINE m == Max(Bits(z, w))
             e == w - 1 - m
  <2>1. m \in 0 .. w - 1 /\ 2 ^ m <= z /\ z < 2 ^ (m + 1)
    BY <1>2, HighestBit
  <2> HIDE DEF m
  <2>2. e \in 0 .. w /\ w - e = m + 1 /\ w - e - 1 = m
    BY <2>1
  <2>3. z >= 2 ^ m
    <3>1. 2 ^ m \in Nat /\ z \in Int
      BY <2>1, PowerType
    <3> QED
      BY <2>1, <3>1
  <2>4. Redundant(z, w, e)
    <3> HIDE DEF e
    <3> QED
      BY <2>1, <2>2, <2>3 DEF Redundant
  <2> QED
    BY <1>2, <2>4 DEF m
<1> QED
  BY <1>1, <1>2

\* EXP HI counts the redundant sign bits of a word.
LEMMA HiExponentCounts ==
  ASSUME NEW x \in Word
  PROVE  /\ HiExponent(x) \in 1 - W .. 0
         /\ Redundant(Unsigned(x, Negative(x, W)), W - 1, -HiExponent(x))
<1> DEFINE sign == Negative(x, W)
           y == Unsigned(x, sign)
           S == {n \in 0 .. W - 2 : Bit(x, n) # Bit(x, W - 1)}
           e == IF Bits(y, W - 1) = {} THEN W - 1 ELSE (W - 1) - 1 - Max(Bits(y, W - 1))
<1>1. W \in Nat \ {0} /\ W - 1 \in Nat /\ (W - 1) - 1 = W - 2 /\ (W - 1) + 1 = W
  BY DatapathConstants
<1>2. sign \in BOOLEAN
  BY DEF Negative
<1>3. Bit(x, W - 1) = sign
  <2>1. x \in 0 .. 2 ^ ((W - 1) + 1) - 1
    BY <1>1 DEF Word
  <2>2. Bit(x, W - 1) <=> x >= 2 ^ (W - 1)
    BY <1>1, <2>1, BitSplit
  <2>3. Bit(x, W - 1) \in BOOLEAN /\ (x >= 2 ^ (W - 1)) = sign
    BY DEF Bit, Negative
  <2> HIDE DEF sign
  <2> QED
    BY <1>2, <2>2, <2>3
<1>4. y \in 0 .. 2 ^ (W - 1) - 1
  BY UnsignedOfSigned
<1>5. S = Bits(y, W - 1)
  <2> HIDE DEF sign
  <2>1. \A n \in 0 .. W - 1 : Bit(y, n) <=> (Bit(x, n) # sign)
    BY <1>2, UnsignedBits
  <2>2. 0 .. W - 2 = 0 .. (W - 1) - 1 /\ \A n \in 0 .. W - 2 : n \in 0 .. W - 1
    BY <1>1
  <2> HIDE DEF y
  <2>3. Bits(y, W - 1) = {n \in 0 .. W - 2 : Bit(y, n)}
    BY <2>2 DEF Bits
  <2>4. \A n \in 0 .. W - 2 : Bit(y, n) <=> (Bit(x, n) # Bit(x, W - 1))
    BY <1>3, <2>1, <2>2
  <2> QED
    BY <2>3, <2>4
<1>6. HiExponent(x) = IF S = {} THEN 1 - W ELSE Max(S) - (W - 2)
  BY DEF HiExponent
<1>7. Redundant(y, W - 1, e)
  <2> HIDE DEF y
  <2> QED
    BY <1>1, <1>4, RedundantBits
<1>8. e \in 0 .. W - 1
  <2> HIDE DEF e, y
  <2> QED
    BY <1>7 DEF Redundant
<1>9. HiExponent(x) \in 1 - W .. 0 /\ -HiExponent(x) = e
  <2> DEFINE b == Max(S)
  <2>1. CASE S = {}
    <3>1. e = W - 1 /\ HiExponent(x) = 1 - W
      BY <1>5, <1>6, <2>1
    <3> HIDE DEF e
    <3> QED
      BY <1>1, <3>1
  <2>2. CASE S # {}
    <3>1. e = (W - 1) - 1 - b /\ HiExponent(x) = b - (W - 2)
      BY <1>5, <1>6, <2>2
    <3>2. b \in Int
      <4> HIDE DEF S, y
      <4>1. LET m == Max(Bits(y, W - 1)) IN m \in 0 .. (W - 1) - 1
        BY <1>1, <1>4, <1>5, <2>2, HighestBit
      <4>2. b \in 0 .. (W - 1) - 1
        BY <1>5, <4>1
      <4> QED
        BY <4>2
    <3> HIDE DEF e, b
    <3> QED
      BY <1>1, <1>8, <3>1, <3>2
  <2> QED
    BY <2>1, <2>2
<1> HIDE DEF e, y
<1> QED
  BY <1>7, <1>9 DEF y

\* EXP LO goes on counting in a low word, under the sign of the high one.
LEMMA LoExponentCounts ==
  ASSUME NEW x \in Word, NEW sign \in BOOLEAN
  PROVE  /\ LoExponent(x, sign) \in 1 - 2 * W .. 1 - W
         /\ Redundant(Unsigned(x, sign), W, -LoExponent(x, sign) - (W - 1))
<1> DEFINE y == Unsigned(x, sign)
           S == {n \in 0 .. W - 1 : Bit(x, n) # sign}
           e == IF Bits(y, W) = {} THEN W ELSE W - 1 - Max(Bits(y, W))
<1>1. W \in Nat \ {0}
  BY DatapathConstants
<1>2. y \in 0 .. 2 ^ W - 1
  BY UnsignedBits DEF Word
<1>3. S = Bits(y, W)
  <2>1. \A n \in 0 .. W - 1 : Bit(y, n) <=> (Bit(x, n) # sign)
    BY UnsignedBits
  <2> HIDE DEF y
  <2> QED
    BY <2>1 DEF Bits
<1>4. LoExponent(x, sign) = (1 - W) - (IF S = {} THEN W ELSE (W - 1) - Max(S))
  BY DEF LoExponent
<1>5. Redundant(y, W, e)
  <2> HIDE DEF y
  <2> QED
    BY <1>1, <1>2, RedundantBits
<1>6. e \in 0 .. W
  <2> HIDE DEF e, y
  <2> QED
    BY <1>5 DEF Redundant
<1>7. LoExponent(x, sign) = (1 - W) - e
  <2> HIDE DEF y
  <2> QED
    BY <1>3, <1>4
<1> HIDE DEF e, y
<1>8. LoExponent(x, sign) \in 1 - 2 * W .. 1 - W /\ -LoExponent(x, sign) - (W - 1) = e
  BY <1>1, <1>6, <1>7
<1> QED
  BY <1>5, <1>8 DEF y

-----------------------------------------------------------------------------
(***************************************************************************)
(* The block exponent.                                                     *)
(***************************************************************************)

\* Shifted by its redundant sign bits a number fits its word, and fills it.
LEMMA RedundantScales ==
  ASSUME NEW w \in Nat, NEW z \in Nat, NEW e \in Nat, Redundant(z, w, e),
         NEW s \in {z, -1 - z}
  PROVE  /\ s * 2 ^ e \in -(2 ^ w) .. 2 ^ w - 1
         /\ e < w => s * 2 ^ e \notin -(2 ^ (w - 1)) .. 2 ^ (w - 1) - 1
         /\ e = w => z = 0
<1> DEFINE p == 2 ^ e
           a == 2 ^ (w - e)
           b == 2 ^ (w - e - 1)
           h == 2 ^ w
           g == 2 ^ (w - 1)
<1>1. e \in 0 .. w /\ z < a /\ (e < w => z >= b)
  BY DEF Redundant
<1>2. p \in Nat \ {0} /\ a \in Nat \ {0} /\ h \in Nat \ {0} /\ h = a * p
  <2> DEFINE d == w - e
  <2>1. d \in Nat /\ d + e = w
    BY <1>1
  <2> HIDE DEF d
  <2>2. 2 ^ d \in Nat \ {0} /\ 2 ^ e \in Nat \ {0} /\ 2 ^ w = 2 ^ d * 2 ^ e
    BY <2>1, PowerType, PowerSum
  <2>3. 2 ^ w \in Nat \ {0}
    BY PowerType
  <2> QED
    BY <2>2, <2>3 DEF d
<1>3. e < w => b \in Nat \ {0} /\ g \in Nat \ {0} /\ g = b * p
  <2> DEFINE d == w - e - 1
             c == w - 1
  <2> SUFFICES ASSUME e < w PROVE b \in Nat \ {0} /\ g \in Nat \ {0} /\ g = b * p
    OBVIOUS
  <2>1. d \in Nat /\ d + e = c /\ c \in Nat
    BY <1>1
  <2> HIDE DEF d, c
  <2>2. 2 ^ d \in Nat \ {0} /\ 2 ^ e \in Nat \ {0} /\ 2 ^ c = 2 ^ d * 2 ^ e
          /\ 2 ^ c \in Nat \ {0}
    BY <2>1, PowerType, PowerSum
  <2> QED
    BY <2>2 DEF d, c
<1>4. e = w => a = 1
  <2> SUFFICES ASSUME e = w PROVE a = 1
    OBVIOUS
  <2>1. w - e = 0
    OBVIOUS
  <2> QED
    BY <2>1, PowerZero
<1> HIDE DEF p, a, b, h, g
<1> DEFINE y == z * p
<1>5. s * p = y \/ s * p = -y - p
  <2>1. CASE s = z
    BY <2>1
  <2>2. CASE s = -1 - z
    BY <1>2, <2>2
  <2> QED
    BY <2>1, <2>2
<1>6. y \in Nat /\ y + p <= h
  <2>1. y + p = (z + 1) * p /\ (a - (z + 1)) * p \in Nat /\ h = (z + 1) * p + (a - (z + 1)) * p
    BY <1>1, <1>2
  <2> QED
    BY <1>2, <2>1
<1>7. e < w => y >= g
  <2> SUFFICES ASSUME e < w PROVE y >= g
    OBVIOUS
  <2>1. (z - b) * p \in Nat /\ y = (z - b) * p + b * p
    BY <1>1, <1>2, <1>3
  <2> QED
    BY <1>2, <1>3, <2>1
<1>8. s * p \in -h .. h - 1
  <2> HIDE DEF y
  <2> QED
    BY <1>2, <1>5, <1>6
<1>9. e < w => s * p \notin -g .. g - 1
  <2> HIDE DEF y
  <2> QED
    BY <1>2, <1>3, <1>5, <1>6, <1>7
<1>10. e = w => z = 0
  BY <1>1, <1>4
<1> QED
  BY <1>8, <1>9, <1>10 DEF p, h, g

\* A word and the exponent EXP HI finds.
LEMMA WordFits ==
  ASSUME NEW x \in Word, NEW k \in 0 .. -HiExponent(x)
  PROVE  Signed(x, W) * 2 ^ k \in -(2 ^ (W - 1)) .. 2 ^ (W - 1) - 1
<1> DEFINE e == -HiExponent(x)
           y == Unsigned(x, Negative(x, W))
           s == Signed(x, W)
           h == 2 ^ (W - 1)
           d == e - k
<1>1. W \in Nat \ {0} /\ W - 1 \in Nat
  BY DatapathConstants
<1>2. h \in Nat \ {0} /\ y \in 0 .. h - 1 /\ s = (IF Negative(x, W) THEN -1 - y ELSE y)
  BY <1>1, UnsignedOfSigned, HalfPower
<1>3. e \in Nat /\ Redundant(y, W - 1, e) /\ k \in Nat /\ d \in Nat /\ k + d = e
  BY HiExponentCounts, <1>1
<1> HIDE DEF e, y, s, d
<1>4. y \in Nat /\ s \in {y, -1 - y} /\ s \in Int
  BY <1>2 DEF h
<1>5. s * 2 ^ e \in -h .. h - 1
  BY <1>1, <1>3, <1>4, RedundantScales DEF h
<1> DEFINE p == 2 ^ k
           q == 2 ^ d
           t == s * p
<1>6. p \in Nat \ {0} /\ q \in Nat \ {0} /\ 2 ^ e = p * q
  BY <1>3, PowerType, PowerSum
<1> HIDE DEF h, p, q
<1>7. t \in Int /\ t * q \in -h .. h - 1
  BY <1>4, <1>5, <1>6
<1> HIDE DEF t
<1>8. t \in -h .. h - 1
  <2>1. CASE t >= 0
    <3>1. t * q = t + t * (q - 1) /\ t * (q - 1) \in Nat
      BY <1>6, <1>7, <2>1
    <3> QED
      BY <1>2, <1>6, <1>7, <2>1, <3>1
  <2>2. CASE t < 0
    <3>1. t * q = t - (0 - t) * (q - 1) /\ (0 - t) * (q - 1) \in Nat
      BY <1>6, <1>7, <2>2
    <3> QED
      BY <1>2, <1>6, <1>7, <2>2, <3>1
  <2> QED
    BY <1>7, <2>1, <2>2
<1> QED
  BY <1>8 DEF t, s, p, h

\* One more place overflows it, unless it is zero.
LEMMA WordFills ==
  ASSUME NEW x \in Word, x # 0
  PROVE  Signed(x, W) * 2 ^ (1 - HiExponent(x)) \notin -(2 ^ (W - 1)) .. 2 ^ (W - 1) - 1
<1> DEFINE e == -HiExponent(x)
           y == Unsigned(x, Negative(x, W))
           s == Signed(x, W)
           h == 2 ^ (W - 1)
           g == 2 ^ (W - 1 - 1)
           p == 2 ^ e
<1>1. W \in Nat \ {0} /\ W - 1 \in Nat
  BY DatapathConstants
<1>2. /\ h \in Nat \ {0} /\ y \in 0 .. h - 1 /\ s = (IF Negative(x, W) THEN -1 - y ELSE y)
      /\ 2 ^ W = 2 * h
  BY <1>1, UnsignedOfSigned, HalfPower
<1>3. e \in Nat /\ e \in 0 .. W - 1 /\ Redundant(y, W - 1, e) /\ 1 - HiExponent(x) = e + 1
  BY HiExponentCounts, <1>1
<1>4. ~Negative(x, W) => y = x
  BY DEF Unsigned
<1> HIDE DEF e, y, s
<1>5. y \in Nat /\ s \in {y, -1 - y} /\ s \in Int /\ (y = 0 => s = -1)
  BY <1>2, <1>4 DEF h
<1>6. /\ e < W - 1 => s * p \notin -g .. g - 1
      /\ e = W - 1 => y = 0
  BY <1>1, <1>3, <1>5, RedundantScales
<1>7. p \in Nat \ {0} /\ 2 ^ (e + 1) = 2 * p
  BY <1>3, PowerNext, PowerType
<1> HIDE DEF p, h, g
<1> DEFINE t == s * p
<1>8. t \in Int /\ s * 2 ^ (e + 1) = 2 * t
  BY <1>5, <1>7
<1>9. 2 * t \notin -h .. h - 1
  <2>1. CASE e < W - 1
    <3>1. W - 1 \in Nat \ {0}
      BY <1>1, <1>3, <2>1
    <3> DEFINE v == W - 1
    <3>2. 2 ^ v = 2 * 2 ^ (v - 1) /\ 2 ^ (v - 1) \in Nat \ {0}
      <4> HIDE DEF v
      <4> QED
        BY <3>1, HalfPower DEF v
    <3>3. h = 2 * g /\ g \in Nat
      BY <3>2 DEF h, g
    <3>4. t \notin -g .. g - 1
      BY <1>6, <2>1
    <3> HIDE DEF t
    <3> QED
      BY <1>8, <3>3, <3>4
  <2>2. CASE e = W - 1
    <3>1. s = -1 /\ p = h
      BY <1>5, <1>6, <2>2 DEF p, h
    <3>2. t = -h
      BY <1>2, <3>1
    <3> HIDE DEF t
    <3> QED
      BY <1>2, <3>2
  <2> QED
    BY <1>1, <1>3, <2>1, <2>2
<1> HIDE DEF t
<1> QED
  BY <1>3, <1>8, <1>9 DEF s, h

\* Zero has the smallest exponent.
LEMMA ExponentOfZero == HiExponent(0) = 1 - W
<1> DEFINE e == -HiExponent(0)
<1>1. W \in Nat \ {0} /\ 0 \in Word /\ ~Negative(0, W)
  <2>1. 2 ^ W \in Nat \ {0} /\ 2 ^ (W - 1) \in Nat \ {0}
    BY DatapathConstants, HalfPower
  <2> QED
    BY <2>1, DatapathConstants DEF Word, Negative
<1>2. HiExponent(0) \in 1 - W .. 0 /\ Redundant(Unsigned(0, Negative(0, W)), W - 1, e)
  BY <1>1, HiExponentCounts
<1>3. Unsigned(0, Negative(0, W)) = 0
  BY <1>1 DEF Unsigned
<1>4. Redundant(0, W - 1, e) /\ e \in 0 .. W - 1
  BY <1>1, <1>2, <1>3
<1> HIDE DEF e
<1>5. e < W - 1 => 0 >= 2 ^ (W - 1 - e - 1)
  BY <1>4 DEF Redundant
<1>6. ASSUME e < W - 1 PROVE FALSE
  <2> DEFINE d == W - 1 - e - 1
  <2>1. d \in Nat
    BY <1>1, <1>4, <1>6
  <2> HIDE DEF d
  <2>2. 2 ^ d \in Nat \ {0}
    BY <2>1, PowerType
  <2> QED
    BY <1>5, <1>6, <2>2 DEF d
<1>7. e = W - 1
  BY <1>1, <1>4, <1>6
<1> QED
  BY <1>1, <1>2, <1>7 DEF e

\* SB is the largest exponent of the block so far.
BlockInv ==
  program = "BLOCK" =>
    /\ pc \in Nat
    /\ given.values \subseteq Word
    /\ r.sb \in -W .. 0
    /\ pc = 0 => given.values = {} /\ r.sb = -W
    /\ pc > 0 => \E z \in given.values : HiExponent(z) = r.sb
    /\ \A x \in given.values : HiExponent(x) <= r.sb

\* The block starts empty, SB below every exponent.
LEMMA InitBlockInv == Init => BlockInv
<1> SUFFICES ASSUME Init, program = "BLOCK" PROVE BlockInv
  BY DEF BlockInv
<1>1. pc = 0 /\ given = [values |-> {}] /\ r = [sb |-> -W]
  BY DEF Init, InitDivide, InitNormalize, InitBlock, InitAccumulate, InitBuffer, InitDouble
<1>2. given.values = {} /\ r.sb = -W /\ -W \in -W .. 0
  BY <1>1, DatapathConstants
<1> QED
  BY <1>1, <1>2 DEF BlockInv

\* EXPADJ keeps the largest exponent of the block.
LEMMA ExpAdjKeepsBlock ==
  ASSUME BlockInv, EXPADJ
  PROVE  BlockInv'
<1>1. program = "BLOCK" /\ pc' = pc + 1 /\ UNCHANGED program
  BY DEF EXPADJ, Issue
<1>2. PICK x \in Word : given' = [values |-> given.values \cup {x}]
        /\ r' = [sb |-> ExpAdj(x, r.sb)]
  BY DEF EXPADJ
<1> DEFINE sb == r.sb
           V == given.values
           ex == HiExponent(x)
<1>3. pc \in Nat /\ V \subseteq Word /\ sb \in -W .. 0
  BY <1>1 DEF BlockInv
<1>4. /\ pc = 0 => V = {} /\ sb = -W
      /\ pc > 0 => \E z \in V : HiExponent(z) = sb
      /\ \A y \in V : HiExponent(y) <= sb
  BY <1>1 DEF BlockInv
<1>5. given'.values = V \cup {x} /\ r'.sb = IF ex > sb THEN ex ELSE sb
  BY <1>2 DEF ExpAdj
<1>6. ex \in 1 - W .. 0 /\ W \in Nat \ {0}
  BY HiExponentCounts, DatapathConstants
<1>7. \A y \in V : HiExponent(y) \in Int
  BY <1>3, <1>6, HiExponentCounts
<1> HIDE DEF sb, V, ex
<1> DEFINE nb == IF ex > sb THEN ex ELSE sb
<1>8. nb \in -W .. 0 /\ nb >= sb /\ nb >= ex
  BY <1>3, <1>6
<1>9. \E z \in V \cup {x} : HiExponent(z) = nb
  <2>1. CASE ex > sb
    BY <2>1 DEF ex
  <2>2. CASE ~(ex > sb)
    <3>1. pc # 0
      BY <1>3, <1>4, <1>6, <2>2
    <3>2. PICK z \in V : HiExponent(z) = sb
      BY <1>3, <1>4, <3>1
    <3> QED
      BY <2>2, <3>2
  <2> QED
    BY <2>1, <2>2
<1>10. \A y \in V \cup {x} : HiExponent(y) <= nb
  <2> TAKE y \in V \cup {x}
  <2>1. CASE y \in V
    <3>1. HiExponent(y) <= sb /\ HiExponent(y) \in Int
      BY <1>4, <1>7, <2>1
    <3> QED
      BY <1>3, <1>8, <3>1
  <2>2. CASE y = x
    BY <1>8, <2>2 DEF ex
  <2> QED
    BY <2>1, <2>2
<1>11. pc' \in Nat /\ pc' # 0
  BY <1>1, <1>3
<1>12. r'.sb = nb
  BY <1>5
<1> HIDE DEF nb
<1> QED
  BY <1>1, <1>3, <1>5, <1>8, <1>9, <1>10, <1>11, <1>12 DEF BlockInv

\* The other programs have no block.
LEMMA OthersLeaveBlock ==
  ASSUME BlockInv, [Next]_vars, ~EXPADJ
  PROVE  BlockInv'
<1>1. CASE UNCHANGED vars
  BY <1>1 DEF vars, BlockInv
<1>2. CASE Next
  <2>1. program # "BLOCK" /\ UNCHANGED program
    BY <1>2 DEF Next, DIVS, DIVQ, EXPHI, EXPLO, NORM, MAC, SATMR, MODIFY, AluLow, AluHigh, ALU,
           Issue
  <2> QED
    BY <2>1 DEF BlockInv
<1> QED
  BY <1>1, <1>2

\* The largest exponent is the tight one.
LEMMA BlockInvTight == BlockInv => BlockExponentTight
<1> SUFFICES ASSUME BlockInv, program = "BLOCK", pc > 0
             PROVE  BlockExponentTight
  BY DEF BlockExponentTight
<1> DEFINE h == 2 ^ (W - 1)
           fits(x, shift) == Signed(x, W) * 2 ^ shift \in -h .. h - 1
<1>1. W \in Nat \ {0}
  BY DatapathConstants
<1>2. /\ pc \in Nat /\ given.values \subseteq Word /\ r.sb \in -W .. 0
      /\ \A x \in given.values : HiExponent(x) <= r.sb
  BY DEF BlockInv
<1>3. PICK z \in given.values : HiExponent(z) = r.sb
  BY DEF BlockInv
<1>4. \A x \in given.values : fits(x, -r.sb)
  <2> TAKE x \in given.values
  <2>1. x \in Word /\ HiExponent(x) \in 1 - W .. 0 /\ HiExponent(x) <= r.sb
    BY <1>2, HiExponentCounts
  <2> DEFINE k == -r.sb
  <2>2. k \in 0 .. -HiExponent(x)
    BY <1>1, <1>2, <2>1
  <2> HIDE DEF k
  <2>3. fits(x, k)
    BY <2>1, <2>2, WordFits
  <2> QED
    BY <2>3 DEF k
<1>5. given.values # {0} => \E y \in given.values : ~fits(y, 1 - r.sb)
  <2> SUFFICES ASSUME given.values # {0} PROVE \E y \in given.values : ~fits(y, 1 - r.sb)
    OBVIOUS
  <2>1. PICK y \in given.values : y # 0 /\ HiExponent(y) = r.sb
    <3>1. CASE z # 0
      BY <1>3, <3>1
    <3>2. CASE z = 0
      <4>1. PICK y \in given.values : y # 0
        BY <1>3, <3>2
      <4>2. HiExponent(y) <= r.sb /\ HiExponent(y) \in 1 - W .. 0
        BY <1>2, HiExponentCounts
      <4>3. r.sb = 1 - W
        BY <1>3, <3>2, ExponentOfZero
      <4>4. HiExponent(y) = r.sb
        BY <1>1, <4>2, <4>3
      <4> QED
        BY <4>1, <4>4
    <3> QED
      BY <3>1, <3>2
  <2>2. ~fits(y, 1 - HiExponent(y))
    BY <1>2, <2>1, WordFills
  <2> QED
    BY <2>1, <2>2
<1> QED
  BY <1>4, <1>5 DEF BlockExponentTight

-----------------------------------------------------------------------------
(***************************************************************************)
(* The normalisation of a double word.                                     *)
(***************************************************************************)

\* What NORM HI leaves and NORM LO adds is the sum, in a double word.
LEMMA OrOfParts ==
  ASSUME NEW k \in Nat, NEW j \in Nat, k + j = 2 * W, NEW g \in Int, NEW b \in 0 .. 2 ^ k - 1
  PROVE  FromBits(Bits((g * 2 ^ k) % 2 ^ (2 * W), 2 * W) \cup Bits(b, 2 * W))
           = (g * 2 ^ k + b) % 2 ^ (2 * W)
<1> DEFINE w == 2 * W
           kk == 2 ^ k
           jj == 2 ^ j
           mm == 2 ^ w
           c == g % jj
           q == g \div jj
<1>1. w \in Nat /\ k + j = w
  BY DatapathConstants
<1> HIDE DEF w
<1>2. kk \in Nat \ {0} /\ jj \in Nat \ {0} /\ mm = kk * jj
  BY <1>1, PowerType, PowerSum
<1>3. b \in 0 .. kk - 1 /\ b \in Int
  BY <1>2
<1> HIDE DEF kk, jj, mm
<1>4. g = jj * q + c /\ c \in 0 .. jj - 1 /\ q \in Int
  BY <1>2, Division
<1> HIDE DEF c, q
<1>5. c \in Nat
  BY <1>2, <1>4
<1> DEFINE a == kk * c
           v == a + b
<1>6. a \in 0 .. mm - 1 /\ v \in 0 .. mm - 1 /\ v \in Int
  <2>1. (jj - 1 - c) * kk \in Nat /\ mm = kk * c + (jj - 1 - c) * kk + kk /\ kk * c \in Nat
    BY <1>2, <1>4, <1>5
  <2> QED
    BY <1>2, <1>3, <2>1
<1>7. g * kk = mm * q + a /\ g * kk + b = mm * q + v /\ g * kk \in Int /\ mm \in Nat \ {0}
  <2>1. g * kk = mm * q + a /\ g * kk \in Int /\ mm * q \in Int /\ mm \in Nat \ {0} /\ a \in Int
    BY <1>2, <1>4, <1>5
  <2> HIDE DEF a
  <2> QED
    BY <1>3, <2>1
<1>8. (g * kk) % mm = a /\ (g * kk + b) % mm = v
  <2> HIDE DEF a, v
  <2>1. (g * kk) % mm = a
    BY <1>4, <1>6, <1>7, DivisionUnique
  <2>2. g * kk + b \in Int
    BY <1>3, <1>7
  <2> QED
    BY <1>4, <1>6, <1>7, <2>1, <2>2, DivisionUnique
<1>9. FromBits(Bits(a, w) \cup Bits(b, w)) = v
  <2>1. w \in Nat /\ c \in Nat /\ b \in 0 .. 2 ^ k - 1 /\ 2 ^ k * c + b < 2 ^ w
    BY <1>1, <1>2, <1>3, <1>5, <1>6 DEF kk, mm
  <2>2. FromBits(Bits(2 ^ k * c, w) \cup Bits(b, w)) = 2 ^ k * c + b
    BY <2>1, OrAdds
  <2> QED
    BY <2>2 DEF kk
<1> HIDE DEF a, v
<1> QED
  BY <1>8, <1>9 DEF w, kk, mm

\* Half of a double word, and how far from its sign a number must be to differ
\* in its two upper bits.
LEMMA UpperBitsDiffer ==
  ASSUME NEW w \in Nat, w >= 2, NEW t \in -(2 ^ (w - 1)) .. 2 ^ (w - 1) - 1,
         t \notin -(2 ^ (w - 2)) .. 2 ^ (w - 2) - 1
  PROVE  Bit(t % 2 ^ w, w - 1) # Bit(t % 2 ^ w, w - 2)
<1> DEFINE n == w - 1
           k == w - 2
           mm == 2 ^ w
           hh == 2 ^ n
           qq == 2 ^ k
           v == t % mm
           u == IF v >= hh THEN v - hh ELSE v
<1>1. n \in Nat /\ k \in Nat /\ n + 1 = w /\ k + 1 = n /\ k \in 0 .. n - 1 /\ w \in Nat \ {0}
  OBVIOUS
<1> HIDE DEF n, k
<1>2. mm = 2 * hh /\ hh = 2 * qq /\ qq \in Nat \ {0} /\ hh \in Nat \ {0} /\ mm \in Nat \ {0}
  BY <1>1, PowerNext, PowerType
<1>3. t \in -hh .. hh - 1 /\ t \notin -qq .. qq - 1 /\ t \in Int
  BY <1>2 DEF n, k
<1>4. Signed(v, w) = t /\ (Negative(v, w) <=> t < 0)
  BY <1>1, SignedOfRemainder
<1>5. (v >= hh <=> t < 0) /\ t = IF v >= hh THEN v - mm ELSE v
  BY <1>4 DEF Signed, Negative, hh, n, mm
<1>6. v \in 0 .. mm - 1 /\ v \in Int
  BY <1>2, <1>3, RemainderType
<1>7. (Bit(v, n) <=> v >= hh) /\ (Bit(v, k) <=> Bit(u, k))
  <2>1. v \in 0 .. 2 ^ (n + 1) - 1
    BY <1>1, <1>6
  <2> HIDE DEF v
  <2> QED
    BY <1>1, <2>1, BitSplit
<1> HIDE DEF v, mm
<1>8. u \in 0 .. hh - 1
  BY <1>2, <1>6
<1>9. Bit(u, k) <=> u >= qq
  <2>1. u \in 0 .. 2 ^ (k + 1) - 1
    BY <1>1, <1>8
  <2> HIDE DEF u
  <2> QED
    BY <1>1, <2>1, BitSplit
<1> HIDE DEF hh, qq
<1>10. u >= qq <=> ~(v >= hh)
  BY <1>2, <1>3, <1>5, <1>6
<1>11. Bit(v, n) <=> ~Bit(v, k)
  BY <1>7, <1>9, <1>10
<1> QED
  BY <1>11 DEF n, k, v, mm

\* The exponent EXP HI and EXP LO leave for a double word.
DoubleExponent(hi, lo) == ExpLo(HiExponent(hi), lo, Negative(hi, W))

\* The two instructions count the redundant sign bits of the double word.
LEMMA DoubleExponentCounts ==
  ASSUME NEW hi \in Word, NEW lo \in Word
  PROVE  LET n == Double(hi, lo)
             z == IF Negative(hi, W) THEN -1 - n ELSE n
             e == -DoubleExponent(hi, lo)
         IN /\ n \in Int /\ z \in Nat /\ e \in 0 .. 2 * W - 1
            /\ Redundant(z, 2 * W - 1, e)
<1> DEFINE neg == Negative(hi, W)
           m == 2 ^ W
           h == 2 ^ (W - 1)
           yh == Unsigned(hi, neg)
           yl == Unsigned(lo, neg)
           n == Double(hi, lo)
           z == IF neg THEN -1 - n ELSE n
           e == -DoubleExponent(hi, lo)
           f == -HiExponent(hi)
           g == -LoExponent(lo, neg)
           s == Signed(hi, W)
<1>1. W \in Nat \ {0} /\ W - 1 \in Nat /\ 2 * W - 1 \in Nat
  BY DatapathConstants
<1>2. m \in Nat \ {0} /\ h \in Nat \ {0} /\ m = 2 * h
  BY <1>1, HalfPower
<1>3. neg \in BOOLEAN
  BY DEF Negative
<1>4. yh \in 0 .. h - 1 /\ s = (IF neg THEN -1 - yh ELSE yh)
  BY UnsignedOfSigned
<1>5. yl = IF neg THEN m - 1 - lo ELSE lo
  BY DEF Unsigned, Complement
<1>6. lo \in 0 .. m - 1
  BY <1>2 DEF Word
<1>7. n = s * m + lo
  BY DEF Double
<1>8. f \in 0 .. W - 1 /\ HiExponent(hi) = -f /\ Redundant(yh, W - 1, f)
  BY <1>1, HiExponentCounts
<1>9. /\ g \in W - 1 .. 2 * W - 1 /\ LoExponent(lo, neg) = -g
      /\ Redundant(yl, W, g - (W - 1))
  <2>1. LoExponent(lo, neg) \in 1 - 2 * W .. 1 - W /\ Redundant(yl, W, g - (W - 1))
    BY <1>3, LoExponentCounts
  <2> HIDE DEF neg, yl
  <2> QED
    BY <1>1, <2>1
<1>10. e = IF f = W - 1 THEN g ELSE f
  <2>1. DoubleExponent(hi, lo) = IF HiExponent(hi) = 1 - W THEN LoExponent(lo, neg)
          ELSE HiExponent(hi)
    BY DEF DoubleExponent, ExpLo
  <2> HIDE DEF f, g, neg
  <2> QED
    BY <1>1, <1>8, <1>9, <2>1
<1> HIDE DEF neg, m, h, yh, yl, n, e, f, g, s
<1>11. yl \in 0 .. m - 1 /\ yh \in Nat /\ yl \in Nat /\ s \in Int
  BY <1>2, <1>4, <1>5, <1>6
<1>12. n \in Int /\ z = m * yh + yl /\ z \in Nat
  <2>1. CASE neg
    <3>1. s * m = -m - m * yh /\ m * yh \in Nat
      BY <1>2, <1>4, <1>11, <2>1
    <3> QED
      BY <1>2, <1>5, <1>6, <1>7, <1>11, <2>1, <3>1
  <2>2. CASE ~neg
    <3>1. s * m = m * yh /\ m * yh \in Nat
      BY <1>2, <1>4, <1>11, <2>2
    <3> QED
      BY <1>2, <1>5, <1>6, <1>7, <1>11, <2>2, <3>1
  <2> QED
    BY <1>3, <2>1, <2>2
<1> HIDE DEF z
<1>13. e \in 0 .. 2 * W - 1
  BY <1>1, <1>8, <1>9, <1>10
<1>14. CASE f = W - 1
  <2>1. yh = 0
    <3> DEFINE o == 2 ^ ((W - 1) - f)
    <3>1. yh < o
      BY <1>8 DEF Redundant
    <3>2. (W - 1) - f = 0
      BY <1>1, <1>14
    <3>3. o = 1
      BY <3>2, PowerZero
    <3> HIDE DEF o
    <3> QED
      BY <1>11, <3>1, <3>3
  <2>2. z = yl
    BY <1>2, <1>11, <1>12, <2>1
  <2>3. e = g
    BY <1>10, <1>14
  <2> DEFINE d == g - (W - 1)
  <2>4. d \in 0 .. W /\ 2 * W - 1 - g = W - d /\ 2 * W - 1 - g - 1 = W - d - 1
        /\ (g < 2 * W - 1 => d < W)
    BY <1>1, <1>9
  <2> HIDE DEF d
  <2>5. yl < 2 ^ (W - d) /\ (d < W => yl >= 2 ^ (W - d - 1))
    BY <1>9 DEF Redundant, d
  <2>6. Redundant(z, 2 * W - 1, e)
    BY <1>13, <2>2, <2>3, <2>4, <2>5 DEF Redundant
  <2> QED
    BY <1>12, <1>13, <2>6 DEF z, n, e, neg
<1>15. CASE f # W - 1
  <2>1. e = f /\ f < W - 1
    BY <1>1, <1>8, <1>10, <1>15
  <2> DEFINE a == (W - 1) - f
             b == (W - 1) - f - 1
             aa == 2 ^ a
             bb == 2 ^ b
  <2>2. yh < aa /\ yh >= bb
    BY <1>8, <2>1 DEF Redundant
  <2>3. /\ a \in Nat /\ b \in Nat /\ 2 * W - 1 - f = W + a /\ 2 * W - 1 - f - 1 = W + b
    BY <1>1, <1>8, <2>1
  <2> HIDE DEF a, b
  <2>4. /\ aa \in Nat \ {0} /\ bb \in Nat \ {0}
        /\ 2 ^ (W + a) = m * aa /\ 2 ^ (W + b) = m * bb
    BY <1>1, <2>3, PowerType, PowerSum DEF m
  <2> HIDE DEF aa, bb
  <2>5. z < m * aa
    <3>1. m * aa = m * yh + m + m * (aa - 1 - yh) /\ m * (aa - 1 - yh) \in Nat /\ m * yh \in Nat
      BY <1>2, <1>11, <2>2, <2>4
    <3> QED
      BY <1>2, <1>11, <1>12, <3>1
  <2>6. z >= m * bb
    <3>1. m * yh = m * bb + m * (yh - bb) /\ m * (yh - bb) \in Nat /\ m * bb \in Nat
      BY <1>2, <1>11, <2>2, <2>4
    <3> QED
      BY <1>2, <1>11, <1>12, <3>1
  <2>7. Redundant(z, 2 * W - 1, e)
    BY <1>13, <2>1, <2>3, <2>4, <2>5, <2>6 DEF Redundant
  <2> QED
    BY <1>12, <1>13, <2>7 DEF z, n, e, neg
<1> QED
  BY <1>14, <1>15

\* The or of what the shifter makes of the high and of the low word.
Normalized(hi, lo, se, ac) ==
  FromBits(Bits(Shifted(hi, -se, TRUE, ac), 2 * W)
        \cup Bits(Shifted(lo, -se, FALSE, FALSE), 2 * W))

\* A word in the shifter array, extended by zeros or by ones.
LEMMA SpreadOfWord ==
  ASSUME NEW x \in Word
  PROVE  /\ Signed(x + 0, 2 * W) = x
         /\ Signed(x + (2 ^ (2 * W) - 2 ^ W), 2 * W) = x - 2 ^ W
<1> DEFINE m == 2 ^ W
           h == 2 ^ (W - 1)
           mm == 2 ^ (2 * W)
           hh == 2 ^ (2 * W - 1)
<1>1. W \in Nat \ {0} /\ W - 1 \in Nat /\ 2 * W = W + W /\ 2 * W - 1 = W + (W - 1)
  BY DatapathConstants
<1>2. m \in Nat \ {0} /\ h \in Nat \ {0} /\ m = 2 * h
  BY <1>1, HalfPower
<1>3. mm = m * m /\ hh = m * h
  BY <1>1, PowerSum
<1>4. x \in 0 .. m - 1 /\ x \in Int
  BY <1>2 DEF Word
<1>5. \A v \in Int : Signed(v, 2 * W) = IF v >= hh THEN v - mm ELSE v
  BY DEF Signed, Negative
<1> HIDE DEF m, h, mm, hh
<1>6. mm = 2 * hh /\ hh >= m /\ hh \in Nat /\ mm \in Nat
  <2>1. hh = m + m * (h - 1) /\ m * (h - 1) \in Nat /\ m * m = 2 * (m * h) /\ m * h \in Nat
    BY <1>2, <1>3
  <2> QED
    BY <1>2, <1>3, <2>1
<1>7. x + 0 \in Int /\ ~(x + 0 >= hh) /\ x + 0 = x
  BY <1>2, <1>4, <1>6
<1>8. x + (mm - m) \in Int /\ x + (mm - m) >= hh /\ x + (mm - m) - mm = x - m
  BY <1>2, <1>4, <1>6
<1>9. Signed(x + 0, 2 * W) = x
  BY <1>5, <1>7
<1>10. Signed(x + (mm - m), 2 * W) = x - m
  <2> DEFINE y == x + (mm - m)
  <2>1. y \in Int /\ y >= hh /\ y - mm = x - m
    BY <1>2, <1>4, <1>6, <1>8
  <2> HIDE DEF y
  <2>2. Signed(y, 2 * W) = y - mm
    BY <1>5, <2>1
  <2> QED
    BY <2>1, <2>2 DEF y
<1> QED
  BY <1>9, <1>10 DEF m, mm

\* A shift to the left, by an exponent that is not positive.
LEMMA NormalizedLeft ==
  ASSUME NEW hi \in Word, NEW lo \in Word, NEW e \in 0 .. 2 * W - 1
  PROVE  Normalized(hi, lo, -e, FALSE) = (Double(hi, lo) * 2 ^ e) % 2 ^ (2 * W)
<1> DEFINE m == 2 ^ W
           mm == 2 ^ (2 * W)
           p == 2 ^ e
           n == Double(hi, lo)
           hp == Shifted(hi, -(-e), TRUE, FALSE)
           lp == Shifted(lo, -(-e), FALSE, FALSE)
           u == hi * m + lo
<1>1. W \in Nat \ {0} /\ e \in Nat /\ -(-e) = e /\ W + e \in Nat /\ W + e >= 0
        /\ 0 + e = e /\ e >= 0
  BY DatapathConstants
<1>2. m \in Nat \ {0} /\ mm \in Nat \ {0} /\ p \in Nat \ {0} /\ mm = m * m
        /\ 2 ^ (W + e) = m * p
  <2>1. 2 * W = W + W /\ W \in Nat
    BY <1>1
  <2> QED
    BY <1>1, <2>1, PowerType, PowerSum
<1>3. hi \in 0 .. m - 1 /\ lo \in 0 .. m - 1 /\ hi \in Int /\ lo \in Int
  BY <1>2 DEF Word
<1>4. hp = (hi * (m * p)) % mm /\ lp = (lo * p) % mm
  <2>1. Shifted(hi, e, TRUE, FALSE) = (Signed(hi + 0, 2 * W) * 2 ^ (W + e)) % 2 ^ (2 * W)
    BY <1>1 DEF Shifted
  <2>2. Shifted(lo, e, FALSE, FALSE) = (Signed(lo + 0, 2 * W) * 2 ^ (0 + e)) % 2 ^ (2 * W)
    BY <1>1 DEF Shifted
  <2> QED
    BY <1>1, <1>2, <2>1, <2>2, SpreadOfWord
<1>5. n = u \/ n = u - mm
  <2>1. n = Signed(hi, W) * m + lo /\ (Signed(hi, W) = hi \/ Signed(hi, W) = hi - m)
    BY DEF Double, Signed
  <2> DEFINE s == Signed(hi, W)
  <2> HIDE DEF m, mm, n, s
  <2>2. CASE s = hi
    BY <2>1, <2>2 DEF s
  <2>3. CASE s = hi - m
    <3>1. (hi - m) * m = hi * m - m * m /\ hi * m \in Int /\ m * m \in Int
      BY <1>2, <1>3
    <3> QED
      BY <1>2, <1>3, <2>1, <2>3, <3>1 DEF s
  <2> QED
    BY <2>1, <2>2, <2>3 DEF s
<1> HIDE DEF n, u, hp, lp, p
<1>6. u \in Int /\ n \in Int /\ u * p \in Int
  BY <1>2, <1>3, <1>5 DEF u
<1>7. (n * p) % mm = (u * p) % mm
  <2>1. CASE n = u
    BY <2>1
  <2>2. CASE n = u - mm
    <3> DEFINE np == n * p
               up == u * p
               k == 0 - p
    <3>1. np = up + mm * k /\ k \in Int /\ up \in Int
      BY <1>2, <1>6, <2>2
    <3> HIDE DEF np, up, k, mm
    <3>2. (up + mm * k) % mm = up % mm
      BY <1>2, <3>1, SameRemainder
    <3> QED
      BY <3>1, <3>2 DEF np, up
  <2> QED
    BY <1>5, <2>1, <2>2
<1> DEFINE a == hi * (m * p)
           b == lo * p
<1>8. a \in Nat /\ b \in Nat /\ u * p = a + b
  <2> HIDE DEF m
  <2> QED
    BY <1>2, <1>3 DEF u
<1>9. FromBits(Bits(hp, 2 * W) \cup Bits(lp, 2 * W)) = (a + b) % mm
  <2>1. CASE e <= W
    <3> DEFINE k == W + e
               j == W - e
    <3>1. k \in Nat /\ j \in Nat /\ k + j = 2 * W
      BY <1>1, <2>1
    <3>2. 2 ^ k = m * p /\ 2 ^ k <= mm
      BY <1>1, <1>2, <2>1, <3>1, PowerGrows
    <3>3. b \in 0 .. 2 ^ k - 1
      <4> HIDE DEF m, k
      <4>1. m * p = lo * p + p + (m - 1 - lo) * p /\ (m - 1 - lo) * p \in Nat /\ lo * p \in Nat
        BY <1>2, <1>3
      <4> QED
        BY <1>2, <3>2, <4>1
    <3>4. lp = b
      <4>1. b \in 0 .. mm - 1
        <5> HIDE DEF mm, b, k
        <5>1. 2 ^ k \in Nat
          BY <3>1, PowerType
        <5> QED
          BY <1>2, <1>8, <3>2, <3>3, <5>1
      <4> HIDE DEF b, mm
      <4> QED
        BY <1>2, <1>4, <4>1, OwnRemainder DEF b
    <3>5. hp = (hi * 2 ^ k) % 2 ^ (2 * W) /\ a = hi * 2 ^ k
      BY <1>4, <3>2
    <3> HIDE DEF k, j, a, b
    <3> QED
      BY <1>3, <3>1, <3>3, <3>4, <3>5, OrOfParts
  <2>2. CASE ~(e <= W)
    <3> DEFINE d == e - W
               k == 2 * W
               q == hi * 2 ^ d
    <3>1. d \in Nat /\ e = W + d /\ k \in Nat /\ k + 0 = k /\ 0 \in Nat
      BY <1>1, <2>2
    <3>2. p = m * 2 ^ d /\ 2 ^ d \in Nat
      BY <1>1, <3>1, PowerSum, PowerType DEF p
    <3>3. a = mm * q /\ q \in Int
      <4> HIDE DEF m, d
      <4> QED
        BY <1>2, <1>3, <3>2
    <3>4. hp = 0 /\ (a + b) % mm = lp
      <4> HIDE DEF a, b, mm, q
      <4>1. 0 \in 0 .. mm - 1 /\ 0 \in Int /\ a = mm * q + 0 /\ a \in Int /\ a + b = b + mm * q
        BY <1>2, <1>8, <3>3
      <4>2. a % mm = 0
        BY <1>2, <3>3, <4>1, DivisionUnique
      <4>3. b \in Int
        BY <1>8
      <4>4. (b + mm * q) % mm = b % mm
        BY <1>2, <3>3, <4>3, SameRemainder
      <4> QED
        BY <1>4, <4>1, <4>2, <4>4 DEF a, b
    <3>5. lp \in 0 .. mm - 1
      <4>1. b \in Int
        BY <1>8
      <4> HIDE DEF b, mm
      <4> QED
        BY <1>2, <1>4, <4>1, RemainderType DEF b
    <3>6. /\ (0 * 2 ^ k) % mm = 0
          /\ (0 * 2 ^ k + lp) % mm = lp
      <4>1. 2 ^ k \in Int /\ 0 \in 0 .. mm - 1 /\ lp \in Int
        BY <1>2, <3>1, <3>5, PowerType
      <4>2. 0 * 2 ^ k = 0 /\ 0 * 2 ^ k + lp = lp
        BY <4>1
      <4> HIDE DEF mm, k
      <4> QED
        BY <1>2, <3>5, <4>1, <4>2, OwnRemainder
    <3>7. FromBits(Bits((0 * 2 ^ k) % 2 ^ (2 * W), 2 * W) \cup Bits(lp, 2 * W))
            = (0 * 2 ^ k + lp) % 2 ^ (2 * W)
      <4>1. k \in Nat /\ k + 0 = 2 * W /\ lp \in 0 .. 2 ^ k - 1 /\ 0 \in Int
        BY <3>1, <3>5
      <4> HIDE DEF k
      <4> QED
        BY <3>1, <4>1, OrOfParts
    <3> QED
      BY <3>4, <3>6, <3>7
  <2> QED
    BY <1>1, <2>1, <2>2
<1>10. Normalized(hi, lo, -e, FALSE) = (u * p) % mm
  BY <1>8, <1>9 DEF Normalized, hp, lp
<1> QED
  BY <1>7, <1>10 DEF n, p

\* A sum that overflowed is moved one place to the right, its carry into it.
LEMMA NormalizedRight ==
  ASSUME NEW hi \in Word, NEW lo \in Word
  PROVE  LET h == 2 ^ (W - 1)
             hh == 2 ^ (2 * W - 1)
             qq == 2 ^ (2 * W - 2)
             n == Double(hi, lo)
             v == IF Negative(hi, W) THEN n + 2 ^ (2 * W) ELSE n - 2 ^ (2 * W)
         IN /\ Normalized(hi, lo, 1, ~Negative(hi, W)) = (v \div 2) % 2 ^ (2 * W)
            /\ v \div 2 \in -hh .. hh - 1
            /\ v \div 2 \notin -qq .. qq - 1
<1> DEFINE m == 2 ^ W
           h == 2 ^ (W - 1)
           mm == 2 ^ (2 * W)
           hh == 2 ^ (2 * W - 1)
           qq == 2 ^ (2 * W - 2)
           neg == Negative(hi, W)
           ac == ~neg
           n == Double(hi, lo)
           v == IF neg THEN n + mm ELSE n - mm
           g == IF neg THEN hi ELSE hi - m
           hp == Shifted(hi, -1, TRUE, ac)
           lp == Shifted(lo, -1, FALSE, FALSE)
           b == lo \div 2
           c == lo % 2
           t == g * h + b
<1>1. W \in Nat \ {0} /\ W - 1 \in Nat /\ W + 1 \in Nat /\ 2 * W = W + W
      /\ 2 * W - 1 = W + (W - 1) /\ 2 * W - 2 = (W - 1) + (W - 1) /\ (W - 1) + (W + 1) = 2 * W
  BY DatapathConstants
<1>2. m \in Nat \ {0} /\ h \in Nat \ {0} /\ m = 2 * h
  BY <1>1, HalfPower
<1>3. mm = m * m /\ hh = m * h /\ qq = h * h /\ mm \in Nat \ {0}
  BY <1>1, PowerSum, PowerType
<1>4. hi \in 0 .. m - 1 /\ lo \in 0 .. m - 1 /\ hi \in Int /\ lo \in Int
  BY <1>2 DEF Word
<1>5. neg <=> hi >= h
  BY DEF Negative
<1>6. n = (IF neg THEN hi - m ELSE hi) * m + lo
  BY DEF Double, Signed
<1>7. 2 ^ 1 = 2
  BY PowerZero, PowerNext
<1>8. lo = 2 * b + c /\ c \in 0 .. 2 - 1 /\ b \in Int /\ c \in Int
  <2>1. 2 \in Nat \ {0}
    OBVIOUS
  <2> QED
    BY <1>4, <2>1, Division
<1>9. hp = (g * h) % mm
  <2> DEFINE x == hi + (IF ac THEN 2 ^ (2 * W) - 2 ^ W ELSE 0)
  <2>1. W + -1 >= 0 /\ W + -1 = W - 1
    BY <1>1
  <2>2. hp = (Signed(x, 2 * W) * 2 ^ (W + -1)) % 2 ^ (2 * W)
    <3> HIDE DEF ac
    <3> QED
      BY <2>1 DEF Shifted
  <2>3. Signed(x, 2 * W) = g
    <3>1. CASE neg
      <4>1. x = hi + 0
        BY <3>1
      <4> QED
        BY <3>1, <4>1, SpreadOfWord
    <3>2. CASE ~neg
      <4>1. x = hi + (2 ^ (2 * W) - 2 ^ W)
        BY <3>2
      <4> QED
        BY <3>2, <4>1, SpreadOfWord
    <3> QED
      BY <3>1, <3>2
  <2> QED
    BY <2>1, <2>2, <2>3
<1>10. lp = b % mm
  <2>1. ~(0 + -1 >= 0) /\ -(0 + -1) = 1
    <3> DEFINE i == 0 + -1
    <3>1. i \in Int /\ i + 1 = 0 /\ ~(i >= 0)
      OBVIOUS
    <3> HIDE DEF i
    <3>2. \A j, k \in Int : j + k = 0 => -j = k
      OBVIOUS
    <3>3. -i = 1
      BY <3>1, <3>2
    <3> QED
      BY <3>1, <3>3, Zenon DEF i
  <2>2. lp = (Signed(lo + 0, 2 * W) \div 2 ^ 1) % 2 ^ (2 * W)
    BY <2>1 DEF Shifted
  <2> QED
    BY <1>7, <2>2, SpreadOfWord
<1> HIDE DEF m, h, mm, hh, qq, neg, n, g, hp, lp, b, c
<1>11. g \in Int /\ g \in -m .. m - 1 /\ (neg => g \in h .. m - 1)
         /\ (~neg => g \in -m .. -h - 1)
  BY <1>2, <1>4, <1>5 DEF g
<1>12. b \in 0 .. h - 1 /\ b \in 0 .. mm - 1
  <2>1. b \in 0 .. h - 1
    BY <1>2, <1>4, <1>8
  <2>2. mm = h * (4 * h) /\ h * (4 * h - 1) \in Nat /\ h * (4 * h) = h + h * (4 * h - 1)
    BY <1>2, <1>3
  <2> QED
    BY <1>2, <1>3, <2>1, <2>2
<1>13. lp = b
  BY <1>3, <1>10, <1>12, OwnRemainder
<1>14. FromBits(Bits(hp, 2 * W) \cup Bits(lp, 2 * W)) = t % mm
  <2> DEFINE k == W - 1
             j == W + 1
  <2>1. k \in Nat /\ j \in Nat /\ k + j = 2 * W /\ b \in 0 .. 2 ^ k - 1
          /\ hp = (g * 2 ^ k) % 2 ^ (2 * W)
    BY <1>1, <1>9, <1>12 DEF h, mm
  <2>2. t = g * 2 ^ k + b
    BY DEF h
  <2> HIDE DEF k, j, t
  <2> QED
    BY <1>11, <1>13, <2>1, <2>2, OrOfParts DEF mm
<1>15. v \div 2 = t
  <2> DEFINE gh == g * h
  <2>1. v = g * m + lo
    <3>1. CASE neg
      <4>1. (hi - m) * m = hi * m - m * m /\ hi * m \in Int /\ m * m \in Int
        BY <1>2, <1>4
      <4> QED
        BY <1>3, <1>4, <1>6, <3>1, <4>1 DEF g
    <3>2. CASE ~neg
      <4>1. (hi - m) * m = hi * m - m * m /\ hi * m \in Int /\ m * m \in Int
        BY <1>2, <1>4
      <4> QED
        BY <1>3, <1>4, <1>6, <3>2, <4>1 DEF g
    <3> QED
      BY <3>1, <3>2
  <2>2. g * m = 2 * gh /\ gh \in Int
    BY <1>2, <1>11
  <2> HIDE DEF gh
  <2>3. v = 2 * (gh + b) + c /\ gh + b \in Int /\ v \in Int
    <3> HIDE DEF v
    <3> QED
      BY <1>8, <2>1, <2>2
  <2> DEFINE q == gh + b
  <2>4. v = 2 * q + c /\ q \in Int /\ 2 \in Nat \ {0}
    BY <2>3
  <2> HIDE DEF v, q
  <2>5. v \div 2 = q
    BY <1>8, <2>3, <2>4, DivisionUnique
  <2> QED
    BY <2>5 DEF q, gh
<1>16. t \in -hh .. hh - 1
  <2>1. g * h = (g + m) * h - m * h /\ (g + m) * h \in Nat /\ (m - 1 - g) * h \in Nat
        /\ g * h = m * h - h - (m - 1 - g) * h /\ m * h \in Nat
    BY <1>2, <1>11
  <2>2. t \in Int
    BY <1>2, <1>8, <1>11
  <2> QED
    BY <1>2, <1>3, <1>12, <2>1, <2>2
<1>17. t \notin -qq .. qq - 1
  <2>1. CASE neg
    <3>1. g * h = h * h + (g - h) * h /\ (g - h) * h \in Nat /\ h * h \in Nat
      BY <1>2, <1>11, <2>1
    <3> QED
      BY <1>2, <1>3, <1>12, <2>1, <3>1
  <2>2. CASE ~neg
    <3>1. g * h = -(h * h) - h - (-h - 1 - g) * h /\ (-h - 1 - g) * h \in Nat /\ h * h \in Nat
      BY <1>2, <1>11, <2>2
    <3> QED
      BY <1>2, <1>3, <1>12, <2>2, <3>1
  <2> QED
    BY <2>1, <2>2
<1>18. Normalized(hi, lo, 1, ac) = t % mm
  BY <1>14 DEF Normalized, hp, lp
<1> HIDE DEF t
<1> QED
  BY <1>15, <1>16, <1>17, <1>18 DEF v, n, neg, mm, hh, qq

\* The exponent that EXP HI and EXP LO leave.
FoundExponent ==
  LET first == ExpHi(given.hi, given.av)
  IN ExpLo(first.se, given.lo, first.ss)

\* What NORM HI leaves.
HighPart(se) == Shifted(given.hi, -se, TRUE, CarryOut)

\* What each of the four instructions has left.
NormalizeInv ==
  program = "NORMALIZE" =>
    /\ given \in Overflowed
    /\ pc \in Nat
    /\ r = [se |-> r.se, ss |-> r.ss, sr |-> r.sr]
    /\ pc = 1 => r.se = ExpHi(given.hi, given.av).se /\ r.ss = ExpHi(given.hi, given.av).ss
    /\ pc > 1 => r.se = FoundExponent
    /\ pc = 3 => r.sr = HighPart(r.se)
    /\ pc = 4 => r.sr = Normalized(given.hi, given.lo, r.se, CarryOut)

\* Nothing is claimed before EXP HI.
LEMMA InitNormalizeInv == Init => NormalizeInv
<1> SUFFICES ASSUME Init, program = "NORMALIZE" PROVE NormalizeInv
  BY DEF NormalizeInv
<1>1. pc = 0 /\ given \in Overflowed /\ r = [se |-> 0, ss |-> FALSE, sr |-> 0]
  BY DEF Init, InitDivide, InitNormalize, InitBlock, InitAccumulate, InitBuffer, InitDouble
<1> QED
  BY <1>1 DEF NormalizeInv

\* EXP HI, EXP LO, NORM HI and NORM LO in their order.
LEMMA NormalizeKeepsInv ==
  ASSUME NormalizeInv, EXPHI \/ EXPLO \/ NORM(2, TRUE, given.hi) \/ NORM(3, FALSE, given.lo)
  PROVE  NormalizeInv'
<1>1. program = "NORMALIZE" /\ pc' = pc + 1 /\ given' = given /\ program' = program
  BY DEF EXPHI, EXPLO, NORM, Issue
<1>2. given \in Overflowed /\ pc \in Nat /\ r = [se |-> r.se, ss |-> r.ss, sr |-> r.sr]
  BY <1>1 DEF NormalizeInv
<1>3. CarryOut' = CarryOut /\ FoundExponent' = FoundExponent
      /\ ExpHi(given.hi, given.av)' = ExpHi(given.hi, given.av)
  BY <1>1 DEF CarryOut, FoundExponent
<1>4. CASE EXPHI
  <2>1. pc = 0 /\ r' = [se |-> ExpHi(given.hi, given.av).se,
                        ss |-> ExpHi(given.hi, given.av).ss, sr |-> 0]
    BY <1>4 DEF EXPHI, Issue
  <2>2. pc' = 1
    BY <1>1, <2>1
  <2> QED
    BY <1>1, <1>2, <1>3, <2>1, <2>2 DEF NormalizeInv
<1>5. CASE EXPLO
  <2>1. pc = 1 /\ r' = [r EXCEPT !.se = ExpLo(r.se, given.lo, r.ss)]
    BY <1>5 DEF EXPLO, Issue
  <2>2. r.se = ExpHi(given.hi, given.av).se /\ r.ss = ExpHi(given.hi, given.av).ss
    BY <1>1, <2>1 DEF NormalizeInv
  <2>3. r' = [se |-> FoundExponent, ss |-> r.ss, sr |-> r.sr]
    BY <1>2, <2>1, <2>2 DEF FoundExponent
  <2>4. pc' = 2
    BY <1>1, <2>1
  <2> QED
    BY <1>1, <1>2, <1>3, <2>3, <2>4 DEF NormalizeInv
<1>6. CASE NORM(2, TRUE, given.hi)
  <2> DEFINE f == [op |-> "NORM", high |-> TRUE, or |-> 2 = 3]
             sr == Shift(f, given.hi, r.se, r.sr, CarryOut)
  <2>1. pc = 2 /\ r' = [r EXCEPT !.sr = sr]
    BY <1>6 DEF NORM, Issue
  <2>2. f.op = "NORM" /\ f.high = TRUE /\ ~f.or
    <3>1. 2 # 3
      OBVIOUS
    <3> QED
      BY <3>1
  <2> HIDE DEF f
  <2>3. CarryOut \in BOOLEAN
    <3>1. given.av \in BOOLEAN
      BY <1>2 DEF Overflowed
    <3> QED
      BY <3>1 DEF CarryOut
  <2>4. sr = HighPart(r.se)
    <3>1. sr = Shifted(given.hi, -r.se, TRUE, TRUE /\ CarryOut)
      BY <2>2 DEF Shift
    <3>2. (TRUE /\ CarryOut) = CarryOut
      BY <2>3
    <3> QED
      BY <3>1, <3>2 DEF HighPart
  <2> HIDE DEF sr
  <2>5. r' = [se |-> r.se, ss |-> r.ss, sr |-> sr]
    BY <1>2, <2>1
  <2>6. pc' = 3 /\ r.se = FoundExponent
    BY <1>1, <2>1 DEF NormalizeInv
  <2>7. HighPart(r.se)' = HighPart(r.se)
    BY <1>1, <1>3, <2>5 DEF HighPart
  <2> QED
    BY <1>1, <1>2, <1>3, <2>4, <2>5, <2>6, <2>7 DEF NormalizeInv
<1>7. CASE NORM(3, FALSE, given.lo)
  <2> DEFINE f == [op |-> "NORM", high |-> FALSE, or |-> 3 = 3]
             sr == Shift(f, given.lo, r.se, r.sr, CarryOut)
  <2>1. pc = 3 /\ r' = [r EXCEPT !.sr = sr]
    BY <1>7 DEF NORM, Issue
  <2>2. f.op = "NORM" /\ f.high = FALSE /\ f.or = TRUE
    OBVIOUS
  <2> HIDE DEF f
  <2>3. r.sr = HighPart(r.se) /\ r.se = FoundExponent
    BY <1>1, <2>1 DEF NormalizeInv
  <2>4. sr = Normalized(given.hi, given.lo, r.se, CarryOut)
    <3>1. sr = FromBits(Bits(r.sr, 2 * W)
                 \cup Bits(Shifted(given.lo, -r.se, FALSE, FALSE /\ CarryOut), 2 * W))
      BY <2>2 DEF Shift
    <3>2. (FALSE /\ CarryOut) = FALSE
      OBVIOUS
    <3> QED
      BY <2>3, <3>1, <3>2 DEF HighPart, Normalized
  <2> HIDE DEF sr
  <2>5. r' = [se |-> r.se, ss |-> r.ss, sr |-> sr]
    BY <1>2, <2>1
  <2>6. pc' = 4
    BY <1>1, <2>1
  <2>7. Normalized(given.hi, given.lo, r.se, CarryOut)'
          = Normalized(given.hi, given.lo, r.se, CarryOut)
    BY <1>1, <1>3, <2>5 DEF Normalized
  <2> QED
    BY <1>1, <1>2, <1>3, <2>3, <2>4, <2>5, <2>6, <2>7 DEF NormalizeInv
<1> QED
  BY <1>4, <1>5, <1>6, <1>7

\* The other programs do not normalise.
LEMMA OthersLeaveNormalize ==
  ASSUME NormalizeInv, [Next]_vars,
         ~(EXPHI \/ EXPLO \/ NORM(2, TRUE, given.hi) \/ NORM(3, FALSE, given.lo))
  PROVE  NormalizeInv'
<1>1. CASE UNCHANGED vars
  BY <1>1 DEF vars, NormalizeInv, FoundExponent, HighPart, Normalized, CarryOut
<1>2. CASE Next
  <2>1. program # "NORMALIZE" /\ UNCHANGED program
    BY <1>2 DEF Next, DIVS, DIVQ, EXPADJ, MAC, SATMR, MODIFY, AluLow, AluHigh, ALU, Issue
  <2> QED
    BY <2>1 DEF NormalizeInv
<1> QED
  BY <1>1, <1>2

\* What the four instructions leave is the scaled double word.
LEMMA NormalizeInvExact == NormalizeInv => NormalizedExact
<1> SUFFICES ASSUME NormalizeInv, program = "NORMALIZE", pc = 4 PROVE NormalizedExact
  BY DEF NormalizedExact
<1> DEFINE hi == given.hi
           lo == given.lo
           av == given.av
           neg == Negative(hi, W)
           n == Double(hi, lo)
           mm == 2 ^ (2 * W)
           hh == 2 ^ (2 * W - 1)
           qq == 2 ^ (2 * W - 2)
           v == IF ~av THEN n ELSE IF neg THEN n + mm ELSE n - mm
           differ == Bit(r.sr, 2 * W - 1) # Bit(r.sr, 2 * W - 2)
<1>1. hi \in Word /\ lo \in Word /\ av \in BOOLEAN
  BY DEF NormalizeInv, Overflowed
<1>2. r.se = FoundExponent /\ r.sr = Normalized(hi, lo, r.se, CarryOut)
  BY DEF NormalizeInv
<1>3. W \in Nat \ {0} /\ 2 * W \in Nat \ {0} /\ 2 * W >= 2
  BY DatapathConstants
<1>4. neg \in BOOLEAN
  BY DEF Negative
<1>5. SUFFICES /\ IF av THEN r.se = 1 /\ Signed(r.sr, 2 * W) = v \div 2
                        ELSE Signed(r.sr, 2 * W) = v * 2 ^ (-r.se)
               /\ v # 0 => differ
  BY DEF NormalizedExact
<1>6. CASE av
  <2>1. r.se = 1
    <3>1. ExpHi(hi, av).se = 1
      BY <1>6 DEF ExpHi
    <3>2. 1 # 1 - W
      BY <1>3
    <3> QED
      BY <1>2, <3>1, <3>2 DEF FoundExponent, ExpLo
  <2>2. CarryOut = ~neg
    BY <1>4, <1>6 DEF CarryOut
  <2>3. v = IF neg THEN n + mm ELSE n - mm
    BY <1>6
  <2> DEFINE t == v \div 2
  <2>4. r.sr = t % mm /\ t \in -hh .. hh - 1 /\ t \notin -qq .. qq - 1
    <3> HIDE DEF neg, n, mm, hh, qq, v
    <3> QED
      BY <1>1, <1>2, <2>1, <2>2, <2>3, NormalizedRight DEF neg, n, mm, hh, qq
  <2> HIDE DEF t, v
  <2>5. Signed(r.sr, 2 * W) = t
    BY <1>3, <2>4, SignedOfRemainder
  <2>6. differ
    BY <1>3, <2>4, UpperBitsDiffer
  <2> QED
    BY <1>6, <2>1, <2>5, <2>6 DEF t
<1>7. CASE ~av
  <2> DEFINE d == DoubleExponent(hi, lo)
             e == -d
             z == IF neg THEN -1 - n ELSE n
             t == n * 2 ^ e
  <2>1. r.se = d
    BY <1>2, <1>7 DEF FoundExponent, ExpHi, DoubleExponent
  <2>2. CarryOut = FALSE /\ v = n
    BY <1>7 DEF CarryOut
  <2>3. n \in Int /\ z \in Nat /\ e \in 0 .. 2 * W - 1 /\ Redundant(z, 2 * W - 1, e)
    BY <1>1, DoubleExponentCounts
  <2>4. d = -e
    <3>1. d \in Int
      <4>1. HiExponent(hi) \in Int
        BY <1>1, <1>3, HiExponentCounts
      <4>2. LoExponent(lo, neg) \in Int
        BY <1>1, <1>3, <1>4, LoExponentCounts
      <4> QED
        BY <4>1, <4>2 DEF DoubleExponent, ExpLo
    <3> HIDE DEF d
    <3> QED
      BY <3>1
  <2> HIDE DEF v, n, neg, e, d
  <2>5. z = n \/ z = -1 - n
    OBVIOUS
  <2>6. n \in {z, -1 - z}
    <3> HIDE DEF z
    <3> QED
      BY <2>3, <2>5
  <2> HIDE DEF z
  <2>7. /\ 2 * W - 1 \in Nat /\ e \in Nat /\ 2 * W - 1 - 1 = 2 * W - 2
    BY <1>3, <2>3
  <2>8. /\ t \in -hh .. hh - 1
        /\ e < 2 * W - 1 => t \notin -qq .. qq - 1
        /\ e = 2 * W - 1 => z = 0
    <3> DEFINE w == 2 * W - 1
    <3>1. w \in Nat /\ z \in Nat /\ e \in Nat /\ Redundant(z, w, e) /\ n \in {z, -1 - z}
      BY <2>3, <2>6, <2>7
    <3> HIDE DEF w
    <3>2. /\ n * 2 ^ e \in -(2 ^ w) .. 2 ^ w - 1
          /\ e < w => n * 2 ^ e \notin -(2 ^ (w - 1)) .. 2 ^ (w - 1) - 1
          /\ e = w => z = 0
      <4>1. n * 2 ^ e \in -(2 ^ w) .. 2 ^ w - 1
        BY <3>1, RedundantScales
      <4>2. e < w => n * 2 ^ e \notin -(2 ^ (w - 1)) .. 2 ^ (w - 1) - 1
        BY <3>1, RedundantScales
      <4>3. e = w => z = 0
        BY <3>1, RedundantScales
      <4> QED
        BY <4>1, <4>2, <4>3
    <3> QED
      BY <2>7, <3>2 DEF w
  <2>9. r.sr = t % mm
    <3>1. r.sr = Normalized(hi, lo, -e, FALSE)
      BY <1>2, <2>1, <2>2, <2>4
    <3> QED
      BY <1>1, <2>3, <3>1, NormalizedLeft DEF n
  <2> HIDE DEF t
  <2>10. Signed(r.sr, 2 * W) = t
    BY <1>3, <2>8, <2>9, SignedOfRemainder
  <2>11. v # 0 => differ
    <3>1. CASE e < 2 * W - 1
      BY <1>3, <2>8, <2>9, <3>1, UpperBitsDiffer
    <3>2. CASE e = 2 * W - 1
      <4>1. n = 0 \/ n = -1
        BY <2>6, <2>8, <3>2
      <4>2. hh = 2 * qq /\ qq \in Nat \ {0}
        BY <1>3, <2>7, PowerNext, PowerType
      <4>3. CASE n = -1
        <5>1. t = -hh
          BY <3>2, <4>2, <4>3 DEF t
        <5>2. t \notin -qq .. qq - 1
          BY <4>2, <5>1
        <5> QED
          BY <1>3, <2>8, <2>9, <5>2, UpperBitsDiffer
      <4> QED
        BY <2>2, <4>1, <4>3
    <3> QED
      BY <2>3, <2>7, <3>1, <3>2
  <2>12. v * 2 ^ (-r.se) = t
    BY <2>1, <2>2 DEF t, e
  <2> QED
    BY <1>7, <2>10, <2>11, <2>12
<1> QED
  BY <1>1, <1>6, <1>7

\* Normalisation of a double word, also of a sum that overflowed, and the block
\* exponent are exact at every width and operand.
THEOREM ScalingIsExact == Spec => []ScalingExact
<1>1. NormalizeInv /\ BlockInv => ScalingExact
  BY NormalizeInvExact, BlockInvTight DEF ScalingExact
<1>2. NormalizeInv /\ [Next]_vars => NormalizeInv'
  BY NormalizeKeepsInv, OthersLeaveNormalize
<1>3. BlockInv /\ [Next]_vars => BlockInv'
  BY ExpAdjKeepsBlock, OthersLeaveBlock
<1> QED
  BY <1>1, <1>2, <1>3, InitNormalizeInv, InitBlockInv, PTL DEF Spec

=============================================================================
