---------------------------- MODULE NumberLemmas ----------------------------
(***************************************************************************)
(* Facts about natural numbers that several of the proofs share.  Least    *)
(* elements take the place of induction.                                   *)
(***************************************************************************)
EXTENDS Integers, NaturalsInduction, WellFoundedInduction, TLAPS

\* Among numbers there is a least one.
LEMMA LeastNumber ==
  ASSUME NEW T \in SUBSET Nat, T # {}
  PROVE  \E m \in T : \A y \in T : m <= y
<1>1. PICK m \in T : \A y \in T : ~(<<y, m>> \in OpToRel(<, Nat))
  BY NatLessThanWellFounded, WFMin, Zenon
<1>2. \A y \in T : ~(y < m)
  BY <1>1 DEF OpToRel
<1>. QED
  BY <1>2

\* Division with remainder.
LEMMA Quotient ==
  ASSUME NEW B \in Nat, B > 0, NEW n \in Nat
  PROVE  /\ n \div B \in Nat /\ n % B \in 0 .. B - 1
         /\ n = ((n \div B) * B) + (n % B)
<1>1. n \div B \in Nat /\ n % B \in 0 .. B - 1 /\ n = (B * (n \div B)) + (n % B)
  OBVIOUS
<1>2. B * (n \div B) = (n \div B) * B
  BY <1>1
<1>. QED
  BY <1>1, <1>2

\* There is only one quotient.
LEMMA QuotientIs ==
  ASSUME NEW B \in Nat, B > 0, NEW j \in Nat, NEW r \in 0 .. B - 1, NEW n \in Nat, n = j * B + r
  PROVE  n \div B = j /\ n % B = r
<1>1. PICK q \in Nat, s \in 0 .. B - 1 : q = n \div B /\ s = n % B /\ n = q * B + s
  BY Quotient
<1>2. j * B + r = q * B + s
  BY <1>1
<1>3. ~(j < q)
  <2> SUFFICES ASSUME j < q PROVE FALSE
    OBVIOUS
  <2>1. PICK d \in Nat : q = j + 1 + d
    <3>1. q - (j + 1) \in Nat /\ q = j + 1 + (q - (j + 1))
      OBVIOUS
    <3>. QED
      BY <3>1
  <2>2. q * B = j * B + B + d * B /\ d * B \in Nat /\ j * B \in Nat
    BY <2>1
  <2>. QED
    BY <1>2, <2>2
<1>4. ~(q < j)
  <2> SUFFICES ASSUME q < j PROVE FALSE
    OBVIOUS
  <2>1. PICK d \in Nat : j = q + 1 + d
    <3>1. j - (q + 1) \in Nat /\ j = q + 1 + (j - (q + 1))
      OBVIOUS
    <3>. QED
      BY <3>1
  <2>2. j * B = q * B + B + d * B /\ d * B \in Nat /\ q * B \in Nat
    BY <2>1
  <2>. QED
    BY <1>2, <2>2
<1>5. q = j
  BY <1>3, <1>4
<1>6. s = r
  <2>1. j * B \in Nat
    OBVIOUS
  <2>. QED
    BY <1>2, <1>5, <2>1
<1>. QED
  BY <1>1, <1>5, <1>6

\* Multiples follow one another at a distance.
LEMMA Products ==
  ASSUME NEW B \in Nat, B > 0, NEW j \in Nat, NEW q \in Nat
  PROVE  /\ j * B \in Nat /\ q * B \in Nat
         /\ j < q => j * B + B <= q * B
         /\ j * B < q * B => j < q
<1>1. j * B \in Nat /\ q * B \in Nat
  OBVIOUS
<1>2. ASSUME j < q PROVE j * B + B <= q * B
  <2>1. PICK d \in Nat : q = j + 1 + d
    <3>1. q - (j + 1) \in Nat /\ q = j + 1 + (q - (j + 1))
      BY <1>2
    <3>. QED
      BY <3>1
  <2>2. q * B = j * B + B + d * B /\ d * B \in Nat
    BY <2>1
  <2>. QED
    BY <1>1, <2>2
<1>3. ASSUME j * B < q * B, ~(j < q) PROVE FALSE
  <2>1. PICK d \in Nat : j = q + d
    <3>1. j - q \in Nat /\ j = q + (j - q)
      BY <1>3
    <3>. QED
      BY <3>1
  <2>2. j * B = q * B + d * B /\ d * B \in Nat
    BY <2>1
  <2>. QED
    BY <1>1, <1>3, <2>2
<1>. QED
  BY <1>1, <1>2, <1>3

\* Sums of numbers from the left.
LEMMA SumExists ==
  ASSUME NEW n \in Nat, NEW G \in [1 .. n -> Nat]
  PROVE  \E f \in [0 .. n -> Nat] : f[0] = 0 /\ \A i \in 1 .. n : f[i] = f[i - 1] + G[i]
<1> DEFINE Part(m) == \E f \in [0 .. m -> Nat] : f[0] = 0 /\ \A i \in 1 .. m : f[i] = f[i - 1] + G[i]
           T == {m \in 0 .. n : ~Part(m)}
<1>1. SUFFICES ASSUME T # {} PROVE FALSE
  <2>1. n \in 0 .. n
    OBVIOUS
  <2>2. Part(n)
    BY <1>1, <2>1
  <2>. QED
    BY <2>2
<1>2. PICK m \in T : \A y \in T : m <= y
  <2>1. T \in SUBSET Nat
    OBVIOUS
  <2>. QED
    BY <1>1, <2>1, LeastNumber
<1>3. m # 0
  <2>1. Part(0)
    <3> DEFINE f == [i \in 0 .. 0 |-> 0]
    <3>1. f \in [0 .. 0 -> Nat] /\ f[0] = 0 /\ \A i \in 1 .. 0 : f[i] = f[i - 1] + G[i]
      OBVIOUS
    <3>. QED
      BY <3>1
  <2>. QED
    BY <2>1
<1>4. PICK k \in Nat : m = k + 1 /\ k \in 0 .. n /\ ~(m <= k)
  <2>1. m - 1 \in Nat /\ m = (m - 1) + 1 /\ m - 1 \in 0 .. n /\ ~(m <= m - 1)
    BY <1>3
  <2>. QED
    BY <2>1
<1>5. PICK f \in [0 .. k -> Nat] : f[0] = 0 /\ \A i \in 1 .. k : f[i] = f[i - 1] + G[i]
  BY <1>2, <1>4
<1> DEFINE g == [i \in 0 .. k + 1 |-> IF i = k + 1 THEN f[k] + G[k + 1] ELSE f[i]]
<1>6. k + 1 \in 1 .. n /\ f[k] \in Nat /\ G[k + 1] \in Nat
  BY <1>4
<1>7. g \in [0 .. k + 1 -> Nat] /\ g[0] = 0
  BY <1>5, <1>6
<1>8. ASSUME NEW i \in 1 .. k + 1 PROVE g[i] = g[i - 1] + G[i]
  <2>1. i - 1 \in 0 .. k /\ i - 1 # k + 1 /\ i \in 0 .. k + 1 /\ i - 1 \in 0 .. k + 1
    OBVIOUS
  <2>2. g[i - 1] = f[i - 1]
    BY <2>1
  <2>3. CASE i = k + 1
    BY <2>1, <2>2, <2>3
  <2>4. CASE i # k + 1
    <3>1. i \in 1 .. k /\ g[i] = f[i]
      BY <2>1, <2>4
    <3>. QED
      BY <1>5, <2>2, <3>1
  <2>. QED
    BY <2>3, <2>4
<1>9. Part(k + 1)
  BY <1>7, <1>8
<1>. QED
  BY <1>2, <1>4, <1>9

\* What a recursive sum computes.
IsSum(c, G, n) == c = [i \in 0 .. n |-> IF i = 0 THEN 0 ELSE c[i - 1] + G[i]]

LEMMA SumIsRecursive ==
  ASSUME NEW n \in Nat, NEW G \in [1 .. n -> Nat], NEW c, IsSum(c, G, n)
  PROVE  c \in [0 .. n -> Nat] /\ c[0] = 0 /\ \A i \in 1 .. n : c[i] = c[i - 1] + G[i]
<1>1. c[0] = 0 /\ \A i \in 1 .. n : c[i] = c[i - 1] + G[i]
  BY DEF IsSum
<1> DEFINE T == {i \in 0 .. n : c[i] \notin Nat}
<1>2. T = {}
  <2> SUFFICES ASSUME T # {} PROVE FALSE
    OBVIOUS
  <2>1. T \in SUBSET Nat
    OBVIOUS
  <2>2. PICK k \in T : \A y \in T : k <= y
    BY <2>1, LeastNumber
  <2>3. k # 0 /\ k \in 1 .. n /\ k - 1 \in 0 .. n /\ ~(k <= k - 1)
    BY <1>1
  <2>4. c[k - 1] \in Nat /\ G[k] \in Nat /\ c[k] = c[k - 1] + G[k]
    BY <1>1, <2>2, <2>3
  <2>5. c[k] \in Nat
    BY <2>4
  <2>. QED
    BY <2>5
<1>3. c \in [0 .. n -> Nat]
  BY <1>2 DEF IsSum
<1>. QED
  BY <1>1, <1>3

\* One more digit of v, of weight P, above the digits that sum up to s.
IsNextDigit(R, P, v, q, s) ==
  \E q2 \in Nat, d \in Nat :
    /\ d = q % R /\ s + d * P < R * P
    /\ v = q2 * (R * P) + (s + d * P) /\ v \div (R * P) = q2

LEMMA NextDigit ==
  ASSUME NEW R \in Nat, R > 0, NEW P \in Nat, P > 0, NEW v \in Nat, NEW q \in Nat, NEW s \in Nat,
         s < P, v = q * P + s
  PROVE  IsNextDigit(R, P, v, q, s)
<1>1. PICK q2 \in Nat, d \in Nat : d = q % R /\ d < R /\ q = q2 * R + d
  <2>1. q \div R \in Nat /\ q % R \in 0 .. R - 1 /\ q = ((q \div R) * R) + (q % R)
    BY Quotient
  <2>2. q % R \in Nat /\ q % R < R
    BY <2>1
  <2>. QED
    BY <2>1, <2>2
<1>2. PICK M \in Nat, D \in Nat : M = R * P /\ M > 0 /\ D = d * P
  <2>1. R * P \in Nat /\ R * P > 0 /\ d * P \in Nat
    OBVIOUS
  <2>. QED
    BY <2>1
<1>3. s + D < M
  <2>1. d * P + P <= R * P
    BY <1>1, Products
  <2>. QED
    BY <1>2, <2>1
<1>4. v = q2 * M + (s + D)
  <2>1. q * P = (q2 * R + d) * P
    BY <1>1
  <2>2. (q2 * R + d) * P = q2 * (R * P) + d * P
    OBVIOUS
  <2>3. q * P = q2 * M + D
    BY <1>2, <2>1, <2>2
  <2>4. q2 * M \in Nat /\ q * P \in Nat
    OBVIOUS
  <2>. QED
    BY <2>3, <2>4
<1>5. v \div M = q2
  <2>1. PICK t \in 0 .. M - 1 : t = s + D
    BY <1>3
  <2>2. v = q2 * M + t
    BY <1>4, <2>1
  <2>. QED
    BY <1>2, <2>2, QuotientIs
<1>. QED
  BY <1>1, <1>2, <1>3, <1>4, <1>5 DEF IsNextDigit

\* A number below W is its own remainder.
LEMMA OneDigitLess ==
  ASSUME NEW W \in Nat, NEW q \in Nat, NEW s \in Nat, NEW v \in Nat, v < W, v = q * W + s
  PROVE  v = s
<1>1. q * W \in Nat /\ (0 < q => 0 * W + W <= q * W)
  BY Products
<1>2. q = 0
  BY <1>1
<1>. QED
  BY <1>2

\* A number is the sum of its digits in base R, each with its weight.
LEMMA Digits ==
  ASSUME NEW R \in Nat, R > 0, NEW n \in Nat, NEW P \in [0 .. n -> Nat], P[0] = 1,
         \A i \in 1 .. n : P[i] = R * P[i - 1] /\ P[i - 1] > 0,
         NEW v \in Nat, v < P[n], NEW sum \in [0 .. n -> Nat], sum[0] = 0,
         \A i \in 1 .. n : sum[i] = sum[i - 1] + ((v \div P[i - 1]) % R) * P[i - 1]
  PROVE  sum[n] = v
<1> DEFINE Right(i) == sum[i] < P[i] /\ v = (v \div P[i]) * P[i] + sum[i]
           T == {i \in 0 .. n : ~Right(i)}
<1>1. T = {}
  <2> SUFFICES ASSUME T # {} PROVE FALSE
    OBVIOUS
  <2>1. PICK k \in T : \A y \in T : k <= y
    <3>1. T \in SUBSET Nat
      OBVIOUS
    <3>. QED
      BY <3>1, LeastNumber
  <2>2. k # 0
    <3>1. v \div 1 = v
      OBVIOUS
    <3>2. Right(0)
      BY <3>1
    <3>. QED
      BY <3>2
  <2>3. PICK j \in 0 .. n : k - 1 = j /\ k = j + 1 /\ ~(k <= j) /\ k \in 1 .. n
    <3>1. k - 1 \in 0 .. n /\ k = (k - 1) + 1 /\ ~(k <= k - 1) /\ k \in 1 .. n
      BY <2>2
    <3>. QED
      BY <3>1
  <2>4. PICK W \in Nat, s \in Nat : W = P[j] /\ s = sum[j] /\ W > 0 /\ P[k] = R * W
    BY <2>3
  <2>5. PICK q \in Nat : q = v \div W /\ s < W /\ v = q * W + s
    <3>1. Right(j)
      BY <2>1, <2>3
    <3>2. v \div W \in Nat
      BY <2>4, Quotient
    <3>. QED
      BY <2>4, <3>1, <3>2
  <2>6. PICK q2 \in Nat, d \in Nat :
          /\ d = q % R /\ s + d * W < R * W
          /\ v = q2 * (R * W) + (s + d * W) /\ v \div (R * W) = q2
    <3>1. W > 0 /\ s < W /\ v = q * W + s
      BY <2>4, <2>5
    <3>2. IsNextDigit(R, W, v, q, s)
      BY <3>1, NextDigit
    <3>. QED
      BY <3>2 DEF IsNextDigit
  <2>7. sum[k] = s + d * W
    BY <2>3, <2>4, <2>5, <2>6
  <2>8. Right(k)
    BY <2>4, <2>6, <2>7
  <2>. QED
    BY <2>8
<1> HIDE DEF T, Right
<1>2. PICK W \in Nat, s \in Nat : W = P[n] /\ s = sum[n] /\ W > 0
  OBVIOUS
<1>4. PICK q \in Nat : q = v \div W
  BY <1>2, Quotient
<1>5. s < W /\ v = q * W + s
  <2>1. n \in 0 .. n
    OBVIOUS
  <2>2. Right(n)
    BY <1>1, <2>1, Zenon DEF T
  <2>. QED
    BY <1>2, <1>4, <2>2, Zenon DEF Right
<1>6. v < W
  BY <1>2
<1>7. v = s
  BY <1>5, <1>6, OneDigitLess, ZenonT(60)
<1>. QED
  BY <1>2, <1>7

\* sum adds up the n digits of v, whose weights are in P.
IsDigitSum(R, n, P, v, sum) ==
  /\ R \in Nat /\ R > 0 /\ n \in Nat /\ P \in [0 .. n -> Nat] /\ P[0] = 1
  /\ \A i \in 1 .. n : P[i] = R * P[i - 1] /\ P[i - 1] > 0
  /\ v \in Nat /\ v < P[n] /\ sum \in [0 .. n -> Nat] /\ sum[0] = 0
  /\ \A i \in 1 .. n : sum[i] = sum[i - 1] + ((v \div P[i - 1]) % R) * P[i - 1]

LEMMA DigitSum ==
  ASSUME NEW R, NEW n, NEW P, NEW v, NEW sum, IsDigitSum(R, n, P, v, sum)
  PROVE  sum[n] = v
<1>1. /\ R \in Nat /\ R > 0 /\ n \in Nat /\ P \in [0 .. n -> Nat] /\ P[0] = 1
      /\ \A i \in 1 .. n : P[i] = R * P[i - 1] /\ P[i - 1] > 0
      /\ v \in Nat /\ v < P[n] /\ sum \in [0 .. n -> Nat] /\ sum[0] = 0
      /\ \A i \in 1 .. n : sum[i] = sum[i - 1] + ((v \div P[i - 1]) % R) * P[i - 1]
  BY DEF IsDigitSum
<1>. QED
  BY <1>1, Digits, Zenon

=============================================================================
