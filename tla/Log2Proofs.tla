----------------------------- MODULE Log2Proofs -----------------------------
(***************************************************************************)
(* The natural numbers have a least-number principle and with it induction *)
(* over sets; from that, what the recursive function Pow2 and the          *)
(* logarithm CeilLog2 are for every argument.                              *)
(***************************************************************************)
EXTENDS Log2, Integers, Sequences, WellFoundedInduction, TLAPS

(* Every set of natural numbers that has a member has a least one. *)
LEMMA LeastNumber ==
  ASSUME NEW T \in SUBSET Nat, T # {}
  PROVE  \E n \in T : \A m \in T : n <= m
<1> DEFINE R == OpToRel(<, Nat)
<1>1. IsWellFoundedOn(R, Nat)
  BY NatLessThanWellFounded
<1>2. \E x \in T : \A y \in T : ~ (<<y, x>> \in R)
  <2> HIDE DEF R
  <2> QED BY <1>1, WFMin
<1>3. \A x, y \in Nat : x < y => <<x, y>> \in R
  BY DEF OpToRel
<1> HIDE DEF R
<1>4. PICK n \in T : \A y \in T : ~ (<<y, n>> \in R)
  BY <1>2
<1>5. ASSUME NEW m \in T PROVE n <= m
  <2>1. m \in Nat /\ n \in Nat
    OBVIOUS
  <2>2. ~ (m < n)
    BY <1>3, <1>4, <2>1
  <2> QED BY <2>1, <2>2
<1> QED BY <1>5

(* A set with 0, and with every n that of n + 1, holds all natural         *)
(* numbers.                                                                *)
LEMMA Induction ==
  ASSUME NEW S, 0 \in S, \A n \in Nat : n \in S => n + 1 \in S
  PROVE  Nat \subseteq S
<1> DEFINE T == {n \in Nat : n \notin S}
<1> SUFFICES ASSUME T # {} PROVE FALSE
  OBVIOUS
<1>1. PICK n \in T : \A m \in T : n <= m
  BY LeastNumber
<1> QED BY <1>1

(* f holds the powers of two up to the k-th. *)
Powers(f, k) ==
  /\ f \in [0 .. k -> Nat] /\ f[0] = 1
  /\ \A i \in 1 .. k : f[i] = 2 * f[i - 1]

(* The powers of two up to any one can be listed, *)
LEMMA PowersExist == \A k \in Nat : \E f : Powers(f, k)
<1> DEFINE S == {k \in Nat : \E f : Powers(f, k)}
<1>1. 0 \in S
  <2>1. Powers([i \in 0 .. 0 |-> 1], 0)
    BY DEF Powers
  <2> QED BY <2>1
<1>2. ASSUME NEW k \in Nat, k \in S PROVE k + 1 \in S
  <2>1. PICK f : Powers(f, k)
    BY <1>2
  <2> DEFINE g == [i \in 0 .. k + 1 |-> IF i <= k THEN f[i] ELSE 2 * f[k]]
  <2>2. Powers(g, k + 1)
    BY <2>1 DEF Powers
  <2> HIDE DEF g
  <2> QED BY <2>2
<1> HIDE DEF S
<1>3. Nat \subseteq S
  BY <1>1, <1>2, Induction
<1> QED BY <1>3 DEF S

(* in one way only. *)
LEMMA PowersUnique ==
  ASSUME NEW f, NEW g, NEW k \in Nat, NEW m \in Nat, k <= m, Powers(f, k), Powers(g, m)
  PROVE  \A i \in 0 .. k : f[i] = g[i]
<1> DEFINE S == {i \in Nat : i <= k => f[i] = g[i]}
<1>1. 0 \in S
  BY DEF Powers
<1>2. ASSUME NEW i \in Nat, i \in S PROVE i + 1 \in S
  <2> SUFFICES ASSUME i + 1 <= k PROVE f[i + 1] = g[i + 1]
    OBVIOUS
  <2>1. f[i + 1] = 2 * f[i] /\ g[i + 1] = 2 * g[i]
    <3>1. i + 1 \in 1 .. k /\ i + 1 \in 1 .. m /\ (i + 1) - 1 = i
      OBVIOUS
    <3> QED BY <3>1 DEF Powers
  <2> QED BY <2>1, <1>2
<1> HIDE DEF S
<1>3. Nat \subseteq S
  BY <1>1, <1>2, Induction
<1> QED BY <1>3 DEF S

(* So the recursive definition of Pow2 defines a function: the equation    *)
(* holds of it.                                                            *)
LEMMA Pow2Def ==
  Pow2 = [k \in Nat |-> IF k = 0 THEN 1 ELSE 2 * Pow2[k - 1]]
<1> DEFINE P(k) == CHOOSE f : Powers(f, k)
           T == [k \in Nat |-> P(k)[k]]
<1>1. \A k \in Nat : Powers(P(k), k)
  BY PowersExist
<1>2. ASSUME NEW k \in Nat PROVE T[k] = IF k = 0 THEN 1 ELSE 2 * T[k - 1]
  <2>1. CASE k = 0
    BY <2>1, <1>1 DEF Powers
  <2>2. CASE k # 0
    <3>1. Powers(P(k), k) /\ Powers(P(k - 1), k - 1) /\ k - 1 \in Nat /\ k - 1 <= k
      BY <1>1, <2>2
    <3> DEFINE Q == P(k - 1)  R == P(k)
    <3>2. Q[k - 1] = R[k - 1]
      <4> HIDE DEF P
      <4>1. \A i \in 0 .. k - 1 : Q[i] = R[i]
        BY <3>1, PowersUnique
      <4> QED BY <4>1, <2>2
    <3>3. R[k] = 2 * R[k - 1]
      <4> HIDE DEF P
      <4> QED BY <3>1, <2>2 DEF Powers
    <3> QED BY <3>2, <3>3, <2>2
  <2> QED BY <2>1, <2>2
<1> HIDE DEF P
<1>3. T = [k \in Nat |-> IF k = 0 THEN 1 ELSE 2 * T[k - 1]]
  BY <1>2
<1> HIDE DEF T
<1> QED BY <1>3 DEF Pow2

(* Pow2 starts at 1 and doubles. *)
LEMMA Pow2Value ==
  /\ Pow2 \in [Nat -> Nat \ {0}]
  /\ Pow2[0] = 1
  /\ \A k \in Nat : Pow2[k + 1] = 2 * Pow2[k]
<1>0. \A k \in Nat : Pow2[k] = IF k = 0 THEN 1 ELSE 2 * Pow2[k - 1]
  BY Pow2Def
<1>1. Pow2[0] = 1 /\ \A k \in Nat : Pow2[k + 1] = 2 * Pow2[k]
  <2>1. \A k \in Nat : k + 1 \in Nat /\ k + 1 # 0 /\ (k + 1) - 1 = k
    OBVIOUS
  <2> QED BY <1>0, <2>1
<1> DEFINE S == {k \in Nat : Pow2[k] \in Nat \ {0}}
<1>2. 0 \in S /\ \A k \in Nat : k \in S => k + 1 \in S
  BY <1>1
<1>3. Nat \subseteq S
  <2> HIDE DEF S
  <2> QED BY <1>2, Induction
<1>4. DOMAIN Pow2 = Nat /\ Pow2 = [k \in Nat |-> Pow2[k]]
  BY Pow2Def
<1> QED BY <1>1, <1>3, <1>4

(* A larger exponent gives a larger power. *)
LEMMA Pow2Monotonic ==
  ASSUME NEW j \in Nat, NEW k \in Nat, j <= k
  PROVE  Pow2[j] <= Pow2[k]
<1> DEFINE S == {d \in Nat : Pow2[j] <= Pow2[j + d]}
<1>1. 0 \in S
  BY Pow2Value
<1>2. ASSUME NEW d \in Nat, d \in S PROVE d + 1 \in S
  <2>1. j + d \in Nat /\ j + (d + 1) = (j + d) + 1
    OBVIOUS
  <2>2. Pow2[j + (d + 1)] = 2 * Pow2[j + d] /\ Pow2[j + d] \in Nat /\ Pow2[j] \in Nat
    BY <2>1, Pow2Value
  <2> QED BY <1>2, <2>2
<1>3. Nat \subseteq S
  <2> HIDE DEF S
  <2> QED BY <1>1, <1>2, Induction
<1>4. k - j \in S /\ j + (k - j) = k
  BY <1>3
<1> QED BY <1>4

(* 2 ^ k is more than k. *)
LEMMA Pow2Exceeds == \A k \in Nat : Pow2[k] > k
<1> DEFINE S == {k \in Nat : Pow2[k] > k}
<1>1. 0 \in S /\ \A k \in Nat : k \in S => k + 1 \in S
  BY Pow2Value
<1>2. Nat \subseteq S
  <2> HIDE DEF S
  <2> QED BY <1>1, Induction
<1> QED BY <1>2

(* CeilLog2(n) is the least width that has n values.                       *)
LEMMA CeilLog2Value ==
  ASSUME NEW n \in Nat
  PROVE  LET w == CeilLog2(n)
         IN  w \in 0 .. n /\ Pow2[w] >= n /\ (w = 0 \/ Pow2[w - 1] < n)
<1> DEFINE T == {k \in Nat : Pow2[k] >= n}
<1>1. n \in T
  BY Pow2Exceeds, Pow2Value
<1>2. PICK w \in T : \A k \in T : w <= k
  BY <1>1, LeastNumber
<1>3. w \in 0 .. n /\ Pow2[w] >= n
  BY <1>1, <1>2
<1>4. w = 0 \/ Pow2[w - 1] < n
  <2>1. CASE w # 0
    <3>1. w - 1 \in Nat /\ w - 1 \notin T /\ Pow2[w - 1] \in Nat
      BY <1>2, <2>1, Pow2Value
    <3> QED BY <3>1
  <2> QED BY <2>1
<1> QED BY <1>3, <1>4 DEF CeilLog2

(* There is only one such width. *)
LEMMA CeilLog2Is ==
  ASSUME NEW n \in Nat, NEW w \in Nat, Pow2[w] >= n, w = 0 \/ Pow2[w - 1] < n
  PROVE  CeilLog2(n) = w
<1> DEFINE v == CeilLog2(n)
<1>1. v \in Nat /\ Pow2[v] >= n /\ (v = 0 \/ Pow2[v - 1] < n)
  BY CeilLog2Value
<1> HIDE DEF v
<1>2. ~ (v < w)
  <2> SUFFICES ASSUME v < w PROVE FALSE
    OBVIOUS
  <2>1. w - 1 \in Nat /\ v <= w - 1
    BY <1>1
  <2>2. Pow2[v] <= Pow2[w - 1] /\ Pow2[v] \in Nat /\ Pow2[w - 1] \in Nat
    BY <1>1, <2>1, Pow2Monotonic, Pow2Value
  <2> QED BY <1>1, <2>2
<1>3. ~ (w < v)
  <2> SUFFICES ASSUME w < v PROVE FALSE
    OBVIOUS
  <2>1. v - 1 \in Nat /\ w <= v - 1
    BY <1>1
  <2>2. Pow2[w] <= Pow2[v - 1] /\ Pow2[w] \in Nat /\ Pow2[v - 1] \in Nat
    BY <1>1, <2>1, Pow2Monotonic, Pow2Value
  <2> QED BY <1>1, <2>2
<1>4. v = w
  BY <1>1, <1>2, <1>3
<1> QED BY <1>4 DEF v

(* The first powers of two, *)
LEMMA SmallPowers ==
  Pow2[0] = 1 /\ Pow2[1] = 2 /\ Pow2[2] = 4 /\ Pow2[3] = 8 /\ Pow2[4] = 16
<1>1. Pow2[0 + 1] = 2 * Pow2[0] /\ Pow2[1 + 1] = 2 * Pow2[1]
      /\ Pow2[2 + 1] = 2 * Pow2[2] /\ Pow2[3 + 1] = 2 * Pow2[3] /\ Pow2[0] = 1
  BY Pow2Value
<1> QED BY <1>1

(* and the widths of up to nine alternatives. *)
LEMMA SmallLogs ==
  /\ CeilLog2(0) = 0 /\ CeilLog2(1) = 0 /\ CeilLog2(2) = 1
  /\ \A n \in 3 .. 4 : CeilLog2(n) = 2
  /\ \A n \in 5 .. 8 : CeilLog2(n) = 3
  /\ CeilLog2(9) = 4
<1>1. CeilLog2(0) = 0 /\ CeilLog2(1) = 0
  BY SmallPowers, CeilLog2Is
<1>2. CeilLog2(2) = 1
  <2>1. Pow2[1] >= 2 /\ Pow2[1 - 1] < 2
    BY SmallPowers
  <2> QED BY <2>1, CeilLog2Is
<1>3. ASSUME NEW n \in 3 .. 4 PROVE CeilLog2(n) = 2
  <2>1. Pow2[2] >= n /\ Pow2[2 - 1] < n
    BY SmallPowers
  <2> QED BY <2>1, CeilLog2Is
<1>4. ASSUME NEW n \in 5 .. 8 PROVE CeilLog2(n) = 3
  <2>1. Pow2[3] >= n /\ Pow2[3 - 1] < n
    BY SmallPowers
  <2> QED BY <2>1, CeilLog2Is
<1>5. CeilLog2(9) = 4
  <2>1. Pow2[4] >= 9 /\ Pow2[4 - 1] < 9
    BY SmallPowers
  <2> QED BY <2>1, CeilLog2Is
<1> QED BY <1>1, <1>2, <1>3, <1>4, <1>5

(* Half of a quotient and its last bit make up the quotient: how a number  *)
(* is taken apart into bits.                                               *)
LEMMA HalfOf ==
  ASSUME NEW a \in Nat, NEW p \in Nat \ {0}
  PROVE  /\ a \div p \in Nat
         /\ a \div p = 2 * (a \div (2 * p)) + ((a \div p) % 2)
<1> DEFINE q == a \div p  r == a % p  h == q \div 2  b == q % 2
<1>1. q \in Nat /\ r \in Nat /\ r < p /\ a = p * q + r
  OBVIOUS
<1>2. h \in Nat /\ b \in 0 .. 1 /\ q = 2 * h + b
  BY <1>1
<1>3. a \div (2 * p) = h
  <2> HIDE DEF q, r, h, b
  <2>1. p * q = (2 * p) * h + p * b
    BY <1>2
  <2>2. p * b + r \in 0 .. 2 * p - 1
    BY <1>1, <1>2
  <2>3. a = (2 * p) * h + (p * b + r)
    BY <1>1, <2>1, <2>2, <1>2
  <2> QED BY <2>2, <2>3, <1>2
<1> QED BY <1>1, <1>2, <1>3
=============================================================================
