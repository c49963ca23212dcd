------------------------ MODULE BuiltinSchemaProofs -------------------------
(***************************************************************************)
(* Proofs about BuiltinSchema, for any set of qualified names, any options *)
(* and documents of any length.                                            *)
(*                                                                         *)
(* First the coding: the tables the Builder computes are those of the      *)
(* table of productions, and a code that ElementGrammars writes is read    *)
(* back by decodeTerm and by decodeTermGrammar as the production it was    *)
(* written for.  From that, what decode() does to an event of the document *)
(* (Effect); from that, the invariant IInv; and from both, that every call *)
(* is a step of the document.                                              *)
(***************************************************************************)
EXTENDS BuiltinSchema, Log2Proofs, SequenceTheorems

(* The table of productions and the schema share one base 2 logarithm. *)
LEMMA DocLog2 ==
  /\ Doc!Pow2 = Pow2
  /\ \A n : Doc!CeilLog2(n) = CeilLog2(n)
<1>1. Doc!Pow2 = Pow2
  BY DEF Doc!Pow2, Pow2
<1> QED BY <1>1 DEF Doc!CeilLog2, CeilLog2

(* f[i] is the number the first i bits after pos make. *)
Reading(f, s, pos, n) ==
  f = [i \in 0 .. n |-> IF i = 0 THEN 0 ELSE 2 * f[i - 1] + BitAt(s, pos + i)]

(* n bits can be read one after another from any position. *)
LEMMA ReadingExists ==
  ASSUME NEW s, NEW pos
  PROVE  \A n \in Nat : \E f : Reading(f, s, pos, n)
<1> DEFINE S == {n \in Nat : \E f : Reading(f, s, pos, n)}
<1>1. 0 \in S
  <2>1. Reading([i \in 0 .. 0 |-> 0], s, pos, 0)
    BY DEF Reading
  <2> QED BY <2>1
<1>2. ASSUME NEW n \in Nat, n \in S PROVE n + 1 \in S
  <2>1. PICK f : Reading(f, s, pos, n)
    BY <1>2
  <2> DEFINE g == [i \in 0 .. n + 1 |-> IF i <= n THEN f[i]
                                        ELSE 2 * f[n] + BitAt(s, pos + (n + 1))]
  <2>2. Reading(g, s, pos, n + 1)
    <3> HIDE DEF BitAt
    <3> QED BY <2>1 DEF Reading
  <2> HIDE DEF g
  <2> QED BY <2>2
<1> HIDE DEF S
<1>3. Nat \subseteq S
  BY <1>1, <1>2, Induction
<1> QED BY <1>3 DEF S

(* readBits64 takes its bits first to last, each doubling what was read    *)
(* so far.                                                                 *)
LEMMA readBits64Def ==
  ASSUME NEW s, NEW pos, NEW n \in Nat
  PROVE  \E f : /\ readBits64(s, pos, n) = f[n]
                /\ f[0] = 0
                /\ \A i \in 1 .. n : f[i] = 2 * f[i - 1] + BitAt(s, pos + i)
<1> DEFINE f == CHOOSE f : Reading(f, s, pos, n)
<1>1. Reading(f, s, pos, n)
  BY ReadingExists
<1>2. readBits64(s, pos, n) = f[n]
  BY DEF readBits64, Reading
<1> HIDE DEF f
<1>3. f[0] = 0 /\ \A i \in 1 .. n : f[i] = 2 * f[i - 1] + BitAt(s, pos + i)
  BY <1>1 DEF Reading
<1> QED BY <1>2, <1>3

(* The bits of v stand in s after the first pos. *)
Carries(s, pos, v, w) ==
  \A i \in 1 .. w : BitAt(s, pos + i) = (v \div Pow2[w - i]) % 2

(* A number written in w bits is read back by readBits64 as that number. *)
LEMMA ReadBack ==
  ASSUME NEW s, NEW pos \in Nat, NEW w \in Nat, NEW v \in Nat,
         v < Pow2[w], Carries(s, pos, v, w)
  PROVE  readBits64(s, pos, w) = v
<1>1. PICK f : /\ readBits64(s, pos, w) = f[w]
               /\ f[0] = 0
               /\ \A i \in 1 .. w : f[i] = 2 * f[i - 1] + BitAt(s, pos + i)
  BY readBits64Def
<1> DEFINE S == {i \in Nat : i <= w => f[i] = v \div Pow2[w - i]}
<1>2. 0 \in S
  <2>1. v \div Pow2[w] = 0
    <3>1. Pow2[w] \in Nat \ {0}
      BY Pow2Value
    <3> QED BY <3>1
  <2> QED BY <1>1, <2>1
<1>3. ASSUME NEW i \in Nat, i \in S PROVE i + 1 \in S
  <2> SUFFICES ASSUME i + 1 <= w PROVE f[i + 1] = v \div Pow2[w - (i + 1)]
    OBVIOUS
  <2> DEFINE p == Pow2[w - (i + 1)]
  <2>1. w - (i + 1) \in Nat /\ (w - (i + 1)) + 1 = w - i
    OBVIOUS
  <2>2. p \in Nat \ {0} /\ Pow2[w - i] = 2 * p
    BY <2>1, Pow2Value
  <2>3. i + 1 \in 1 .. w /\ (i + 1) - 1 = i
    OBVIOUS
  <2>4. f[i + 1] = 2 * f[i] + BitAt(s, pos + (i + 1))
    BY <1>1, <2>3
  <2>5. BitAt(s, pos + (i + 1)) = (v \div p) % 2
    BY <2>3 DEF Carries
  <2>6. f[i] = v \div (2 * p)
    BY <1>3, <2>2
  <2> HIDE DEF p
  <2>7. v \div p = 2 * (v \div (2 * p)) + ((v \div p) % 2)
    BY <2>2, HalfOf
  <2> QED BY <2>4, <2>5, <2>6, <2>7 DEF p
<1>4. Nat \subseteq S
  <2> HIDE DEF S
  <2> QED BY <1>2, <1>3, Induction
<1>5. f[w] = v \div Pow2[w - w]
  BY <1>4
<1>6. Pow2[w - w] = 1 /\ v \div 1 = v
  BY Pow2Value
<1> QED BY <1>1, <1>5, <1>6

(***************************************************************************)
(* The code the table gives an event.                                      *)
(***************************************************************************)

(* The terms of the table, and its productions. *)
Term == {"SD", "SE", "EE", "AT", "CH", "NS", "SC", "ER", "CM", "PI", "DT", "ED"}
Prod == [term : Term, name : QName \union {None}]

(* Three levels of productions. *)
ThreeLevels(ls) == \A lv \in 1 .. 3 : ls[lv] \in Seq(Prod)

(* The place of an event is the first production of the levels that        *)
(* matches it.                                                             *)
LEMMA PlaceIsFirst ==
  ASSUME NEW ls, ThreeLevels(ls), NEW e, Doc!Places(ls, e) # {}
  PROVE  LET p == Doc!Place(ls, e)
         IN  /\ p[1] \in 1 .. 3
             /\ p[2] \in 1 .. Len(ls[p[1]])
             /\ Doc!Matches(ls[p[1]][p[2]], e)
             /\ \A lv \in 1 .. 3 : \A i \in 1 .. Len(ls[lv]) :
                  Doc!Matches(ls[lv][i], e) => p[1] < lv \/ (p[1] = lv /\ p[2] <= i)
<1> DEFINE P == Doc!Places(ls, e)
<1>0. \A lv \in 1 .. 3 : Len(ls[lv]) \in Nat
  BY DEF ThreeLevels
<1>1. \A p \in P : /\ p = << p[1], p[2] >> /\ p[1] \in 1 .. 3 /\ p[2] \in 1 .. Len(ls[p[1]])
                   /\ Doc!Matches(ls[p[1]][p[2]], e)
  BY DEF Doc!Places
<1>2. \A lv \in 1 .. 3 : \A i \in 1 .. Len(ls[lv]) :
        Doc!Matches(ls[lv][i], e) => << lv, i >> \in P
  BY DEF Doc!Places
<1> HIDE DEF P
<1> DEFINE Firsts == {p[1] : p \in P}
<1>3. PICK l \in Firsts : \A m \in Firsts : l <= m
  <2>1. Firsts \in SUBSET Nat /\ Firsts # {}
    BY <1>1 DEF P
  <2> HIDE DEF Firsts
  <2> QED BY <2>1, LeastNumber
<1> DEFINE Seconds == {p[2] : p \in {r \in P : r[1] = l}}
<1>4. PICK j \in Seconds : \A m \in Seconds : j <= m
  <2>1. Seconds \in SUBSET Nat /\ Seconds # {}
    BY <1>0, <1>1, <1>3
  <2> HIDE DEF Seconds
  <2> QED BY <2>1, LeastNumber
<1>5. PICK q \in P : q[1] = l /\ q[2] = j
  BY <1>4
<1>6. \A r \in P : q[1] < r[1] \/ (q[1] = r[1] /\ q[2] <= r[2])
  <2> SUFFICES ASSUME NEW r \in P PROVE q[1] < r[1] \/ (q[1] = r[1] /\ q[2] <= r[2])
    OBVIOUS
  <2>1. l <= r[1] /\ l \in Nat /\ r[1] \in Nat
    BY <1>1, <1>3, <1>5
  <2>2. CASE l = r[1]
    BY <2>2, <1>4, <1>5
  <2> QED BY <2>1, <2>2, <1>5
<1> DEFINE p == Doc!Place(ls, e)
<1>7. p \in P /\ \A r \in P : p[1] < r[1] \/ (p[1] = r[1] /\ p[2] <= r[2])
  BY <1>5, <1>6 DEF P, Doc!Place
<1> HIDE DEF p
<1>8. \A lv \in 1 .. 3 : \A i \in 1 .. Len(ls[lv]) :
        Doc!Matches(ls[lv][i], e) => p[1] < lv \/ (p[1] = lv /\ p[2] <= i)
  <2> SUFFICES ASSUME NEW lv \in 1 .. 3, NEW i \in 1 .. Len(ls[lv]), Doc!Matches(ls[lv][i], e)
               PROVE  p[1] < lv \/ (p[1] = lv /\ p[2] <= i)
    OBVIOUS
  <2> DEFINE r == << lv, i >>
  <2>1. r \in P /\ r[1] = lv /\ r[2] = i
    BY <1>2
  <2> QED BY <2>1, <1>7
<1> QED BY <1>1, <1>7, <1>8 DEF p

(* A level is followed by another: one more index, the escape. *)
Escapes(ls, lv) == IF \E k \in lv + 1 .. 3 : ls[k] # << >> THEN 1 ELSE 0

(* The width of a level has room for its productions and, where a later    *)
(* level exists, for the escape to it.                                     *)
LEMMA WidthFits ==
  ASSUME NEW ls, ThreeLevels(ls), NEW lv \in 1 .. 3
  PROVE  /\ Doc!Width(ls, lv) = CeilLog2(Len(ls[lv]) + Escapes(ls, lv))
         /\ Doc!Width(ls, lv) \in Nat
         /\ Len(ls[lv]) + Escapes(ls, lv) <= Pow2[Doc!Width(ls, lv)]
<1> DEFINE n == Len(ls[lv]) + Escapes(ls, lv)
<1>1. n \in Nat
  <2>1. Len(ls[lv]) \in Nat
    BY DEF ThreeLevels
  <2>2. Escapes(ls, lv) \in 0 .. 1
    BY DEF Escapes
  <2> QED BY <2>1, <2>2
<1>2. Doc!Width(ls, lv) = CeilLog2(n)
  BY DocLog2 DEF Doc!Width, Escapes
<1> HIDE DEF n
<1>3. CeilLog2(n) \in 0 .. n /\ Pow2[CeilLog2(n)] >= n
  BY <1>1, CeilLog2Value
<1>4. CeilLog2(n) \in Nat /\ Pow2[CeilLog2(n)] \in Nat
  BY <1>1, <1>3, Pow2Value
<1>5. n <= Pow2[CeilLog2(n)]
  BY <1>1, <1>3, <1>4
<1> QED BY <1>2, <1>4, <1>5 DEF n

(* Where a sequence put together of three holds what they hold. *)
ThreeParts(T, s, x, y, z) ==
  /\ s \in Seq(T) /\ Len(s) = Len(x) + Len(y) + Len(z)
  /\ \A i \in 1 .. Len(x) : s[i] = x[i]
  /\ \A i \in 1 .. Len(y) : s[Len(x) + i] = y[i]
  /\ \A i \in 1 .. Len(z) : s[Len(x) + Len(y) + i] = z[i]

(* What three sequences put together hold, and where. *)
LEMMA Concat3 ==
  ASSUME NEW T, NEW x \in Seq(T), NEW y \in Seq(T), NEW z \in Seq(T),
         NEW s, s = x \o y \o z
  PROVE  ThreeParts(T, s, x, y, z)
<1> DEFINE t == x \o y
<1>0. Len(x) \in Nat /\ Len(y) \in Nat /\ Len(z) \in Nat
  OBVIOUS
<1>1. /\ t \in Seq(T) /\ Len(t) = Len(x) + Len(y)
      /\ \A i \in 1 .. Len(x) + Len(y) :
           t[i] = IF i <= Len(x) THEN x[i] ELSE y[i - Len(x)]
  BY ConcatProperties
<1> HIDE DEF t
<1>2. /\ s \in Seq(T) /\ Len(s) = Len(t) + Len(z)
      /\ \A i \in 1 .. Len(t) + Len(z) :
           s[i] = IF i <= Len(t) THEN t[i] ELSE z[i - Len(t)]
  <2>1. t \in Seq(T) /\ z \in Seq(T) /\ s = t \o z
    BY <1>1 DEF t
  <2> QED BY ONLY <2>1, ConcatProperties
<1>3. \A i \in 1 .. Len(x) : s[i] = x[i]
  BY <1>0, <1>1, <1>2
<1>4. \A i \in 1 .. Len(y) : s[Len(x) + i] = y[i]
  BY <1>0, <1>1, <1>2
<1>5. ASSUME NEW i \in 1 .. Len(z) PROVE s[Len(x) + Len(y) + i] = z[i]
  <2>1. /\ Len(x) + Len(y) + i \in 1 .. Len(t) + Len(z)
        /\ ~ (Len(x) + Len(y) + i <= Len(t))
        /\ (Len(x) + Len(y) + i) - Len(t) = i
    BY <1>0, <1>1
  <2> QED BY <2>1, <1>2
<1> QED BY <1>0, <1>1, <1>2, <1>3, <1>4, <1>5 DEF ThreeParts

(* Bits(v, w) is w bits, the i-th of them the bit of v of weight 2 ^ (w -  *)
(* i).                                                                     *)
LEMMA BitsValue ==
  ASSUME NEW v \in Nat, NEW w \in Nat
  PROVE  /\ Doc!Bits(v, w) \in Seq(Nat) /\ Len(Doc!Bits(v, w)) = w
         /\ \A i \in 1 .. w : Doc!Bits(v, w)[i] = (v \div Pow2[w - i]) % 2
<1> DEFINE m == Doc!Bits(v, w)
<1>1. m = [i \in 1 .. w |-> (v \div Pow2[w - i]) % 2]
  BY DocLog2 DEF Doc!Bits
<1> HIDE DEF m
<1>2. \A i \in 1 .. w : (v \div Pow2[w - i]) % 2 \in Nat
  <2> TAKE i \in 1 .. w
  <2> DEFINE p == Pow2[w - i]
  <2>1. w - i \in Nat
    OBVIOUS
  <2>2. p \in Nat \ {0}
    BY <2>1, Pow2Value
  <2> HIDE DEF p
  <2>3. v \div p \in Nat
    BY <2>2
  <2>4. (v \div p) % 2 \in Nat
    BY <2>3
  <2> QED BY <2>4 DEF p
<1> QED BY <1>1, <1>2 DEF m

(* Three numbers, each at its place. *)
ThreeNumbers(s, v1, w1, v2, w2, v3, w3) ==
  /\ Len(s) = w1 + w2 + w3
  /\ Carries(s, 0, v1, w1) /\ Carries(s, w1, v2, w2) /\ Carries(s, w1 + w2, v3, w3)

(* Three numbers written one after another are each found at their place. *)
LEMMA BitsCarry ==
  ASSUME NEW v1 \in Nat, NEW w1 \in Nat, NEW v2 \in Nat, NEW w2 \in Nat,
         NEW v3 \in Nat, NEW w3 \in Nat,
         NEW s, s = Doc!Bits(v1, w1) \o Doc!Bits(v2, w2) \o Doc!Bits(v3, w3)
  PROVE  ThreeNumbers(s, v1, w1, v2, w2, v3, w3)
<1> DEFINE x == Doc!Bits(v1, w1)  y == Doc!Bits(v2, w2)  z == Doc!Bits(v3, w3)
<1>0. s = x \o y \o z
  OBVIOUS
<1>1. /\ x \in Seq(Nat) /\ Len(x) = w1
      /\ \A i \in 1 .. w1 : x[i] = (v1 \div Pow2[w1 - i]) % 2
  BY BitsValue
<1>2. /\ y \in Seq(Nat) /\ Len(y) = w2
      /\ \A i \in 1 .. w2 : y[i] = (v2 \div Pow2[w2 - i]) % 2
  BY BitsValue
<1>3. /\ z \in Seq(Nat) /\ Len(z) = w3
      /\ \A i \in 1 .. w3 : z[i] = (v3 \div Pow2[w3 - i]) % 2
  BY BitsValue
<1> HIDE DEF x, y, z
<1>4. /\ Len(s) = w1 + w2 + w3
      /\ \A i \in 1 .. w1 : s[i] = x[i]
      /\ \A i \in 1 .. w2 : s[w1 + i] = y[i]
      /\ \A i \in 1 .. w3 : s[w1 + w2 + i] = z[i]
  <2>1. x \in Seq(Nat) /\ y \in Seq(Nat) /\ z \in Seq(Nat) /\ s = x \o y \o z
    BY <1>0, <1>1, <1>2, <1>3
  <2>2. /\ Len(s) = Len(x) + Len(y) + Len(z)
        /\ \A i \in 1 .. Len(x) : s[i] = x[i]
        /\ \A i \in 1 .. Len(y) : s[Len(x) + i] = y[i]
        /\ \A i \in 1 .. Len(z) : s[Len(x) + Len(y) + i] = z[i]
    <3>1. ThreeParts(Nat, s, x, y, z)
      BY ONLY <2>1, Concat3
    <3> QED BY ONLY <3>1 DEF ThreeParts
  <2> QED BY <2>2, <1>1, <1>2, <1>3
<1>5. Carries(s, 0, v1, w1)
  <2> SUFFICES ASSUME NEW i \in 1 .. w1 PROVE BitAt(s, 0 + i) = (v1 \div Pow2[w1 - i]) % 2
    BY DEF Carries
  <2>1. 0 + i = i /\ i <= Len(s)
    BY <1>4
  <2> QED BY <2>1, <1>1, <1>4 DEF BitAt
<1>6. Carries(s, w1, v2, w2)
  <2> SUFFICES ASSUME NEW i \in 1 .. w2 PROVE BitAt(s, w1 + i) = (v2 \div Pow2[w2 - i]) % 2
    BY DEF Carries
  <2>1. w1 + i <= Len(s)
    BY <1>4
  <2> QED BY <2>1, <1>2, <1>4 DEF BitAt
<1>7. Carries(s, w1 + w2, v3, w3)
  <2> SUFFICES ASSUME NEW i \in 1 .. w3 PROVE BitAt(s, w1 + w2 + i) = (v3 \div Pow2[w3 - i]) % 2
    BY DEF Carries
  <2>1. w1 + w2 + i <= Len(s)
    BY <1>4
  <2> QED BY <2>1, <1>3, <1>4 DEF BitAt
<1> QED BY <1>4, <1>5, <1>6, <1>7 DEF ThreeNumbers

(* A level of no width adds nothing to a code. *)
LEMMA NoBits == Doc!Bits(0, 0) = << >>
<1>1. Doc!Bits(0, 0) \in Seq(Nat) /\ Len(Doc!Bits(0, 0)) = 0
  BY BitsValue
<1> QED BY <1>1, EmptySeq

(* What a reader finds in the code of the event at place p, level by level. *)
CodeOf(s, p, n1, n2, w1, w2, w3) ==
  /\ p[1] = 1 => Len(s) = w1 /\ Carries(s, 0, p[2] - 1, w1)
  /\ p[1] = 2 => /\ Len(s) = w1 + w2
                 /\ Carries(s, 0, n1, w1)
                 /\ Carries(s, w1, p[2] - 1, w2)
  /\ p[1] = 3 => /\ Len(s) = w1 + w2 + w3
                 /\ Carries(s, 0, n1, w1)
                 /\ Carries(s, w1, n2, w2)
                 /\ Carries(s, w1 + w2, p[2] - 1, w3)

(* The code of an event: an escape for every level before its own, then    *)
(* its index there, and nothing after.                                     *)
LEMMA CodeCarries ==
  ASSUME NEW ls, ThreeLevels(ls), NEW e, Doc!Places(ls, e) # {}
  PROVE  CodeOf(Doc!Code(ls, e), Doc!Place(ls, e), Len(ls[1]), Len(ls[2]),
                Doc!Width(ls, 1), Doc!Width(ls, 2), Doc!Width(ls, 3))
<1> DEFINE p == Doc!Place(ls, e)
           s == Doc!Code(ls, e)
           w1 == Doc!Width(ls, 1)  w2 == Doc!Width(ls, 2)  w3 == Doc!Width(ls, 3)
           n1 == Len(ls[1])  n2 == Len(ls[2])
           i == p[2] - 1
<1>1. w1 \in Nat /\ w2 \in Nat /\ w3 \in Nat
  BY WidthFits
<1>2. p[1] \in 1 .. 3 /\ i \in Nat
  <2>1. p[1] \in 1 .. 3 /\ p[2] \in 1 .. Len(ls[p[1]])
    BY PlaceIsFirst
  <2> QED BY <2>1
<1>3. n1 \in Nat /\ n2 \in Nat
  BY DEF ThreeLevels
<1>4. /\ p[1] = 1 => s = Doc!Bits(i, w1) \o << >> \o << >>
      /\ p[1] = 2 => s = Doc!Bits(n1, w1) \o Doc!Bits(i, w2) \o << >>
      /\ p[1] = 3 => s = Doc!Bits(n1, w1) \o Doc!Bits(n2, w2) \o Doc!Bits(i, w3)
  <2>1. CASE p[1] = 1
    BY <2>1 DEF Doc!Code
  <2>2. CASE p[1] = 2
    BY <2>2 DEF Doc!Code
  <2>3. CASE p[1] = 3
    BY <2>3 DEF Doc!Code
  <2> QED BY <1>2, <2>1, <2>2, <2>3
<1> HIDE DEF p, s, w1, w2, w3, n1, n2, i
<1>0. 0 \in Nat
  OBVIOUS
<1>5. CASE p[1] = 1
  <2>1. s = Doc!Bits(i, w1) \o Doc!Bits(0, 0) \o Doc!Bits(0, 0)
    BY <1>4, <1>5, NoBits
  <2>2. Len(s) = w1 + 0 + 0 /\ Carries(s, 0, i, w1)
    <3>1. ThreeNumbers(s, i, w1, 0, 0, 0, 0)
      BY ONLY <2>1, <1>0, <1>1, <1>2, BitsCarry
    <3> QED BY ONLY <3>1 DEF ThreeNumbers
  <2>3. CodeOf(s, p, n1, n2, w1, w2, w3)
    BY <2>2, <1>1, <1>5 DEF CodeOf, i
  <2> QED BY <2>3 DEF p, s, w1, w2, w3, n1, n2
<1>6. CASE p[1] = 2
  <2>1. s = Doc!Bits(n1, w1) \o Doc!Bits(i, w2) \o Doc!Bits(0, 0)
    BY <1>4, <1>6, NoBits
  <2>2. Len(s) = w1 + w2 + 0 /\ Carries(s, 0, n1, w1) /\ Carries(s, w1, i, w2)
    <3>1. ThreeNumbers(s, n1, w1, i, w2, 0, 0)
      BY ONLY <2>1, <1>0, <1>1, <1>2, <1>3, BitsCarry
    <3> QED BY ONLY <3>1 DEF ThreeNumbers
  <2>3. CodeOf(s, p, n1, n2, w1, w2, w3)
    BY <2>2, <1>1, <1>6 DEF CodeOf, i
  <2> QED BY <2>3 DEF p, s, w1, w2, w3, n1, n2
<1>7. CASE p[1] = 3
  <2>1. s = Doc!Bits(n1, w1) \o Doc!Bits(n2, w2) \o Doc!Bits(i, w3)
    BY <1>4, <1>7
  <2>2. /\ Len(s) = w1 + w2 + w3 /\ Carries(s, 0, n1, w1)
        /\ Carries(s, w1, n2, w2) /\ Carries(s, w1 + w2, i, w3)
    <3>1. ThreeNumbers(s, n1, w1, n2, w2, i, w3)
      BY ONLY <2>1, <1>1, <1>2, <1>3, BitsCarry
    <3> QED BY ONLY <3>1 DEF ThreeNumbers
  <2>3. CodeOf(s, p, n1, n2, w1, w2, w3)
    BY <2>2, <1>1, <1>7 DEF CodeOf, i
  <2> QED BY <2>3 DEF p, s, w1, w2, w3, n1, n2
<1> QED BY <1>2, <1>5, <1>6, <1>7 DEF p

(***************************************************************************)
(* Walking down the levels of a code.                                      *)
(***************************************************************************)

(* SmallLog2, the table the Builder looks widths up in, is the base 2      *)
(* logarithm for every count that the levels of the built-in schema can    *)
(* have.                                                                   *)
LEMMA SmallLog2IsLog2 == \A n \in 0 .. 9 : SmallLog2[n + 1] = CeilLog2(n)
<1>1. /\ SmallLog2[1] = 0 /\ SmallLog2[2] = 0 /\ SmallLog2[3] = 1 /\ SmallLog2[4] = 2
      /\ SmallLog2[5] = 2 /\ SmallLog2[6] = 3 /\ SmallLog2[7] = 3 /\ SmallLog2[8] = 3
      /\ SmallLog2[9] = 3 /\ SmallLog2[10] = 4
  BY DEF SmallLog2
<1> TAKE n \in 0 .. 9
<1>2. CASE n \in 0 .. 2
  BY <1>1, <1>2, SmallLogs
<1>3. CASE n \in 3 .. 4
  BY <1>1, <1>3, SmallLogs
<1>4. CASE n \in 5 .. 8
  BY <1>1, <1>4, SmallLogs
<1>5. CASE n = 9
  BY <1>1, <1>5, SmallLogs
<1> QED BY <1>2, <1>3, <1>4, <1>5

(* The state of decodeTerm's loop and its step at a level of n codes. *)
At(at, pos, stop) == [at |-> at, pos |-> pos, stop |-> stop]
Step(w, s, n) ==
  LET bits == SmallLog2[n + 1]
      data == readBits64(s, w.pos, bits)
  IN IF w.stop THEN w ELSE At(w.at + data, w.pos + bits, data # n - 1)

Walking(f, s, pos, start, at, C, m) ==
  f = [ix \in start .. m |-> IF ix = start THEN At(at, pos, FALSE)
                             ELSE Step(f[ix - 1], s, C.Data[ix])]

(* decodeTerm's loop over the levels can be unrolled to any length. *)
LEMMA WalkingExists ==
  ASSUME NEW s, NEW pos, NEW start \in Nat, NEW at, NEW C
  PROVE  \A m \in Nat : \E f : Walking(f, s, pos, start, at, C, m)
<1> DEFINE S == {m \in Nat : \E f : Walking(f, s, pos, start, at, C, m)}
<1>1. 0 \in S
  <2>1. Walking([ix \in start .. 0 |-> At(at, pos, FALSE)], s, pos, start, at, C, 0)
    <3>1. \A ix \in start .. 0 : ix = start
      OBVIOUS
    <3> QED BY <3>1 DEF Walking
  <2> QED BY <2>1
<1>2. ASSUME NEW m \in Nat, m \in S PROVE m + 1 \in S
  <2>1. PICK f : Walking(f, s, pos, start, at, C, m)
    BY <1>2
  <2> DEFINE g == [ix \in start .. m + 1 |->
                     IF ix = start THEN At(at, pos, FALSE)
                     ELSE IF ix <= m THEN f[ix] ELSE Step(f[m], s, C.Data[m + 1])]
  <2>2. Walking(g, s, pos, start, at, C, m + 1)
    <3>1. ASSUME NEW ix \in start .. m + 1
          PROVE  g[ix] = IF ix = start THEN At(at, pos, FALSE)
                         ELSE Step(g[ix - 1], s, C.Data[ix])
      <4>1. CASE ix = start
        BY <4>1
      <4>2. CASE ix # start /\ ix <= m
        <5>1. ix \in start .. m /\ ix - 1 \in start .. m /\ ix - 1 \in start .. m + 1
          BY <4>2
        <5>2. f[ix] = Step(f[ix - 1], s, C.Data[ix])
          BY <2>1, <4>2, <5>1 DEF Walking
        <5>3. g[ix] = f[ix]
          BY <4>2
        <5>4. g[ix - 1] = f[ix - 1]
          BY <2>1, <5>1 DEF Walking
        <5> QED BY <4>2, <5>2, <5>3, <5>4
      <4>3. CASE ix # start /\ ~ (ix <= m)
        <5>1. ix = m + 1 /\ m \in start .. m /\ m \in start .. m + 1 /\ ix - 1 = m
          BY <4>3
        <5>2. g[ix] = Step(f[m], s, C.Data[ix])
          BY <4>3, <5>1
        <5>3. g[m] = f[m]
          BY <2>1, <5>1 DEF Walking
        <5> QED BY <4>3, <5>1, <5>2, <5>3
      <4> QED BY <4>1, <4>2, <4>3
    <3>2. DOMAIN g = start .. m + 1 /\ g = [ix \in start .. m + 1 |-> g[ix]]
      OBVIOUS
    <3> HIDE DEF g
    <3> QED BY <3>1, <3>2 DEF Walking
  <2> HIDE DEF g
  <2> QED BY <2>2
<1> HIDE DEF S
<1>3. Nat \subseteq S
  BY <1>1, <1>2, Induction
<1> QED BY <1>3 DEF S

(* f is DecodeLevels, level by level. *)
Walks(f, s, pos, start, at) ==
  /\ DecodeLevels(s, pos, start, at) = f[Info[Current].Length]
  /\ f[start] = At(at, pos, FALSE)
  /\ \A ix \in start + 1 .. Info[Current].Length :
       f[ix] = Step(f[ix - 1], s, Info[Current].Data[ix])

(* DecodeLevels is such an unrolled loop: it starts at the level given     *)
(* and takes one step per level.                                           *)
LEMMA DecodeLevelsDef ==
  ASSUME NEW s, NEW pos, NEW start \in Nat, NEW at,
         Info[Current].Length \in Nat, start <= Info[Current].Length
  PROVE  \E f : Walks(f, s, pos, start, at)
<1> DEFINE C == Info[Current]
           L == C.Length
           f == CHOOSE f : Walking(f, s, pos, start, at, C, L)
<1>1. Walking(f, s, pos, start, at, C, L)
  BY WalkingExists
<1>2. DecodeLevels(s, pos, start, at) = f[L]
  BY DEF DecodeLevels, Walking, Step, At
<1> HIDE DEF f
<1>3. f[start] = At(at, pos, FALSE)
  <2>1. start \in start .. L
    OBVIOUS
  <2> QED BY <1>1, <2>1 DEF Walking
<1>4. ASSUME NEW ix \in start + 1 .. L PROVE f[ix] = Step(f[ix - 1], s, C.Data[ix])
  <2>1. ix \in start .. L /\ ix # start
    OBVIOUS
  <2> QED BY <1>1, <2>1 DEF Walking
<1>5. Walks(f, s, pos, start, at)
  BY <1>2, <1>3, <1>4 DEF Walks
<1> QED BY <1>5

(* A step reads the index v on a level of n alternatives. *)
Reads(s, at, pos, n, v) ==
  Step(At(at, pos, FALSE), s, n) = At(at + v, pos + CeilLog2(n), v # n - 1)

(* A step of the loop that reads index v at a level of n codes advances    *)
(* by v and by the width of the level, and goes on only when v is the      *)
(* escape.                                                                 *)
LEMMA StepReads ==
  ASSUME NEW s, NEW at \in Nat, NEW pos \in Nat, NEW n \in 1 .. 9, NEW v \in Nat,
         v < n, Carries(s, pos, v, CeilLog2(n))
  PROVE  Reads(s, at, pos, n, v)
<1>1. SmallLog2[n + 1] = CeilLog2(n)
  BY SmallLog2IsLog2
<1>2. CeilLog2(n) \in Nat /\ Pow2[CeilLog2(n)] >= n /\ Pow2[CeilLog2(n)] \in Nat
  BY CeilLog2Value, Pow2Value
<1>3. v < Pow2[CeilLog2(n)]
  BY <1>2
<1>4. readBits64(s, pos, CeilLog2(n)) = v
  BY <1>2, <1>3, ReadBack
<1> QED BY <1>1, <1>4 DEF Reads, Step, At

(* Once a level was no escape, the loop reads nothing more. *)
LEMMA StepStops ==
  ASSUME NEW s, NEW at, NEW pos, NEW n
  PROVE  Step(At(at, pos, TRUE), s, n) = At(at, pos, TRUE)
BY DEF Step, At

(***************************************************************************)
(* The Builder's tables.                                                   *)
(***************************************************************************)

(* The lists the Builder makes its grammars from. *)
ContentTerms == << "SE", "CH" >> \o If("DTD", "ER")
StartTerms == << "EE", "AT" >> \o If("NS", "NS") \o If("SC", "SC") \o ContentTerms

(* The terms of each state, level by level, without what was learned. *)
LevelTerms ==
  [DocContent |-> << << "SE" >>, If("DTD", "DT"), CMPITerms >>,
   DocEnd |-> << << "ED" >>, CMPITerms, << >> >>,
   StartTagContent |-> << << >>, StartTerms, CMPITerms >>,
   ElementContent |-> << << "EE" >>, ContentTerms, CMPITerms >>]

(* The states whose events have codes. *)
Coded == {"DocContent", "DocEnd", "StartTagContent", "ElementContent"}

(* An optional term is there once or not at all. *)
LEMMA IfTerms ==
  ASSUME NEW o, NEW t \in Term
  PROVE  If(o, t) \in Seq(Term) /\ Len(If(o, t)) = One(o) /\ One(o) \in 0 .. 1
<1> HIDE DEF Term
<1> QED BY DEF If, One

(* The pieces the Builder puts its lists together from are sequences of    *)
(* terms.                                                                  *)
LEMMA SomeTerms ==
  /\ If("CM", "CM") \in Seq(Term) /\ If("PI", "PI") \in Seq(Term)
  /\ If("DTD", "DT") \in Seq(Term) /\ If("DTD", "ER") \in Seq(Term)
  /\ If("NS", "NS") \in Seq(Term) /\ If("SC", "SC") \in Seq(Term)
  /\ << "SE" >> \in Seq(Term) /\ << "ED" >> \in Seq(Term) /\ << "EE" >> \in Seq(Term)
  /\ << "SE", "CH" >> \in Seq(Term) /\ << "EE", "AT" >> \in Seq(Term)
<1>1. /\ "SE" \in Term /\ "ED" \in Term /\ "EE" \in Term /\ "CH" \in Term /\ "AT" \in Term
      /\ "CM" \in Term /\ "PI" \in Term /\ "DT" \in Term /\ "ER" \in Term
      /\ "NS" \in Term /\ "SC" \in Term
  BY DEF Term
<1> QED BY ONLY <1>1, IfTerms

(* How many terms each of those pieces has. *)
LEMMA SomeLengths ==
  /\ \A o, t : Len(If(o, t)) = One(o)
  /\ \A o : One(o) \in 0 .. 1
  /\ Len(<< "SE" >>) = 1 /\ Len(<< "ED" >>) = 1 /\ Len(<< "EE" >>) = 1
  /\ Len(<< "SE", "CH" >>) = 2 /\ Len(<< "EE", "AT" >>) = 2
BY DEF If, One

(* CM and PI, where preserved: as many as NumCMPI counts. *)
LEMMA CMPITermsType ==
  CMPITerms \in Seq(Term) /\ Len(CMPITerms) = NumCMPI /\ NumCMPI \in 0 .. 2
<1>1. CMPITerms \in Seq(Term) /\ Len(CMPITerms) = Len(If("CM", "CM")) + Len(If("PI", "PI"))
  BY SomeTerms, ConcatProperties DEF CMPITerms
<1> QED BY <1>1, SomeLengths DEF NumCMPI

(* SE and CH, and ER where DTDs are preserved. *)
LEMMA ContentTermsType ==
  /\ ContentTerms \in Seq(Term) /\ Len(ContentTerms) = 2 + One("DTD")
  /\ One("DTD") \in 0 .. 1
<1>1. /\ ContentTerms \in Seq(Term)
      /\ Len(ContentTerms) = Len(<< "SE", "CH" >>) + Len(If("DTD", "ER"))
  BY ONLY SomeTerms, ConcatProperties DEF ContentTerms
<1> QED BY <1>1, SomeLengths

StartHead == << "EE", "AT" >> \o If("NS", "NS") \o If("SC", "SC")

(* EE and AT, and NS and SC where they are preserved. *)
LEMMA StartHeadType ==
  /\ StartHead \in Seq(Term) /\ Len(StartHead) = 2 + One("NS") + One("SC")
  /\ Len(StartHead) \in 2 .. 4
<1>1. /\ StartHead \in Seq(Term)
      /\ Len(StartHead) = Len(<< "EE", "AT" >>) + Len(If("NS", "NS")) + Len(If("SC", "SC"))
  BY ONLY SomeTerms, Concat3 DEF StartHead, ThreeParts
<1> QED BY <1>1, SomeLengths

(* The second level of a start tag. *)
LEMMA StartTermsType ==
  /\ StartTerms \in Seq(Term)
  /\ Len(StartTerms) = 4 + One("NS") + One("SC") + One("DTD")
  /\ One("NS") \in 0 .. 1 /\ One("SC") \in 0 .. 1
<1>1. StartTerms = StartHead \o ContentTerms
  BY DEF StartTerms, StartHead
<1>2. One("NS") \in 0 .. 1 /\ One("SC") \in 0 .. 1
  BY DEF One
<1>3. StartTerms \in Seq(Term) /\ Len(StartTerms) = Len(StartHead) + Len(ContentTerms)
  BY ONLY <1>1, StartHeadType, ContentTermsType, ConcatProperties
<1> QED BY <1>2, <1>3, StartHeadType, ContentTermsType

(* Every level of every coded state is a sequence of terms. *)
LEMMA LevelTermsType ==
  ASSUME NEW c \in Coded
  PROVE  \A lv \in 1 .. 3 : LevelTerms[c][lv] \in Seq(Term)
<1> HIDE DEF Term
<1>1. << >> \in Seq(Term)
  OBVIOUS
<1>2. TAKE lv \in 1 .. 3
<1>3. /\ LevelTerms.DocContent[lv] \in Seq(Term) /\ LevelTerms.DocEnd[lv] \in Seq(Term)
      /\ LevelTerms.StartTagContent[lv] \in Seq(Term)
      /\ LevelTerms.ElementContent[lv] \in Seq(Term)
  <2>1. CASE lv = 1
    BY <2>1, <1>1, SomeTerms DEF LevelTerms
  <2>2. CASE lv = 2
    BY <2>2, SomeTerms, CMPITermsType, ContentTermsType, StartTermsType DEF LevelTerms
  <2>3. CASE lv = 3
    BY <2>3, <1>1, CMPITermsType DEF LevelTerms
  <2> QED BY <2>1, <2>2, <2>3
<1> QED BY <1>3 DEF Coded

(* Concatenation is associative. *)
LEMMA ConcatGroups ==
  ASSUME NEW x \in Seq(Term), NEW y \in Seq(Term), NEW z \in Seq(Term)
  PROVE  x \o (y \o z) = (x \o y) \o z
<1> HIDE DEF Term
<1> QED BY ConcatAssociative

(* The flat list of the terms of a state. *)
LEMMA GrammarTermsByLevel ==
  ASSUME NEW c \in Coded
  PROVE  GrammarTerms[c] = LevelTerms[c][1] \o LevelTerms[c][2] \o LevelTerms[c][3]
<1>1. CCTerms = ContentTerms \o CMPITerms
  BY DEF CCTerms, ContentTerms
<1>2. CASE c = "DocContent"
  BY <1>2 DEF GrammarTerms, LevelTerms
<1>3. CASE c = "DocEnd"
  <2>1. << "ED" >> \o CMPITerms \in Seq(Term)
    BY ONLY CMPITermsType, SomeTerms, ConcatProperties
  <2>2. (<< "ED" >> \o CMPITerms) \o << >> = << "ED" >> \o CMPITerms
    BY <2>1, ConcatEmptySeq
  <2> QED BY <1>3, <2>2 DEF GrammarTerms, LevelTerms
<1>4. CASE c = "StartTagContent"
  <2>1. GrammarTerms[c] = StartHead \o (ContentTerms \o CMPITerms)
    BY <1>1, <1>4 DEF GrammarTerms, StartHead
  <2>2. StartHead \o (ContentTerms \o CMPITerms) = (StartHead \o ContentTerms) \o CMPITerms
    BY ONLY StartHeadType, ContentTermsType, CMPITermsType, ConcatGroups
  <2>3. << >> \o StartTerms = StartTerms /\ StartHead \o ContentTerms = StartTerms
    BY StartTermsType, ConcatEmptySeq DEF StartHead, StartTerms
  <2> QED BY <1>4, <2>1, <2>2, <2>3 DEF LevelTerms
<1>5. CASE c = "ElementContent"
  <2> DEFINE x == << "EE" >>
  <2>1. x \o (ContentTerms \o CMPITerms) = (x \o ContentTerms) \o CMPITerms
    <3>1. x \in Seq(Term)
      BY SomeTerms
    <3> HIDE DEF x
    <3> QED BY ONLY <3>1, ContentTermsType, CMPITermsType, ConcatGroups
  <2> QED BY <1>1, <1>5, <2>1 DEF GrammarTerms, LevelTerms
<1> QED BY <1>2, <1>3, <1>4, <1>5 DEF Coded

(* Where a sequence put together of four holds what they hold. *)
FourParts(s, a, b, c, d) ==
  /\ \A i \in 1 .. Len(a) : s[i] = a[i]
  /\ \A i \in 1 .. Len(b) : s[Len(a) + i] = b[i]
  /\ \A i \in 1 .. Len(c) : s[Len(a) + Len(b) + i] = c[i]
  /\ \A i \in 1 .. Len(d) : s[Len(a) + Len(b) + Len(c) + i] = d[i]

(* What four sequences put together hold, and where. *)
LEMMA Concat4 ==
  ASSUME NEW a \in Seq(Term), NEW b \in Seq(Term), NEW c \in Seq(Term), NEW d \in Seq(Term),
         NEW s, s = a \o b \o c \o d
  PROVE  FourParts(s, a, b, c, d)
<1> HIDE DEF Term
<1> DEFINE t == a \o b \o c
<1>0. Len(a) \in Nat /\ Len(b) \in Nat /\ Len(c) \in Nat /\ Len(d) \in Nat
  OBVIOUS
<1>1. /\ t \in Seq(Term) /\ Len(t) = Len(a) + Len(b) + Len(c)
      /\ \A i \in 1 .. Len(a) : t[i] = a[i]
      /\ \A i \in 1 .. Len(b) : t[Len(a) + i] = b[i]
      /\ \A i \in 1 .. Len(c) : t[Len(a) + Len(b) + i] = c[i]
  BY Concat3 DEF ThreeParts
<1> HIDE DEF t
<1>2. \A i \in 1 .. Len(t) + Len(d) : s[i] = IF i <= Len(t) THEN t[i] ELSE d[i - Len(t)]
  <2>1. t \in Seq(Term) /\ s = t \o d
    BY <1>1 DEF t
  <2> QED BY ONLY <2>1, d \in Seq(Term), ConcatProperties
<1>3. \A i \in 1 .. Len(t) : s[i] = t[i]
  <2> TAKE i \in 1 .. Len(t)
  <2>1. i \in 1 .. Len(t) + Len(d) /\ i <= Len(t)
    BY <1>0, <1>1
  <2> QED BY <2>1, <1>2
<1>4. \A i \in 1 .. Len(a) : s[i] = a[i]
  BY <1>0, <1>1, <1>3
<1>5. \A i \in 1 .. Len(b) : s[Len(a) + i] = b[i]
  <2> TAKE i \in 1 .. Len(b)
  <2>1. Len(a) + i \in 1 .. Len(t)
    BY <1>0, <1>1
  <2> QED BY <2>1, <1>1, <1>3
<1>6. \A i \in 1 .. Len(c) : s[Len(a) + Len(b) + i] = c[i]
  <2> TAKE i \in 1 .. Len(c)
  <2>1. Len(a) + Len(b) + i \in 1 .. Len(t)
    BY <1>0, <1>1
  <2> QED BY <2>1, <1>1, <1>3
<1>7. \A i \in 1 .. Len(d) : s[Len(a) + Len(b) + Len(c) + i] = d[i]
  <2> TAKE i \in 1 .. Len(d)
  <2>1. Len(t) + i \in 1 .. Len(t) + Len(d) /\ ~ (Len(t) + i <= Len(t)) /\ (Len(t) + i) - Len(t) = i
    BY <1>0, <1>1
  <2>2. Len(a) + Len(b) + Len(c) + i = Len(t) + i
    BY <1>1
  <2> QED BY <2>1, <2>2, <1>2
<1> QED BY <1>4, <1>5, <1>6, <1>7 DEF FourParts

(* The Builder's list of each grammar is a sequence of terms. *)
LEMMA GrammarTermsType ==
  ASSUME NEW c \in Coded
  PROVE  GrammarTerms[c] \in Seq(Term)
<1> DEFINE x == LevelTerms[c][1]  y == LevelTerms[c][2]  z == LevelTerms[c][3]
<1>1. x \in Seq(Term) /\ y \in Seq(Term) /\ z \in Seq(Term)
  BY LevelTermsType
<1>2. GrammarTerms[c] = x \o y \o z
  BY GrammarTermsByLevel
<1> HIDE DEF x, y, z
<1> QED BY ONLY <1>1, <1>2, Concat3 DEF ThreeParts

(* The offsets are right: a grammar finds its own terms.                   *)
LEMMA createDecodedTermIs ==
  ASSUME Current \in Coded, NEW i \in 1 .. Len(GrammarTerms[Current])
  PROVE  createDecodedTerm(i - 1) = GrammarTerms[Current][i]
<1> DEFINE a == GrammarTerms.DocContent       b == GrammarTerms.DocEnd
           c == GrammarTerms.StartTagContent  d == GrammarTerms.ElementContent
           s == AllTerms
<1>1. a \in Seq(Term) /\ b \in Seq(Term) /\ c \in Seq(Term) /\ d \in Seq(Term)
  BY GrammarTermsType DEF Coded
<1>2. s = a \o b \o c \o d
  BY DEF AllTerms
<1>3. /\ Offset.DocContent = 0
      /\ Offset.DocEnd = Len(a)
      /\ Offset.StartTagContent = Len(a) + Len(b)
      /\ Offset.ElementContent = Len(a) + Len(b) + Len(c)
  BY DEF Offset
<1> HIDE DEF a, b, c, d, s
<1>4. /\ \A j \in 1 .. Len(a) : s[j] = a[j]
      /\ \A j \in 1 .. Len(b) : s[Len(a) + j] = b[j]
      /\ \A j \in 1 .. Len(c) : s[Len(a) + Len(b) + j] = c[j]
      /\ \A j \in 1 .. Len(d) : s[Len(a) + Len(b) + Len(c) + j] = d[j]
  <2>1. FourParts(s, a, b, c, d)
    BY ONLY <1>1, <1>2, Concat4
  <2> QED BY ONLY <2>1 DEF FourParts
<1>5. Len(a) \in Nat /\ Len(b) \in Nat /\ Len(c) \in Nat /\ Len(d) \in Nat
  <2> HIDE DEF Term
  <2> QED BY <1>1
<1>6. createDecodedTerm(i - 1) = s[Offset[Current] + i]
  <2>1. i \in Int /\ Offset[Current] \in Nat
    BY <1>3, <1>5 DEF Coded
  <2>2. Offset[Current] + (i - 1) + 1 = Offset[Current] + i
    BY <2>1
  <2> QED BY <2>2 DEF createDecodedTerm, s
<1>7. CASE Current = "DocContent"
  <2>1. Offset[Current] + i = i
    BY <1>3, <1>7
  <2> QED BY <2>1, <1>4, <1>6, <1>7 DEF a
<1>8. CASE Current = "DocEnd"
  BY <1>3, <1>4, <1>6, <1>8 DEF b
<1>9. CASE Current = "StartTagContent"
  BY <1>3, <1>4, <1>6, <1>9 DEF c
<1>10. CASE Current = "ElementContent"
  BY <1>3, <1>4, <1>6, <1>10 DEF d
<1> QED BY <1>7, <1>8, <1>9, <1>10 DEF Coded

(* The productions of the levels before lv. *)
Before(c, lv) ==
  IF lv = 1 THEN 0
  ELSE IF lv = 2 THEN Len(LevelTerms[c][1])
  ELSE Len(LevelTerms[c][1]) + Len(LevelTerms[c][2])

(* createDecodedTerm, at the index of a code counted over all levels,      *)
(* finds the term of that code: the offsets of the Builder are right.      *)
LEMMA DecodedTermByLevel ==
  ASSUME Current \in Coded, NEW lv \in 1 .. 3, NEW i \in 1 .. Len(LevelTerms[Current][lv])
  PROVE  createDecodedTerm(Before(Current, lv) + (i - 1)) = LevelTerms[Current][lv][i]
<1> DEFINE x == LevelTerms[Current][1]  y == LevelTerms[Current][2]  z == LevelTerms[Current][3]
           g == GrammarTerms[Current]
<1>1. x \in Seq(Term) /\ y \in Seq(Term) /\ z \in Seq(Term)
  BY LevelTermsType
<1>2. g = x \o y \o z
  BY GrammarTermsByLevel
<1>3. \A j \in 1 .. Len(g) : createDecodedTerm(j - 1) = g[j]
  BY createDecodedTermIs
<1> HIDE DEF g, x, y, z
<1>7. /\ Len(g) = Len(x) + Len(y) + Len(z)
      /\ \A j \in 1 .. Len(x) : g[j] = x[j]
      /\ \A j \in 1 .. Len(y) : g[Len(x) + j] = y[j]
      /\ \A j \in 1 .. Len(z) : g[Len(x) + Len(y) + j] = z[j]
  <2>1. ThreeParts(Term, g, x, y, z)
    BY ONLY <1>1, <1>2, Concat3
  <2> QED BY ONLY <2>1 DEF ThreeParts
<1>8. Len(x) \in Nat /\ Len(y) \in Nat /\ Len(z) \in Nat
  BY ONLY <1>1, LenProperties
<1>4. CASE lv = 1
  <2>1. i \in 1 .. Len(x) /\ Before(Current, lv) = 0
    BY <1>4 DEF Before, x
  <2>2. g[i] = x[i]
    BY <1>7, <2>1
  <2>3. i \in 1 .. Len(g) /\ 0 + (i - 1) = i - 1
    BY <2>1, <1>7, <1>8
  <2>4. createDecodedTerm(0 + (i - 1)) = x[i]
    BY <1>3, <2>2, <2>3
  <2> QED BY <1>4, <2>1, <2>4 DEF x
<1>5. CASE lv = 2
  <2>1. i \in 1 .. Len(y) /\ Before(Current, lv) = Len(x)
    BY <1>5 DEF Before, x, y
  <2>2. g[Len(x) + i] = y[i]
    BY <1>7, <2>1
  <2>3. Len(x) + i \in 1 .. Len(g) /\ Len(x) + (i - 1) = (Len(x) + i) - 1
    BY <2>1, <1>7, <1>8
  <2>4. createDecodedTerm(Len(x) + (i - 1)) = y[i]
    BY <1>3, <2>2, <2>3
  <2> QED BY <1>5, <2>1, <2>4 DEF y
<1>6. CASE lv = 3
  <2>1. i \in 1 .. Len(z) /\ Before(Current, lv) = Len(x) + Len(y)
    BY <1>6 DEF Before, x, y, z
  <2>2. g[Len(x) + Len(y) + i] = z[i]
    BY <1>7, <2>1
  <2>3. /\ Len(x) + Len(y) + i \in 1 .. Len(g)
        /\ Len(x) + Len(y) + (i - 1) = (Len(x) + Len(y) + i) - 1
    BY <2>1, <1>7, <1>8
  <2>4. createDecodedTerm(Len(x) + Len(y) + (i - 1)) = z[i]
    BY <1>3, <2>2, <2>3
  <2> QED BY <1>6, <2>1, <2>4 DEF z
<1> QED BY <1>4, <1>5, <1>6

(***************************************************************************)
(* The Builder's codes: how many alternatives each level has.              *)
(***************************************************************************)

(* The counts of the three levels. *)
Counts(x, y, z, l) == [Data |-> << x, y, z >>, Length |-> l]

(* Inc adds to the count of the level it is at: the first, *)
LEMMA IncFirst ==
  ASSUME NEW x \in Nat, NEW y \in Nat, NEW z \in Nat, NEW n \in Nat, NEW m, m = x + n
  PROVE  Inc(Counts(x, y, z, 1), n) = Counts(m, y, z, 1)
BY DEF Inc, Counts

(* the second, *)
LEMMA IncSecond ==
  ASSUME NEW x \in Nat, NEW y \in Nat, NEW z \in Nat, NEW n \in Nat, NEW m, m = y + n
  PROVE  Inc(Counts(x, y, z, 2), n) = Counts(x, m, z, 2)
BY DEF Inc, Counts

(* and the third. *)
LEMMA IncThird ==
  ASSUME NEW x \in Nat, NEW y \in Nat, NEW z \in Nat, NEW n \in Nat, NEW m, m = z + n
  PROVE  Inc(Counts(x, y, z, 3), n) = Counts(x, y, m, 3)
BY DEF Inc, Counts

(* NextLevel and a reset of Length move between the levels and leave the   *)
(* counts alone.                                                           *)
LEMMA NextLevelIs ==
  ASSUME NEW x \in Nat, NEW y \in Nat, NEW z \in Nat
  PROVE  /\ NextLevel(Counts(x, y, z, 1)) = Counts(x, y, z, 2)
         /\ NextLevel(Counts(x, y, z, 2)) = Counts(x, y, z, 3)
         /\ [Counts(x, y, z, 1) EXCEPT !.Length = 2] = Counts(x, y, z, 2)
         /\ [Counts(x, y, z, 2) EXCEPT !.Length = 2] = Counts(x, y, z, 2)
BY DEF NextLevel, Counts

(* IncNext adds the escape of a level before it moves on. *)
LEMMA IncNextIs ==
  ASSUME NEW x \in Nat, NEW y \in Nat, NEW z \in Nat
  PROVE  /\ IncNext(Counts(x, y, z, 1)) = Counts(x + 1, y, z, 2)
         /\ IncNext(Counts(x, y, z, 2)) = Counts(x, y + 1, z, 3)
<1>1. x + 1 \in Nat /\ y + 1 \in Nat
  OBVIOUS
<1>2. Inc(Counts(x, y, z, 1), 1) = Counts(x + 1, y, z, 1)
  BY IncFirst
<1>3. Inc(Counts(x, y, z, 2), 1) = Counts(x, y + 1, z, 2)
  BY IncSecond
<1> QED BY <1>1, <1>2, <1>3, NextLevelIs DEF IncNext

(* CalculateLog drops a last level that is empty and keeps all others. *)
LEMMA PrunedIs ==
  ASSUME NEW x \in Nat, NEW y \in Nat, NEW z \in Nat
  PROVE  /\ Pruned(Counts(x, 0, z, 1)) = Counts(x, 0, z, 1)
         /\ y # 0 => Pruned(Counts(x, y, z, 2)) = Counts(x, y, z, 2)
         /\ y # 0 /\ z # 0 => Pruned(Counts(x, y, z, 3)) = Counts(x, y, z, 3)
BY DEF Pruned, Counts

(* addCMPI adds an escape and a level of CM and PI, or nothing when        *)
(* neither is preserved.                                                   *)
LEMMA addCMPIIs ==
  ASSUME NEW x \in Nat, NEW y \in Nat
  PROVE  /\ addCMPI(Counts(x, 0, 0, 1)) = IF NumCMPI = 0 THEN Counts(x, 0, 0, 1)
                                          ELSE Counts(x + 1, NumCMPI, 0, 2)
         /\ addCMPI(Counts(x, y, 0, 2)) = IF NumCMPI = 0 THEN Counts(x, y, 0, 2)
                                          ELSE Counts(x, y + 1, NumCMPI, 3)
<1>1. NumCMPI \in Nat
  BY CMPITermsType
<1>2. Inc(Counts(x + 1, 0, 0, 2), NumCMPI) = Counts(x + 1, NumCMPI, 0, 2)
  <2>1. 0 + NumCMPI = NumCMPI /\ x + 1 \in Nat
    BY <1>1
  <2> QED BY <1>1, <2>1, IncSecond
<1>3. Inc(Counts(x, y + 1, 0, 3), NumCMPI) = Counts(x, y + 1, NumCMPI, 3)
  <2>1. 0 + NumCMPI = NumCMPI /\ y + 1 \in Nat
    BY <1>1
  <2> QED BY <1>1, <2>1, IncThird
<1>4. IncNext(Counts(x, 0, 0, 1)) = Counts(x + 1, 0, 0, 2)
      /\ IncNext(Counts(x, y, 0, 2)) = Counts(x, y + 1, 0, 3)
  BY IncNextIs
<1> QED BY <1>2, <1>3, <1>4 DEF addCMPI

(* The counts the Builder arrives at for each of the four grammars and     *)
(* every set of options.                                                   *)
LEMMA InfoIs ==
  /\ Info.DocContent = IF "DTD" \in Preserve
                       THEN IF NumCMPI = 0 THEN Counts(2, 1, 0, 2)
                            ELSE Counts(2, 2, NumCMPI, 3)
                       ELSE IF NumCMPI = 0 THEN Counts(1, 0, 0, 1)
                            ELSE Counts(2, NumCMPI, 0, 2)
  /\ Info.DocEnd = IF NumCMPI = 0 THEN Counts(1, 0, 0, 1) ELSE Counts(2, NumCMPI, 0, 2)
  /\ Info.StartTagContent =
       LET m == 4 + One("NS") + One("SC") + One("DTD")
       IN IF NumCMPI = 0 THEN Counts(0, m, 0, 2) ELSE Counts(0, m + 1, NumCMPI, 3)
  /\ Info.ElementContent =
       LET m == 2 + One("DTD")
       IN IF NumCMPI = 0 THEN Counts(2, m, 0, 2) ELSE Counts(2, m + 1, NumCMPI, 3)
<1> DEFINE k == NumCMPI
<1>0. k \in Nat
  BY CMPITermsType
<1>1. EmptyCode = Counts(0, 0, 0, 1)
  BY DEF EmptyCode, Counts
<1>2. Inc(EmptyCode, 1) = Counts(1, 0, 0, 1) /\ Inc(EmptyCode, 2) = Counts(2, 0, 0, 1)
      /\ NextLevel(EmptyCode) = Counts(0, 0, 0, 2)
  <2>1. 0 + 1 = 1 /\ 0 + 2 = 2
    OBVIOUS
  <2> QED BY <1>1, <2>1, IncFirst, NextLevelIs
<1>3. Inc(IncNext(Counts(1, 0, 0, 1)), 1) = Counts(2, 1, 0, 2)
  <2>1. IncNext(Counts(1, 0, 0, 1)) = Counts(2, 0, 0, 2)
    BY IncNextIs
  <2> QED BY <2>1, IncSecond
<1>4. Info.DocContent =
        Pruned(addCMPI(IF "DTD" \in Preserve THEN Counts(2, 1, 0, 2) ELSE Counts(1, 0, 0, 1)))
  BY <1>2, <1>3 DEF Info
<1>5. /\ addCMPI(Counts(2, 1, 0, 2)) = IF k = 0 THEN Counts(2, 1, 0, 2) ELSE Counts(2, 2, k, 3)
      /\ addCMPI(Counts(1, 0, 0, 1)) = IF k = 0 THEN Counts(1, 0, 0, 1) ELSE Counts(2, k, 0, 2)
  <2>1. 1 + 1 = 2
    OBVIOUS
  <2> QED BY <2>1, addCMPIIs
<1>6. /\ Pruned(Counts(2, 1, 0, 2)) = Counts(2, 1, 0, 2)
      /\ Pruned(Counts(1, 0, 0, 1)) = Counts(1, 0, 0, 1)
      /\ k # 0 => /\ Pruned(Counts(2, 2, k, 3)) = Counts(2, 2, k, 3)
                  /\ Pruned(Counts(2, k, 0, 2)) = Counts(2, k, 0, 2)
  BY <1>0, PrunedIs
<1>7. Info.DocEnd = Pruned(addCMPI(Counts(1, 0, 0, 1)))
  BY <1>2 DEF Info
<1> DEFINE h == 2 + One("NS") + One("SC")
           m == 4 + One("NS") + One("SC") + One("DTD")
           t == 2 + One("DTD")
<1>8. h \in Nat /\ m \in Nat /\ t \in Nat /\ m = h + t /\ h # 0 /\ t # 0
  BY SomeLengths
<1> HIDE DEF h, m, t
<1>9. Inc(Counts(0, 0, 0, 2), h) = Counts(0, h, 0, 2)
  <2>1. 0 + h = h
    BY <1>8
  <2> QED BY <1>8, <2>1, IncSecond
<1>10. addCCItems(Counts(0, h, 0, 2)) = addCMPI(Counts(0, m, 0, 2))
  <2>1. Inc(Counts(0, h, 0, 2), t) = Counts(0, m, 0, 2)
    BY <1>8, IncSecond
  <2>2. [Counts(0, h, 0, 2) EXCEPT !.Length = 2] = Counts(0, h, 0, 2)
    BY <1>8, NextLevelIs
  <2> QED BY <2>1, <2>2 DEF addCCItems, t
<1>11. addCCItems(Counts(2, 0, 0, 1)) = addCMPI(Counts(2, t, 0, 2))
  <2>1. 0 + t = t
    BY <1>8
  <2>2. Inc(Counts(2, 0, 0, 2), t) = Counts(2, t, 0, 2)
    BY <1>8, <2>1, IncSecond
  <2>3. [Counts(2, 0, 0, 1) EXCEPT !.Length = 2] = Counts(2, 0, 0, 2)
    BY NextLevelIs
  <2> QED BY <2>2, <2>3 DEF addCCItems, t
<1>12. ASSUME NEW x \in Nat, NEW y \in Nat, y # 0
       PROVE  Pruned(addCMPI(Counts(x, y, 0, 2))) =
                IF k = 0 THEN Counts(x, y, 0, 2) ELSE Counts(x, y + 1, k, 3)
  <2>1. y + 1 \in Nat /\ y + 1 # 0
    OBVIOUS
  <2> QED BY <1>0, <1>12, <2>1, addCMPIIs, PrunedIs
<1>13. Info.StartTagContent = Pruned(addCMPI(Counts(0, m, 0, 2)))
  BY <1>2, <1>9, <1>10 DEF Info, h
<1>14. Info.ElementContent = Pruned(addCMPI(Counts(2, t, 0, 2)))
  BY <1>2, <1>11 DEF Info
<1>15. m # 0
  BY <1>8
<1>16. Info.StartTagContent = IF k = 0 THEN Counts(0, m, 0, 2) ELSE Counts(0, m + 1, k, 3)
  BY <1>8, <1>12, <1>13, <1>15
<1>17. Info.ElementContent = IF k = 0 THEN Counts(2, t, 0, 2) ELSE Counts(2, t + 1, k, 3)
  BY <1>8, <1>12, <1>14
<1>18. Info.DocContent = IF "DTD" \in Preserve
                         THEN IF k = 0 THEN Counts(2, 1, 0, 2) ELSE Counts(2, 2, k, 3)
                         ELSE IF k = 0 THEN Counts(1, 0, 0, 1) ELSE Counts(2, k, 0, 2)
  BY <1>4, <1>5, <1>6
<1>19. Info.DocEnd = IF k = 0 THEN Counts(1, 0, 0, 1) ELSE Counts(2, k, 0, 2)
  BY <1>5, <1>6, <1>7
<1> QED BY <1>16, <1>17, <1>18, <1>19 DEF m, t

(***************************************************************************)
(* Decoding one code.  size(lv) is how many terms a level has, and log2    *)
(* and log3 the bits the table gives the second and third level.           *)
(***************************************************************************)

(* The productions of a level of the current state, and the widths of the  *)
(* second and the third.                                                   *)
size(lv) == Len(LevelTerms[Current][lv])
More(k) == IF k = 0 THEN 0 ELSE 1
log2 == CeilLog2(size(2) + More(size(3)))
log3 == CeilLog2(size(3))

(* The term t, read from k bits. *)
Decoded(t, k) == [term |-> t, name |-> None, used |-> k]

(* createDecodedTerm of a level's index v is the (v + 1)-th term of the    *)
(* level.                                                                  *)
LEMMA DecodedTermAt ==
  ASSUME Current \in Coded, NEW lv \in 1 .. 3, NEW v \in 0 .. size(lv) - 1
  PROVE  createDecodedTerm(Before(Current, lv) + v) = LevelTerms[Current][lv][v + 1]
<1> DEFINE i == v + 1
<1>1. Len(LevelTerms[Current][lv]) \in Nat
  <2> HIDE DEF Term
  <2> QED BY LevelTermsType
<1>2. i \in 1 .. Len(LevelTerms[Current][lv]) /\ i - 1 = v
  BY <1>1 DEF size
<1> HIDE DEF i
<1>3. createDecodedTerm(Before(Current, lv) + (i - 1)) = LevelTerms[Current][lv][i]
  BY <1>2, DecodedTermByLevel
<1> QED BY <1>2, <1>3 DEF i

(* Below the codes of an element's own grammar. *)
LEMMA InnerCounts ==
  ASSUME Current \in {"StartTagContent", "ElementContent"}
  PROVE  /\ size(1) = IF Current = "ElementContent" THEN 1 ELSE 0
         /\ size(2) \in 2 .. 7 /\ size(3) \in 0 .. 2
         /\ Info[Current].Length = 2 + More(size(3))
         /\ Info[Current].Data[1] = IF Current = "ElementContent" THEN 2 ELSE 0
         /\ Info[Current].Data[2] = size(2) + More(size(3))
         /\ size(3) # 0 => Info[Current].Data[3] = size(3)
<1>1. NumCMPI \in 0 .. 2 /\ Len(CMPITerms) = NumCMPI
  BY CMPITermsType
<1>2. CASE Current = "StartTagContent"
  <2> DEFINE m == 4 + One("NS") + One("SC") + One("DTD")
  <2>1. m \in 4 .. 7 /\ Len(StartTerms) = m
    BY StartTermsType, ContentTermsType
  <2>2. size(1) = 0 /\ size(2) = m /\ size(3) = NumCMPI
    BY <1>1, <1>2, <2>1 DEF size, LevelTerms
  <2>3. Info[Current] = IF NumCMPI = 0 THEN Counts(0, m, 0, 2) ELSE Counts(0, m + 1, NumCMPI, 3)
    BY <1>2, InfoIs
  <2> HIDE DEF m
  <2> QED BY <1>1, <1>2, <2>1, <2>2, <2>3 DEF Counts, More
<1>3. CASE Current = "ElementContent"
  <2> DEFINE m == 2 + One("DTD")
  <2>1. m \in 2 .. 3 /\ Len(ContentTerms) = m
    BY ContentTermsType
  <2>2. size(1) = 1 /\ size(2) = m /\ size(3) = NumCMPI
    BY <1>1, <1>3, <2>1 DEF size, LevelTerms
  <2>3. Info[Current] = IF NumCMPI = 0 THEN Counts(2, m, 0, 2) ELSE Counts(2, m + 1, NumCMPI, 3)
    BY <1>3, InfoIs
  <2> HIDE DEF m
  <2> QED BY <1>1, <1>3, <2>1, <2>2, <2>3 DEF Counts, More
<1> QED BY <1>2, <1>3

(* Inside an element, an index of the second level leads to that level. *)
LEMMA DecodeSecond ==
  ASSUME Current \in {"StartTagContent", "ElementContent"},
         NEW s, NEW pos \in Nat, NEW v \in 0 .. size(2) - 1, Carries(s, pos, v, log2)
  PROVE  \E stop : DecodeLevels(s, pos, 1, size(1)) = At(size(1) + v, pos + log2, stop)
<1> DEFINE C == Info[Current]  d == size(2) + More(size(3))
<1>1. /\ size(1) \in Nat /\ size(2) \in 2 .. 7 /\ size(3) \in 0 .. 2 /\ d \in 1 .. 9
      /\ C.Length = 2 + More(size(3)) /\ C.Data[2] = d
  BY InnerCounts DEF More
<1>2. PICK f : Walks(f, s, pos, 1, size(1))
  <2>1. C.Length \in Nat /\ 1 <= C.Length
    BY <1>1 DEF More
  <2> QED BY <2>1, DecodeLevelsDef
<1>3. f[2] = At(size(1) + v, pos + log2, v # d - 1)
  <2>1. f[2] = Step(At(size(1), pos, FALSE), s, d)
    <3>1. 2 \in 1 + 1 .. C.Length /\ 2 - 1 = 1
      BY <1>1 DEF More
    <3> QED BY <1>1, <1>2, <3>1 DEF Walks
  <2>2. v \in Nat /\ v < d /\ log2 = CeilLog2(d)
    BY <1>1 DEF More, log2
  <2>3. size(1) \in Nat /\ d \in 1 .. 9
    BY <1>1
  <2>4. Carries(s, pos, v, CeilLog2(d))
    BY <2>2
  <2> HIDE DEF d, size, log2
  <2>5. Reads(s, size(1), pos, d, v)
    BY ONLY <2>2, <2>3, <2>4, pos \in Nat, StepReads
  <2> QED BY <2>1, <2>2, <2>5 DEF Reads
<1>4. CASE size(3) = 0
  <2>1. C.Length = 2
    BY <1>1, <1>4 DEF More
  <2> QED BY <1>2, <1>3, <2>1 DEF Walks
<1>5. CASE size(3) # 0
  <2>1. C.Length = 3 /\ v # d - 1
    BY <1>1, <1>5 DEF More
  <2>2. f[3] = Step(f[2], s, C.Data[3])
    BY <1>2, <2>1 DEF Walks
  <2>3. f[3] = f[2]
    BY <1>3, <2>1, <2>2, StepStops
  <2> QED BY <1>2, <1>3, <2>1, <2>3 DEF Walks
<1> QED BY <1>4, <1>5

(* Inside an element, the escape of the second level and an index of the   *)
(* third lead to the third.                                                *)
LEMMA DecodeThird ==
  ASSUME Current \in {"StartTagContent", "ElementContent"},
         NEW s, NEW pos \in Nat, NEW v \in 0 .. size(3) - 1,
         Carries(s, pos, size(2), log2), Carries(s, pos + log2, v, log3)
  PROVE  \E stop : DecodeLevels(s, pos, 1, size(1)) =
                     At(size(1) + size(2) + v, pos + log2 + log3, stop)
<1> DEFINE C == Info[Current]  d == size(2) + 1
<1>1. /\ size(1) \in Nat /\ size(2) \in 2 .. 7 /\ size(3) \in 1 .. 2 /\ d \in 1 .. 9
      /\ C.Length = 3 /\ C.Data[2] = d /\ C.Data[3] = size(3)
      /\ log2 = CeilLog2(d)
  BY InnerCounts DEF More, log2
<1>2. PICK f : Walks(f, s, pos, 1, size(1))
  <2>1. C.Length \in Nat /\ 1 <= C.Length
    BY <1>1
  <2> QED BY <2>1, DecodeLevelsDef
<1>3. f[2] = Step(At(size(1), pos, FALSE), s, d) /\ f[3] = Step(f[2], s, size(3))
  <2>1. 2 \in 1 + 1 .. C.Length /\ 2 - 1 = 1 /\ 3 \in 1 + 1 .. C.Length /\ 3 - 1 = 2
    BY <1>1
  <2> QED BY <1>1, <1>2, <2>1 DEF Walks
<1>4. f[2] = At(size(1) + size(2), pos + log2, FALSE)
  <2>1. size(2) \in Nat /\ size(2) < d /\ size(2) = d - 1 /\ size(1) \in Nat /\ d \in 1 .. 9
    BY <1>1
  <2>2. Carries(s, pos, size(2), CeilLog2(d))
    BY <1>1
  <2> HIDE DEF d, size, log2
  <2>3. Reads(s, size(1), pos, d, size(2))
    BY ONLY <2>1, <2>2, pos \in Nat, StepReads
  <2> QED BY <1>1, <1>3, <2>1, <2>3 DEF Reads
<1>5. f[3] = At(size(1) + size(2) + v, pos + log2 + log3, v # size(3) - 1)
  <2> DEFINE at == size(1) + size(2)  next == pos + log2  k == size(3)
  <2>1. v \in Nat /\ v < k /\ at \in Nat /\ k \in 1 .. 9
    BY <1>1
  <2>2. next \in Nat
    <3>1. log2 \in Nat
      BY <1>1, CeilLog2Value
    <3> QED BY <3>1
  <2>3. Carries(s, next, v, CeilLog2(k))
    BY DEF log3
  <2>4. f[3] = Step(At(at, next, FALSE), s, k)
    BY <1>3, <1>4
  <2> HIDE DEF at, next, k
  <2>5. Reads(s, at, next, k, v)
    BY ONLY <2>1, <2>2, <2>3, StepReads
  <2> QED BY <2>4, <2>5 DEF Reads, at, next, k, log3
<1> QED BY <1>1, <1>2, <1>5 DEF Walks

(* Inside an element, after a miss in the element's own grammar,           *)
(* decodeTerm finds the term of a code of the second or the third level    *)
(* and reads exactly that code; at the first level it reads nothing.       *)
LEMMA DecodeInner ==
  ASSUME Current \in {"StartTagContent", "ElementContent"},
         NEW s, NEW pos \in Nat
  PROVE  /\ \A v \in 0 .. size(2) - 1 :
              Carries(s, pos, v, log2)
                => decodeTerm(s, pos, 1, size(1)) = Decoded(LevelTerms[Current][2][v + 1], pos + log2)
         /\ \A v \in 0 .. size(3) - 1 :
              Carries(s, pos, size(2), log2) /\ Carries(s, pos + log2, v, log3)
                => decodeTerm(s, pos, 1, size(1))
                     = Decoded(LevelTerms[Current][3][v + 1], pos + log2 + log3)
         /\ Current = "ElementContent" => decodeTerm(s, pos, 1, 0) = Decoded("EE", pos)
<1> DEFINE w == DecodeLevels(s, pos, 1, size(1))
<1>0. Current \in Coded
  BY DEF Coded
<1>1. decodeTerm(s, pos, 1, size(1)) = Decoded(createDecodedTerm(w.at), w.pos)
  <2>1. ~ (Info[Current].Data[1] # 0 /\ size(1) # Info[Current].Data[1] - 1)
    BY InnerCounts
  <2> QED BY <2>1 DEF decodeTerm, Decoded
<1>2. ASSUME NEW v \in 0 .. size(2) - 1, Carries(s, pos, v, log2)
      PROVE  decodeTerm(s, pos, 1, size(1)) = Decoded(LevelTerms[Current][2][v + 1], pos + log2)
  <2>1. w.at = Before(Current, 2) + v /\ w.pos = pos + log2
    <3>1. size(1) = Before(Current, 2)
      BY DEF size, Before
    <3> QED BY <1>2, <3>1, DecodeSecond DEF At
  <2>2. createDecodedTerm(Before(Current, 2) + v) = LevelTerms[Current][2][v + 1]
    BY <1>0, DecodedTermAt
  <2> QED BY <1>1, <2>1, <2>2
<1>3. ASSUME NEW v \in 0 .. size(3) - 1, Carries(s, pos, size(2), log2), Carries(s, pos + log2, v, log3)
      PROVE  decodeTerm(s, pos, 1, size(1))
               = Decoded(LevelTerms[Current][3][v + 1], pos + log2 + log3)
  <2>1. w.at = Before(Current, 3) + v /\ w.pos = pos + log2 + log3
    <3>1. size(1) + size(2) = Before(Current, 3)
      BY DEF size, Before
    <3> QED BY <1>3, <3>1, DecodeThird DEF At
  <2>2. createDecodedTerm(Before(Current, 3) + v) = LevelTerms[Current][3][v + 1]
    BY <1>0, DecodedTermAt
  <2> QED BY <1>1, <2>1, <2>2
<1>4. ASSUME Current = "ElementContent" PROVE decodeTerm(s, pos, 1, 0) = Decoded("EE", pos)
  <2>1. Info[Current].Data[1] = 2
    BY <1>4, InnerCounts
  <2>2. createDecodedTerm(0) = "EE"
    <3>1. LevelTerms[Current][1] = << "EE" >> /\ 0 \in 0 .. size(1) - 1
      BY <1>4 DEF LevelTerms, size
    <3>2. LevelTerms[Current][1][0 + 1] = "EE"
      BY <3>1
    <3>3. Before(Current, 1) + 0 = 0
      BY DEF Before
    <3> QED BY <1>0, <3>1, <3>2, <3>3, DecodedTermAt
  <2> QED BY <2>1, <2>2 DEF decodeTerm, Decoded
<1> QED BY <1>2, <1>3, <1>4

(* Outside the root element a code starts on the first level. *)
log1 == CeilLog2(1 + More(size(2) + size(3)))

(* Outside the root element, a level counts its productions and one more   *)
(* when a later level exists, and an empty second level is pruned.         *)
LEMMA OuterCounts ==
  ASSUME Current \in {"DocContent", "DocEnd"}
  PROVE  /\ size(1) = 1 /\ size(2) \in 0 .. 2 /\ size(3) \in 0 .. 2
         /\ Info[Current].Length = 1 + More(size(2)) + More(size(3))
         /\ Info[Current].Data[1] = 1 + More(size(2) + size(3))
         /\ size(2) # 0 => Info[Current].Data[2] = size(2) + More(size(3))
         /\ size(2) # 0 /\ size(3) # 0 => Info[Current].Data[3] = size(3)
         /\ size(2) = 0 /\ size(3) # 0 => Info[Current].Data[2] = size(3)
<1>1. NumCMPI \in 0 .. 2 /\ Len(CMPITerms) = NumCMPI
  BY CMPITermsType
<1>2. CASE Current = "DocContent"
  <2>1. size(1) = 1 /\ size(2) = One("DTD") /\ size(3) = NumCMPI
    BY <1>1, <1>2, SomeLengths DEF size, LevelTerms
  <2>2. Info[Current] = IF "DTD" \in Preserve
                        THEN IF NumCMPI = 0 THEN Counts(2, 1, 0, 2)
                             ELSE Counts(2, 2, NumCMPI, 3)
                        ELSE IF NumCMPI = 0 THEN Counts(1, 0, 0, 1)
                             ELSE Counts(2, NumCMPI, 0, 2)
    BY <1>2, InfoIs
  <2>3. CASE "DTD" \in Preserve
    <3>1. size(2) = 1
      BY <2>1, <2>3 DEF One
    <3> QED BY <1>1, <2>1, <2>2, <2>3, <3>1 DEF Counts, More
  <2>4. CASE "DTD" \notin Preserve
    <3>1. size(2) = 0
      BY <2>1, <2>4 DEF One
    <3> QED BY <1>1, <2>1, <2>2, <2>4, <3>1 DEF Counts, More
  <2> QED BY <2>3, <2>4
<1>3. CASE Current = "DocEnd"
  <2>1. size(1) = 1 /\ size(2) = NumCMPI /\ size(3) = 0
    BY <1>1, <1>3, SomeLengths DEF size, LevelTerms
  <2>2. Info[Current] = IF NumCMPI = 0 THEN Counts(1, 0, 0, 1) ELSE Counts(2, NumCMPI, 0, 2)
    BY <1>3, InfoIs
  <2> QED BY <1>1, <2>1, <2>2 DEF Counts, More
<1> QED BY <1>2, <1>3

(* The walk of an outer code: what it has reached after each level.        *)
LEMMA OuterWalk ==
  ASSUME Current \in {"DocContent", "DocEnd"}, NEW s,
         NEW v \in 0 .. Info[Current].Data[1] - 1, Carries(s, 0, v, log1)
  PROVE  \E f : /\ Walks(f, s, 0, 0, 0)
                /\ f[1] = At(v, log1, v # Info[Current].Data[1] - 1)
                /\ decodeTerm(s, 0, 0, 0) = Decoded(createDecodedTerm(f[Info[Current].Length].at),
                                                    f[Info[Current].Length].pos)
<1> DEFINE C == Info[Current]  d == C.Data[1]
<1>1. /\ d \in 1 .. 2 /\ log1 = CeilLog2(d) /\ C.Length \in 1 .. 3
  BY OuterCounts DEF More, log1
<1>2. PICK f : Walks(f, s, 0, 0, 0)
  <2>1. C.Length \in Nat /\ 0 <= C.Length /\ 0 \in Nat
    BY <1>1
  <2> QED BY ONLY <2>1, DecodeLevelsDef
<1>3. f[1] = At(v, log1, v # d - 1)
  <2>1. f[1] = Step(At(0, 0, FALSE), s, d)
    <3>1. 1 \in 0 + 1 .. C.Length /\ 1 - 1 = 0
      BY <1>1
    <3> QED BY <1>2, <3>1 DEF Walks
  <2>2. v \in Nat /\ v < d /\ d \in 1 .. 9 /\ Carries(s, 0, v, CeilLog2(d)) /\ 0 \in Nat
    BY <1>1
  <2>3. log1 \in Nat
    <3>1. d \in Nat
      BY <1>1
    <3> HIDE DEF d
    <3> QED BY <3>1, <1>1, CeilLog2Value
  <2>4. 0 + v = v /\ 0 + log1 = log1
    BY <2>2, <2>3
  <2> HIDE DEF d
  <2>5. Reads(s, 0, 0, d, v)
    BY ONLY <2>2, StepReads
  <2> QED BY <1>1, <2>1, <2>4, <2>5 DEF Reads
<1>4. decodeTerm(s, 0, 0, 0) = Decoded(createDecodedTerm(f[C.Length].at), f[C.Length].pos)
  <2>1. C.Data[1] # 0
    BY <1>1
  <2>2. DecodeLevels(s, 0, 0, 0) = f[C.Length]
    BY <1>2 DEF Walks
  <2> QED BY <2>1, <2>2 DEF decodeTerm, Decoded
<1> QED BY <1>2, <1>3, <1>4

(* Outside the root element, decodeTerm finds the only term of the first   *)
(* level,                                                                  *)
LEMMA DecodeOuterFirst ==
  ASSUME Current \in {"DocContent", "DocEnd"}, NEW s, Carries(s, 0, 0, log1)
  PROVE  decodeTerm(s, 0, 0, 0) = Decoded(LevelTerms[Current][1][1], log1)
<1> DEFINE C == Info[Current]
<1>1. /\ size(1) = 1 /\ size(2) \in 0 .. 2 /\ size(3) \in 0 .. 2
      /\ C.Length = 1 + More(size(2)) + More(size(3))
      /\ C.Data[1] = 1 + More(size(2) + size(3))
  BY OuterCounts
<1>2. C.Data[1] \in 1 .. 2 /\ C.Length \in 1 .. 3 /\ (C.Length # 1 => C.Data[1] = 2)
  BY <1>1 DEF More
<1>3. PICK f : /\ Walks(f, s, 0, 0, 0)
               /\ f[1] = At(0, log1, 0 # C.Data[1] - 1)
               /\ decodeTerm(s, 0, 0, 0) = Decoded(createDecodedTerm(f[C.Length].at),
                                                   f[C.Length].pos)
  <2>1. 0 \in 0 .. C.Data[1] - 1
    BY <1>2
  <2> QED BY <2>1, OuterWalk
<1>4. f[C.Length].at = 0 /\ f[C.Length].pos = log1
  <2>1. CASE C.Length = 1
    BY <1>3, <2>1 DEF At
  <2>2. CASE C.Length # 1
    <3>1. f[1] = At(0, log1, TRUE)
      <4>1. 0 # C.Data[1] - 1
        BY <1>2, <2>2
      <4> QED BY <1>3, <4>1 DEF At
    <3>2. f[2] = Step(f[1], s, C.Data[2])
      <4>1. 2 \in 0 + 1 .. C.Length /\ 2 - 1 = 1
        BY <1>2, <2>2
      <4> QED BY <1>3, <4>1 DEF Walks
    <3>3. f[2] = At(0, log1, TRUE)
      BY <3>1, <3>2, StepStops
    <3>4. C.Length = 3 => f[3] = At(0, log1, TRUE)
      <4>1. C.Length = 3 => 3 \in 0 + 1 .. C.Length /\ 3 - 1 = 2
        OBVIOUS
      <4>2. C.Length = 3 => f[3] = Step(f[2], s, C.Data[3])
        BY <1>3, <4>1 DEF Walks
      <4> QED BY <3>3, <4>2, StepStops
    <3> QED BY <1>2, <2>2, <3>3, <3>4 DEF At
  <2> QED BY <2>1, <2>2
<1>5. createDecodedTerm(0) = LevelTerms[Current][1][1]
  <2>1. Before(Current, 1) + 0 = 0 /\ 0 \in 0 .. size(1) - 1 /\ Current \in Coded /\ 0 + 1 = 1
    BY <1>1 DEF Before, Coded
  <2>2. createDecodedTerm(Before(Current, 1) + 0) = LevelTerms[Current][1][0 + 1]
    BY ONLY <2>1, DecodedTermAt
  <2> QED BY <2>1, <2>2
<1> QED BY <1>3, <1>4, <1>5

(* those of the second level after the escape of the first, *)
LEMMA DecodeOuterSecond ==
  ASSUME Current \in {"DocContent", "DocEnd"}, NEW s, NEW v \in 0 .. size(2) - 1,
         Carries(s, 0, 1, log1), Carries(s, log1, v, log2)
  PROVE  decodeTerm(s, 0, 0, 0) = Decoded(LevelTerms[Current][2][v + 1], log1 + log2)
<1> DEFINE C == Info[Current]  d == size(2) + More(size(3))
<1>1. /\ size(1) = 1 /\ size(2) \in 1 .. 2 /\ size(3) \in 0 .. 2
      /\ C.Length = 2 + More(size(3)) /\ C.Data[1] = 2 /\ C.Data[2] = d
      /\ d \in 1 .. 9 /\ log2 = CeilLog2(d) /\ v \in Nat /\ v < d
      /\ (size(3) # 0 => v # d - 1)
  <2>1. /\ size(1) = 1 /\ size(2) \in 0 .. 2 /\ size(3) \in 0 .. 2
        /\ C.Length = 1 + More(size(2)) + More(size(3))
        /\ C.Data[1] = 1 + More(size(2) + size(3))
        /\ size(2) # 0 => C.Data[2] = size(2) + More(size(3))
    BY OuterCounts
  <2> QED BY <2>1 DEF More, log2
<1>2. PICK f : /\ Walks(f, s, 0, 0, 0)
               /\ f[1] = At(1, log1, 1 # C.Data[1] - 1)
               /\ decodeTerm(s, 0, 0, 0) = Decoded(createDecodedTerm(f[C.Length].at),
                                                   f[C.Length].pos)
  <2>1. 1 \in 0 .. C.Data[1] - 1
    BY <1>1
  <2> QED BY <2>1, OuterWalk
<1>3. f[1] = At(1, log1, FALSE)
  <2>1. ~ (1 # C.Data[1] - 1)
    BY <1>1
  <2> QED BY <1>2, <2>1 DEF At
<1>4. f[2] = At(1 + v, log1 + log2, v # d - 1)
  <2>1. f[2] = Step(At(1, log1, FALSE), s, d)
    <3>1. 2 \in 0 + 1 .. C.Length /\ 2 - 1 = 1
      BY <1>1 DEF More
    <3> QED BY <1>1, <1>2, <1>3, <3>1 DEF Walks
  <2>2. log1 \in Nat
    <3>1. 1 + More(size(2) + size(3)) \in Nat
      BY DEF More
    <3> QED BY <3>1, CeilLog2Value DEF log1
  <2>3. v \in Nat /\ v < d /\ d \in 1 .. 9 /\ Carries(s, log1, v, CeilLog2(d)) /\ 1 \in Nat
    BY <1>1
  <2> HIDE DEF d, log1
  <2>4. Reads(s, 1, log1, d, v)
    BY ONLY <2>2, <2>3, StepReads
  <2> QED BY <1>1, <2>1, <2>4 DEF Reads
<1>5. f[C.Length].at = 1 + v /\ f[C.Length].pos = log1 + log2
  <2>1. CASE size(3) = 0
    <3>1. C.Length = 2
      BY <1>1, <2>1 DEF More
    <3> QED BY <1>4, <3>1 DEF At
  <2>2. CASE size(3) # 0
    <3>1. C.Length = 3
      BY <1>1, <2>2 DEF More
    <3>2. f[3] = Step(f[2], s, C.Data[3])
      <4>1. 3 \in 0 + 1 .. C.Length /\ 3 - 1 = 2
        BY <3>1
      <4> QED BY <1>2, <4>1 DEF Walks
    <3>3. f[2] = At(1 + v, log1 + log2, TRUE)
      <4>1. v # d - 1
        BY <1>1, <2>2
      <4> HIDE DEF d
      <4> QED BY <1>4, <4>1 DEF At
    <3>4. f[3] = At(1 + v, log1 + log2, TRUE)
      BY <3>2, <3>3, StepStops
    <3> QED BY <3>1, <3>4 DEF At
  <2> QED BY <2>1, <2>2
<1>6. createDecodedTerm(1 + v) = LevelTerms[Current][2][v + 1]
  <2>1. Before(Current, 2) = 1 /\ Current \in Coded
    BY <1>1 DEF Before, Coded, size
  <2>2. createDecodedTerm(Before(Current, 2) + v) = LevelTerms[Current][2][v + 1]
    BY <2>1, DecodedTermAt
  <2> QED BY <2>1, <2>2
<1> QED BY <1>2, <1>5, <1>6

(* and those of the third after both escapes, whether or not the second    *)
(* level was pruned.                                                       *)
LEMMA DecodeOuterThird ==
  ASSUME Current \in {"DocContent", "DocEnd"}, NEW s, NEW v \in 0 .. size(3) - 1,
         Carries(s, 0, 1, log1), Carries(s, log1, size(2), log2),
         Carries(s, log1 + log2, v, log3)
  PROVE  decodeTerm(s, 0, 0, 0) = Decoded(LevelTerms[Current][3][v + 1], log1 + log2 + log3)
<1> DEFINE C == Info[Current]  k == size(3)
<1>1. /\ size(1) = 1 /\ size(2) \in 0 .. 2 /\ k \in 1 .. 2 /\ v \in Nat /\ v < k
      /\ C.Length = 2 + More(size(2)) /\ C.Data[1] = 2
      /\ size(2) # 0 => C.Data[2] = size(2) + 1 /\ C.Data[3] = k
      /\ size(2) = 0 => C.Data[2] = k
      /\ log2 = CeilLog2(size(2) + 1) /\ log3 = CeilLog2(k)
  <2>1. /\ size(1) = 1 /\ size(2) \in 0 .. 2 /\ size(3) \in 0 .. 2
        /\ C.Length = 1 + More(size(2)) + More(size(3))
        /\ C.Data[1] = 1 + More(size(2) + size(3))
        /\ size(2) # 0 => C.Data[2] = size(2) + More(size(3))
        /\ size(2) # 0 /\ size(3) # 0 => C.Data[3] = size(3)
        /\ size(2) = 0 /\ size(3) # 0 => C.Data[2] = size(3)
    BY OuterCounts
  <2> QED BY <2>1 DEF More, log2, log3
<1>2. PICK f : /\ Walks(f, s, 0, 0, 0)
               /\ f[1] = At(1, log1, 1 # C.Data[1] - 1)
               /\ decodeTerm(s, 0, 0, 0) = Decoded(createDecodedTerm(f[C.Length].at),
                                                   f[C.Length].pos)
  <2>1. 1 \in 0 .. C.Data[1] - 1
    BY <1>1
  <2> QED BY <2>1, OuterWalk
<1>3. f[1] = At(1, log1, FALSE)
  <2>1. ~ (1 # C.Data[1] - 1)
    BY <1>1
  <2> QED BY <1>2, <2>1 DEF At
<1>4. log1 \in Nat /\ log2 \in Nat
  <2>1. 1 + More(size(2) + size(3)) \in Nat
    BY DEF More
  <2>2. size(2) + 1 \in Nat
    BY <1>1
  <2> QED BY <1>1, <2>1, <2>2, CeilLog2Value DEF log1
<1>5. f[2] = Step(At(1, log1, FALSE), s, C.Data[2])
  <2>1. 2 \in 0 + 1 .. C.Length /\ 2 - 1 = 1
    BY <1>1 DEF More
  <2> QED BY <1>2, <1>3, <2>1 DEF Walks
<1>6. f[C.Length].at = 1 + size(2) + v /\ f[C.Length].pos = log1 + log2 + log3
  <2>1. CASE size(2) = 0
    <3>1. C.Length = 2 /\ log2 = 0 /\ log1 + log2 = log1
      BY <1>1, <1>4, <2>1, SmallLogs DEF More
    <3>2. Carries(s, log1, v, CeilLog2(k)) /\ v < k /\ k \in 1 .. 9 /\ 1 \in Nat /\ v \in Nat
      BY <1>1, <3>1
    <3> HIDE DEF k, log1
    <3>3. Reads(s, 1, log1, k, v)
      BY ONLY <1>4, <3>2, StepReads
    <3>4. f[2] = At(1 + v, log1 + log3, v # k - 1)
      BY <1>1, <1>5, <2>1, <3>3 DEF Reads
    <3>5. 1 + size(2) + v = 1 + v /\ log1 + log2 + log3 = log1 + log3
      BY <2>1, <3>1, <1>1
    <3> QED BY <3>1, <3>4, <3>5 DEF At
  <2>2. CASE size(2) # 0
    <3>1. C.Length = 3 /\ C.Data[2] = size(2) + 1 /\ C.Data[3] = k
      BY <1>1, <2>2 DEF More
    <3> DEFINE n == size(2)  d == n + 1  at == 1 + n  pos == log1 + log2
    <3>2. n \in Nat /\ n < d /\ n = d - 1 /\ d \in 1 .. 9 /\ 1 \in Nat /\ log2 = CeilLog2(d)
      BY <1>1
    <3>3. Carries(s, log1, n, CeilLog2(d)) /\ Carries(s, pos, v, CeilLog2(k))
      BY <1>1
    <3>4. /\ v \in Nat /\ v < k /\ k \in 1 .. 9 /\ at \in Nat /\ pos \in Nat
      BY <1>1, <1>4
    <3>5. f[3] = Step(f[2], s, k)
      <4>1. 3 \in 0 + 1 .. C.Length /\ 3 - 1 = 2
        BY <3>1
      <4> QED BY <1>2, <3>1, <4>1 DEF Walks
    <3>6. f[2] = Step(At(1, log1, FALSE), s, d)
      BY <1>5, <3>1
    <3>7. f[2] = At(at, pos, FALSE)
      <4> HIDE DEF d, n, log1
      <4>1. Reads(s, 1, log1, d, n)
        BY ONLY <1>4, <3>2, <3>3, StepReads
      <4>2. Step(At(1, log1, FALSE), s, d) = At(1 + n, log1 + CeilLog2(d), n # d - 1)
        BY <4>1 DEF Reads
      <4> QED BY <3>2, <3>6, <4>2 DEF At
    <3> HIDE DEF at, pos, k
    <3>8. Reads(s, at, pos, k, v)
      BY ONLY <3>3, <3>4, StepReads
    <3>9. f[3] = At(at + v, pos + CeilLog2(k), v # k - 1)
      BY <3>5, <3>7, <3>8 DEF Reads
    <3> QED BY <1>1, <3>1, <3>9 DEF At, at, pos
  <2> QED BY <2>1, <2>2
<1>7. createDecodedTerm(1 + size(2) + v) = LevelTerms[Current][3][v + 1]
  <2>1. Before(Current, 3) = 1 + size(2) /\ Current \in Coded
    BY <1>1 DEF Before, Coded, size
  <2>2. createDecodedTerm(Before(Current, 3) + v) = LevelTerms[Current][3][v + 1]
    BY <2>1, DecodedTermAt
  <2> QED BY <2>1, <2>2
<1> QED BY <1>2, <1>6, <1>7

(***************************************************************************)
(* The levels of the documented grammar and the Builder's tables agree.    *)
(***************************************************************************)

(* A level of unnamed productions, by their terms. *)
Plain(level, ts) ==
  /\ level \in Seq(Prod) /\ Len(level) = Len(ts)
  /\ \A i \in 1 .. Len(ts) : level[i] = Doc!Any(ts[i])

(* A production without a name. *)
LEMMA AnyIsProd ==
  ASSUME NEW t \in Term
  PROVE  Doc!Any(t) \in Prod /\ Doc!Any(t).term = t /\ Doc!Any(t).name = None
<1> HIDE DEF Term
<1> QED BY DEF Doc!Any, Doc!Prod, Prod

(* An optional production of the table mirrors an optional term of the     *)
(* Builder.                                                                *)
LEMMA PlainSome ==
  /\ Plain(<< >>, << >>)
  /\ \A t \in Term : Plain(<< Doc!Any(t) >>, << t >>)
  /\ \A o : \A t \in Term : Plain(Doc!If(o, Doc!Any(t)), If(o, t))
<1> HIDE DEF Term, Prod
<1>1. \A t \in Term : Doc!Any(t) \in Prod
  BY AnyIsProd
<1>2. \A t \in Term : Plain(<< Doc!Any(t) >>, << t >>)
  BY <1>1 DEF Plain
<1>3. Plain(<< >>, << >>)
  BY DEF Plain
<1> QED BY <1>2, <1>3 DEF Doc!If, If

(* The same for a pair. *)
LEMMA PlainTwo ==
  ASSUME NEW t \in Term, NEW u \in Term
  PROVE  Plain(<< Doc!Any(t), Doc!Any(u) >>, << t, u >>)
<1> HIDE DEF Term, Prod
<1> DEFINE a == Doc!Any(t)  b == Doc!Any(u)  l == << a, b >>
<1>1. a \in Prod /\ b \in Prod
  BY AnyIsProd
<1> HIDE DEF a, b
<1>2. l \in Seq(Prod) /\ Len(l) = 2 /\ l[1] = a /\ l[2] = b
  BY <1>1
<1>3. Len(<< t, u >>) = 2 /\ << t, u >>[1] = t /\ << t, u >>[2] = u
  OBVIOUS
<1> HIDE DEF l
<1> QED BY <1>2, <1>3 DEF Plain, a, b, l

(* Lists that mirror each other do so put together. *)
LEMMA PlainConcat ==
  ASSUME NEW a, NEW b, NEW x \in Seq(Term), NEW y \in Seq(Term), Plain(a, x), Plain(b, y)
  PROVE  Plain(a \o b, x \o y)
<1> HIDE DEF Term, Prod
<1> DEFINE s == a \o b  t == x \o y
<1>1. /\ a \in Seq(Prod) /\ b \in Seq(Prod) /\ Len(a) = Len(x) /\ Len(b) = Len(y)
      /\ Len(x) \in Nat /\ Len(y) \in Nat
      /\ \A i \in 1 .. Len(x) : a[i] = Doc!Any(x[i])
      /\ \A i \in 1 .. Len(y) : b[i] = Doc!Any(y[i])
  BY DEF Plain
<1>2. /\ s \in Seq(Prod) /\ Len(s) = Len(a) + Len(b)
      /\ \A i \in 1 .. Len(a) + Len(b) : s[i] = IF i <= Len(a) THEN a[i] ELSE b[i - Len(a)]
  <2>1. a \in Seq(Prod) /\ b \in Seq(Prod)
    BY <1>1
  <2> QED BY ONLY <2>1, ConcatProperties
<1>3. /\ Len(t) = Len(x) + Len(y)
      /\ \A i \in 1 .. Len(x) + Len(y) : t[i] = IF i <= Len(x) THEN x[i] ELSE y[i - Len(x)]
  BY ConcatProperties
<1> HIDE DEF s, t
<1>4. \A i \in 1 .. Len(t) : s[i] = Doc!Any(t[i])
  <2> TAKE i \in 1 .. Len(t)
  <2>1. CASE i <= Len(x)
    BY <1>1, <1>2, <1>3, <2>1
  <2>2. CASE ~ (i <= Len(x))
    <3>1. i - Len(x) \in 1 .. Len(y)
      BY <1>1, <1>3, <2>2
    <3> QED BY <1>1, <1>2, <1>3, <2>2, <3>1
  <2> QED BY <2>1, <2>2
<1> QED BY <1>1, <1>2, <1>3, <1>4 DEF Plain, s, t

(* CM and PI in the table and in the Builder are the same list, *)
LEMMA PlainCMPI == Plain(Doc!CMPI, CMPITerms)
<1>1. "CM" \in Term /\ "PI" \in Term
  BY DEF Term
<1>2. Plain(Doc!If("CM", Doc!Any("CM")), If("CM", "CM"))
      /\ Plain(Doc!If("PI", Doc!Any("PI")), If("PI", "PI"))
  BY ONLY <1>1, PlainSome
<1>3. Plain(Doc!If("CM", Doc!Any("CM")) \o Doc!If("PI", Doc!Any("PI")),
            If("CM", "CM") \o If("PI", "PI"))
  BY ONLY <1>2, SomeTerms, PlainConcat
<1> QED BY <1>3 DEF Doc!CMPI, CMPITerms

(* so are the items of child content, *)
LEMMA PlainContent == Plain(Doc!ChildContentItems, ContentTerms)
<1>1. "SE" \in Term /\ "CH" \in Term /\ "ER" \in Term
  BY DEF Term
<1>2. Plain(<< Doc!Any("SE"), Doc!Any("CH") >>, << "SE", "CH" >>)
      /\ Plain(Doc!If("DTD", Doc!Any("ER")), If("DTD", "ER"))
  BY ONLY <1>1, PlainSome, PlainTwo
<1>3. Plain(<< Doc!Any("SE"), Doc!Any("CH") >> \o Doc!If("DTD", Doc!Any("ER")),
            << "SE", "CH" >> \o If("DTD", "ER"))
  BY ONLY <1>2, SomeTerms, PlainConcat
<1> QED BY <1>3 DEF Doc!ChildContentItems, ContentTerms

(* The productions of a start tag without what was learned. *)
StartTagItems ==
  << Doc!Any("EE"), Doc!Any("AT") >> \o Doc!If("NS", Doc!Any("NS"))
    \o Doc!If("SC", Doc!Any("SC")) \o Doc!ChildContentItems

(* and so is the second level of a start tag. *)
LEMMA PlainStart == Plain(StartTagItems, StartTerms)
<1> DEFINE a == << Doc!Any("EE"), Doc!Any("AT") >>  b == Doc!If("NS", Doc!Any("NS"))
           c == Doc!If("SC", Doc!Any("SC"))
           x == << "EE", "AT" >>  y == If("NS", "NS")  z == If("SC", "SC")
<1>1. "EE" \in Term /\ "AT" \in Term /\ "NS" \in Term /\ "SC" \in Term
  BY DEF Term
<1>2. Plain(a, x) /\ Plain(b, y) /\ Plain(c, z)
  BY ONLY <1>1, PlainSome, PlainTwo
<1>3. x \in Seq(Term) /\ y \in Seq(Term) /\ z \in Seq(Term)
  BY SomeTerms
<1>4. StartTagItems = a \o b \o c \o Doc!ChildContentItems
      /\ StartTerms = x \o y \o z \o ContentTerms /\ StartHead = x \o y \o z
  BY DEF StartTagItems, StartTerms, StartHead
<1> HIDE DEF a, b, c, x, y, z
<1>5. Plain(a \o b, x \o y)
  BY ONLY <1>2, <1>3, PlainConcat
<1>6. x \o y \in Seq(Term)
  BY ONLY <1>3, ConcatProperties
<1>7. Plain(a \o b \o c, x \o y \o z)
  BY ONLY <1>2, <1>3, <1>5, <1>6, PlainConcat
<1>8. x \o y \o z \in Seq(Term) /\ ContentTerms \in Seq(Term)
  BY <1>4, StartHeadType, ContentTermsType
<1>9. Plain(a \o b \o c \o Doc!ChildContentItems, x \o y \o z \o ContentTerms)
  BY ONLY <1>7, <1>8, PlainContent, PlainConcat
<1> QED BY <1>4, <1>9

(***************************************************************************)
(* The invariant.  What a grammar has learned, and the widths it keeps,    *)
(* are the ones the documented grammar computes.                           *)
(***************************************************************************)

(* What the grammar of q may store for its start tag, and for its          *)
(* content.                                                                *)
StoredInStart(q) == [term : {"SEQName", "ATQName"}, name : QName]
                      \union [term : {"CHExtern"}, name : {None}]
                      \union [term : {"EE"}, name : {q}]
StoredInContent == [term : {"SEQName"}, name : QName]
                      \union [term : {"CHExtern"}, name : {None}]

(* A grammar's lists, and its widths: those of as many codes as there are  *)
(* learned productions and productions of the schema.                      *)
GrammarOK(q, g) ==
  /\ g.StartTag \in Seq(StoredInStart(q))
  /\ g.Element \in Seq(StoredInContent)
  /\ g.StartTagLog = CeilLog2(Len(g.StartTag) + 1)
  /\ g.ElementLog = CeilLog2(Len(g.Element) + 2)

(* The invariant: the properties, the grammars in order, and two facts     *)
(* about the states that decode() trusts.                                  *)
IInv ==
  /\ TypeOK /\ StackMatchesState /\ LearnedOnce /\ DecodesTheTable
  /\ \A q \in DOMAIN Grammars : GrammarOK(q, Grammars[q])
  /\ Current = "Document" => DOMAIN Grammars = {}
  /\ loop = "running" => Current # "Fragment"

(* The states inside an element. *)
Inside == {"StartTagContent", "ElementContent"}

(* What the current state has learned. *)
learnt ==
  IF Current = "StartTagContent" THEN Grammars[Back.name].StartTag
  ELSE IF Current = "ElementContent" THEN Grammars[Back.name].Element
  ELSE << >>

(* The element on top of GStack has a grammar, and is the element on top   *)
(* of the document's stack.                                                *)
LEMMA TopOfStack ==
  ASSUME IInv, GStack # << >>
  PROVE  /\ Len(GStack) \in Nat \ {0} /\ Back \in [name : DOMAIN Grammars, int : BOOLEAN]
         /\ Back.name \in DOMAIN Grammars /\ Back.name \in QName
         /\ Len(docStack) = Len(GStack)
         /\ Doc!Top.name = Back.name
         /\ Doc!Top.inStart <=> Current \in {"StartTagContent", "Fragment"}
<1>1. GStack \in Seq([name : DOMAIN Grammars, int : BOOLEAN]) /\ DOMAIN Grammars \subseteq QName
  BY DEF IInv, TypeOK
<1>2. Len(GStack) \in Nat \ {0}
  BY <1>1, EmptySeq
<1>3. Back \in [name : DOMAIN Grammars, int : BOOLEAN]
  <2> DEFINE E == [name : DOMAIN Grammars, int : BOOLEAN]
  <2>1. GStack \in Seq(E)
    BY <1>1
  <2> HIDE DEF E
  <2>2. Back \in E
    BY <1>2, <2>1 DEF Back
  <2> QED BY <2>2 DEF E
<1>4. Len(docStack) = Len(GStack)
  BY <1>2 DEF docStack
<1>5. /\ Doc!Top.name = Back.name
      /\ Doc!Top.inStart <=> Current \in {"StartTagContent", "Fragment"}
  <2> DEFINE n == Len(GStack)
  <2>1. Doc!Top = docStack[n] /\ n \in 1 .. n
    BY <1>2, <1>4 DEF Doc!Top
  <2>2. docStack[n].name = GStack[n].name
    BY <2>1 DEF docStack
  <2>3. docStack[n].inStart <=> Current \in {"StartTagContent", "Fragment"}
    BY <2>1 DEF docStack
  <2> QED BY <2>1, <2>2, <2>3 DEF Back
<1> QED BY <1>1, <1>2, <1>3, <1>4, <1>5

(* Inside an element, IsStart picks the list of the grammar that the       *)
(* state says.                                                             *)
LEMMA InsideIs ==
  ASSUME IInv, Current \in Inside
  PROVE  /\ GStack # << >>
         /\ Back.int <=> Current = "StartTagContent"
         /\ GrammarOK(Back.name, Grammars[Back.name])
         /\ learnt = IF Back.int THEN Grammars[Back.name].StartTag
                     ELSE Grammars[Back.name].Element
<1>1. GStack # << >> /\ (Back.int <=> Current = "StartTagContent")
  BY DEF IInv, StackMatchesState, Inside
<1>2. GrammarOK(Back.name, Grammars[Back.name])
  BY <1>1, TopOfStack DEF IInv
<1> QED BY <1>1, <1>2 DEF learnt, Inside

(* The stored events of any list. *)
Stores == [term : {"SEQName", "ATQName"}, name : QName]
            \union [term : {"CHExtern"}, name : {None}]
            \union [term : {"EE"}, name : QName]

(* What the production of a stored event looks like. *)
LEMMA ProductionIs ==
  ASSUME NEW x \in Stores
  PROVE  /\ Production(x) \in Prod
         /\ Production(x).term = Kind(x.term)
         /\ Production(x).name = IF x.term \in {"SEQName", "ATQName"} THEN x.name ELSE None
         /\ Kind(x.term) \in {"SE", "AT", "CH", "EE"}
<1>1. CASE x \in [term : {"SEQName", "ATQName"}, name : QName]
  BY <1>1 DEF Production, Kind, Prod, Term
<1>2. CASE x \in [term : {"CHExtern"}, name : {None}]
  BY <1>2 DEF Production, Kind, Prod, Term
<1>3. CASE x \in [term : {"EE"}, name : QName]
  BY <1>3 DEF Production, Kind, Prod, Term
<1> QED BY <1>1, <1>2, <1>3 DEF Stores

(* What the current state has learned is a list of stored events without   *)
(* a duplicate.                                                            *)
LEMMA LearntIs ==
  ASSUME IInv
  PROVE  /\ learnt \in Seq(Stores) /\ Len(learnt) \in Nat
         /\ \A i, j \in 1 .. Len(learnt) : learnt[i] = learnt[j] => i = j
<1>1. CASE Current \notin Inside
  BY <1>1 DEF learnt, Inside
<1>2. CASE Current \in Inside
  <2> DEFINE q == Back.name  g == Grammars[q]
  <2>1. GrammarOK(q, g) /\ q \in QName /\ q \in DOMAIN Grammars
        /\ (learnt = g.StartTag \/ learnt = g.Element)
    BY <1>2, InsideIs, TopOfStack
  <2>2. StoredInStart(q) \subseteq Stores /\ StoredInContent \subseteq Stores
    BY <2>1 DEF StoredInStart, StoredInContent, Stores
  <2>3. \A list \in {g.StartTag, g.Element} :
          \A i, j \in 1 .. Len(list) : list[i] = list[j] => i = j
    BY <2>1 DEF IInv, LearnedOnce
  <2> HIDE DEF q, g, Stores
  <2> QED BY <2>1, <2>2, <2>3 DEF GrammarOK
<1> QED BY <1>1, <1>2

(* The productions of a list are its stored events, latest first. *)
LEMMA ProductionsOf ==
  ASSUME NEW list \in Seq(Stores)
  PROVE  /\ Productions(list) \in Seq(Prod) /\ Len(Productions(list)) = Len(list)
         /\ \A i \in 1 .. Len(list) : Productions(list)[i] = Production(list[Len(list) + 1 - i])
<1> DEFINE n == Len(list)
<1>1. n \in Nat
  OBVIOUS
<1>2. ASSUME NEW i \in 1 .. n PROVE Production(list[n + 1 - i]) \in Prod
  <2>1. n + 1 - i \in 1 .. n
    BY <1>1
  <2>2. list[n + 1 - i] \in Stores
    <3> HIDE DEF Stores, n
    <3> QED BY <1>1, <2>1 DEF n
  <2> QED BY <2>2, ProductionIs
<1> HIDE DEF Stores
<1> QED BY <1>1, <1>2 DEF Productions

(* The documented levels of a coded state: what it has learned, latest     *)
(* first, and then the Builder's terms.                                    *)
LevelsMatch(ls) ==
  /\ ThreeLevels(ls)
  /\ Len(ls[1]) = Len(learnt) + size(1)
  /\ \A i \in 1 .. Len(learnt) : ls[1][i] = Production(learnt[Len(learnt) + 1 - i])
  /\ \A i \in 1 .. size(1) :
       ls[1][Len(learnt) + i] = Doc!Any(LevelTerms[Current][1][i])
  /\ Plain(ls[2], LevelTerms[Current][2])
  /\ Plain(ls[3], LevelTerms[Current][3])

(* The document's phase while decodeBody runs. *)
LEMMA PhaseIs ==
  ASSUME loop = "running"
  PROVE  /\ Current \in Inside => docPhase = "Element"
         /\ Current \notin Inside => docPhase = Current
BY DEF docPhase, Inside

(* Outside the root element the table's levels are those of the Builder. *)
LEMMA LevelsOutside ==
  ASSUME IInv, loop = "running", Current \in {"DocContent", "DocEnd"}
  PROVE  LevelsMatch(Doc!Levels)
<1> DEFINE ls == Doc!Levels
<1>1. docPhase = Current /\ learnt = << >>
  BY PhaseIs DEF learnt, Inside
<1>2. "SE" \in Term /\ "ED" \in Term /\ "DT" \in Term
  BY DEF Term
<1>3. Plain(ls[1], LevelTerms[Current][1]) /\ Plain(ls[2], LevelTerms[Current][2])
      /\ Plain(ls[3], LevelTerms[Current][3])
  <2>1. CASE Current = "DocContent"
    <3>1. /\ ls[1] = << Doc!Any("SE") >> /\ ls[2] = Doc!If("DTD", Doc!Any("DT"))
          /\ ls[3] = Doc!CMPI
      BY <1>1, <2>1 DEF Doc!Levels
    <3>2. /\ LevelTerms[Current][1] = << "SE" >> /\ LevelTerms[Current][2] = If("DTD", "DT")
          /\ LevelTerms[Current][3] = CMPITerms
      BY <2>1 DEF LevelTerms
    <3>3. /\ Plain(<< Doc!Any("SE") >>, << "SE" >>)
          /\ Plain(Doc!If("DTD", Doc!Any("DT")), If("DTD", "DT"))
      BY ONLY <1>2, PlainSome
    <3> QED BY <3>1, <3>2, <3>3, PlainCMPI
  <2>2. CASE Current = "DocEnd"
    <3>1. ls[1] = << Doc!Any("ED") >> /\ ls[2] = Doc!CMPI /\ ls[3] = << >>
      BY <1>1, <2>2 DEF Doc!Levels
    <3>2. /\ LevelTerms[Current][1] = << "ED" >> /\ LevelTerms[Current][2] = CMPITerms
          /\ LevelTerms[Current][3] = << >>
      BY <2>2 DEF LevelTerms
    <3>3. Plain(<< Doc!Any("ED") >>, << "ED" >>) /\ Plain(<< >>, << >>)
      BY ONLY <1>2, PlainSome
    <3> QED BY <3>1, <3>2, <3>3, PlainCMPI
  <2> QED BY <2>1, <2>2
<1> HIDE DEF ls, Prod
<1>4. ThreeLevels(ls)
  BY <1>3 DEF ThreeLevels, Plain
<1>5. Len(learnt) = 0 /\ size(1) \in Nat
  BY <1>1, OuterCounts
<1>6. Len(ls[1]) = Len(learnt) + size(1)
  BY <1>3, <1>5 DEF Plain, size
<1>7. \A i \in 1 .. size(1) : ls[1][Len(learnt) + i] = Doc!Any(LevelTerms[Current][1][i])
  BY <1>3, <1>5 DEF Plain, size
<1>8. \A i \in 1 .. Len(learnt) : ls[1][i] = Production(learnt[Len(learnt) + 1 - i])
  BY <1>5
<1> QED BY <1>3, <1>4, <1>6, <1>7, <1>8 DEF LevelsMatch, ls

(* Inside an element they are what its grammar has learned, latest first,  *)
(* and then those of the Builder.                                          *)
LEMMA LevelsInside ==
  ASSUME IInv, loop = "running", Current \in Inside
  PROVE  LevelsMatch(Doc!Levels)
<1> DEFINE ls == Doc!Levels  ps == Productions(learnt)  q == Back.name
<1>1. /\ docPhase = "Element" /\ Doc!Top.name = q /\ q \in QName /\ q \in DOMAIN Grammars
      /\ Doc!Top.inStart <=> Current = "StartTagContent"
  BY PhaseIs, InsideIs, TopOfStack DEF Inside
<1>2. docLearned[q] = [start |-> Productions(Grammars[q].StartTag),
                       content |-> Productions(Grammars[q].Element)]
  BY <1>1 DEF docLearned
<1>3. learnt \in Seq(Stores) /\ Len(learnt) \in Nat
  BY LearntIs
<1>4. /\ ps \in Seq(Prod) /\ Len(ps) = Len(learnt)
      /\ \A i \in 1 .. Len(learnt) : ps[i] = Production(learnt[Len(learnt) + 1 - i])
  BY ONLY <1>3, ProductionsOf
<1>5. CASE Current = "StartTagContent"
  <2>1. ls = Doc!StartTagLevels(ps)
    BY <1>1, <1>2, <1>5 DEF Doc!Levels, learnt
  <2>2. ls[1] = ps /\ ls[2] = StartTagItems /\ ls[3] = Doc!CMPI
    BY <2>1 DEF Doc!StartTagLevels, StartTagItems
  <2>3. /\ LevelTerms[Current][1] = << >> /\ LevelTerms[Current][2] = StartTerms
        /\ LevelTerms[Current][3] = CMPITerms
    BY <1>5 DEF LevelTerms
  <2> HIDE DEF ls, ps, Prod
  <2>4. Plain(ls[2], StartTerms) /\ Plain(ls[3], CMPITerms)
    BY <2>2, PlainStart, PlainCMPI
  <2>5. ThreeLevels(ls)
    BY <1>4, <2>2, <2>4 DEF ThreeLevels, Plain
  <2>6. size(1) = 0
    BY <2>3 DEF size
  <2> QED BY <1>3, <1>4, <2>2, <2>3, <2>4, <2>5, <2>6 DEF LevelsMatch, ls
<1>6. CASE Current = "ElementContent"
  <2> DEFINE ee == << Doc!Any("EE") >>
  <2>1. ls = Doc!ElementLevels(ps)
    BY <1>1, <1>2, <1>6 DEF Doc!Levels, learnt
  <2>2. ls[1] = ps \o ee /\ ls[2] = Doc!ChildContentItems /\ ls[3] = Doc!CMPI
    BY <2>1 DEF Doc!ElementLevels
  <2>3. /\ LevelTerms[Current][1] = << "EE" >> /\ LevelTerms[Current][2] = ContentTerms
        /\ LevelTerms[Current][3] = CMPITerms
    BY <1>6 DEF LevelTerms
  <2>4. ee \in Seq(Prod) /\ Len(ee) = 1 /\ ee[1] = Doc!Any("EE")
    <3>1. "EE" \in Term
      BY DEF Term
    <3> HIDE DEF Term, Prod
    <3> QED BY <3>1, AnyIsProd
  <2> HIDE DEF ls, ps, Prod, ee
  <2>5. /\ ls[1] \in Seq(Prod) /\ Len(ls[1]) = Len(ps) + Len(ee)
        /\ \A i \in 1 .. Len(ps) + Len(ee) :
             ls[1][i] = IF i <= Len(ps) THEN ps[i] ELSE ee[i - Len(ps)]
    <3>1. ps \in Seq(Prod) /\ ee \in Seq(Prod) /\ ls[1] = ps \o ee
      BY <1>4, <2>2, <2>4
    <3> QED BY ONLY <3>1, ConcatProperties
  <2>6. Plain(ls[2], ContentTerms) /\ Plain(ls[3], CMPITerms)
    BY <2>2, PlainContent, PlainCMPI
  <2>7. ThreeLevels(ls)
    BY <2>5, <2>6 DEF ThreeLevels, Plain
  <2>8. size(1) = 1 /\ LevelTerms[Current][1][1] = "EE"
    BY <2>3 DEF size
  <2>9. \A i \in 1 .. Len(learnt) : ls[1][i] = Production(learnt[Len(learnt) + 1 - i])
    <3> TAKE i \in 1 .. Len(learnt)
    <3>1. i \in 1 .. Len(ps) + Len(ee) /\ i <= Len(ps)
      BY <1>3, <1>4, <2>4
    <3> QED BY <1>4, <2>5, <3>1
  <2>10. ls[1][Len(learnt) + 1] = Doc!Any("EE")
    BY <1>3, <1>4, <2>4, <2>5
  <2>11. \A i \in 1 .. size(1) : ls[1][Len(learnt) + i] = Doc!Any(LevelTerms[Current][1][i])
    BY <2>8, <2>10
  <2> QED BY <1>3, <1>4, <2>3, <2>4, <2>5, <2>6, <2>7, <2>8, <2>9, <2>11 DEF LevelsMatch, ls
<1> QED BY <1>5, <1>6 DEF Inside

(***************************************************************************)
(* The event decoded is the one at the place of its code.                  *)
(***************************************************************************)

Levels(ls) == LevelsMatch(ls) /\ Current \in Coded /\ IInv

(* How many codes the levels have in a coded state. *)
LEMMA SizesIs ==
  ASSUME Current \in Coded
  PROVE  /\ size(1) \in 0 .. 1 /\ size(2) \in Nat /\ size(3) \in Nat
         /\ log2 \in Nat /\ log3 \in Nat
<1>1. size(1) \in 0 .. 1 /\ size(2) \in Nat /\ size(3) \in Nat
  <2>1. CASE Current \in {"DocContent", "DocEnd"}
    BY <2>1, OuterCounts
  <2>2. CASE Current \in Inside
    BY <2>2, InnerCounts DEF Inside
  <2> QED BY <2>1, <2>2 DEF Coded, Inside
<1>2. log3 \in Nat
  BY <1>1, CeilLog2Value DEF log3
<1>3. log2 \in Nat
  <2>1. size(2) + More(size(3)) \in Nat
    BY <1>1 DEF More
  <2> HIDE DEF size
  <2> QED BY <2>1, CeilLog2Value DEF log2
<1> QED BY <1>1, <1>2, <1>3

(* The width of the first level, with what was learned. *)
width1 == CeilLog2(Len(learnt) + size(1) + More(size(2) + size(3)))

(* The width the table gives a level is the one the decoder reads it in. *)
LEMMA WidthsMatch ==
  ASSUME NEW ls, Levels(ls)
  PROVE  /\ Doc!Width(ls, 1) = width1 /\ Doc!Width(ls, 2) = log2 /\ Doc!Width(ls, 3) = log3
         /\ Len(ls[2]) = size(2) /\ Len(ls[3]) = size(3)
<1>1. /\ ThreeLevels(ls) /\ Len(ls[1]) = Len(learnt) + size(1)
      /\ Len(ls[2]) = size(2) /\ Len(ls[3]) = size(3)
  BY DEF Levels, LevelsMatch, Plain, size
<1>2. size(1) \in Nat /\ size(2) \in Nat /\ size(3) \in Nat /\ Len(learnt) \in Nat
  BY SizesIs, LearntIs DEF Levels
<1>3. (ls[2] = << >> <=> size(2) = 0) /\ (ls[3] = << >> <=> size(3) = 0)
  <2>1. ls[2] \in Seq(Prod) /\ ls[3] \in Seq(Prod)
    BY <1>1 DEF ThreeLevels
  <2> QED BY <1>1, <2>1, EmptySeq
<1>4. Escapes(ls, 1) = More(size(2) + size(3))
  <2>1. (\E k \in 1 + 1 .. 3 : ls[k] # << >>) <=> (ls[2] # << >> \/ ls[3] # << >>)
    <3>1. 1 + 1 .. 3 = {2, 3}
      OBVIOUS
    <3> QED BY <3>1
  <2> QED BY <1>2, <1>3, <2>1 DEF Escapes, More
<1>5. Escapes(ls, 2) = More(size(3))
  <2>1. (\E k \in 2 + 1 .. 3 : ls[k] # << >>) <=> ls[3] # << >>
    <3>1. 2 + 1 .. 3 = {3}
      OBVIOUS
    <3> QED BY <3>1
  <2> QED BY <1>2, <1>3, <2>1 DEF Escapes, More
<1>6. Escapes(ls, 3) = 0
  <2>1. 3 + 1 .. 3 = {}
    OBVIOUS
  <2> QED BY <2>1 DEF Escapes
<1>7. \A lv \in 1 .. 3 : Doc!Width(ls, lv) = CeilLog2(Len(ls[lv]) + Escapes(ls, lv))
  BY <1>1, WidthFits
<1>8. size(3) + 0 = size(3)
  BY <1>2
<1> QED BY <1>1, <1>4, <1>5, <1>6, <1>7, <1>8 DEF width1, log2, log3

(* getTerm, with the width the grammar keeps.                              *)
Learnt(s, o) ==
  [term |-> learnt[Len(learnt) - o].term, name |-> learnt[Len(learnt) - o].name, used |-> width1]

(* decodeTermGrammar reads one index; it is a learned production when it   *)
(* is below their number, and goes on in the schema's grammar when it is   *)
(* not.                                                                    *)
LEMMA GrammarReads ==
  ASSUME IInv, Current \in Inside, NEW s, NEW o \in 0 .. Len(learnt) + size(1),
         Carries(s, 0, o, width1)
  PROVE  /\ width1 \in Nat
         /\ decodeTermGrammar(s) = IF o < Len(learnt) THEN Learnt(s, o)
                                   ELSE decodeTerm(s, width1, 1, o - Len(learnt))
<1> DEFINE g == Grammars[Back.name]
<1>1. /\ learnt = IF Back.int THEN g.StartTag ELSE g.Element
      /\ Back.int <=> Current = "StartTagContent"
      /\ g.StartTagLog = CeilLog2(Len(g.StartTag) + 1)
      /\ g.ElementLog = CeilLog2(Len(g.Element) + 2)
  BY InsideIs DEF GrammarOK
<1>2. Len(learnt) \in Nat
  BY LearntIs
<1>3. size(1) = (IF Current = "ElementContent" THEN 1 ELSE 0) /\ More(size(2) + size(3)) = 1
  <2>1. /\ size(1) = IF Current = "ElementContent" THEN 1 ELSE 0
        /\ size(2) \in 2 .. 7 /\ size(3) \in 0 .. 2
    BY InnerCounts DEF Inside
  <2> QED BY <2>1 DEF More
<1> DEFINE n == Len(learnt) + size(1) + 1
<1>4. width1 = CeilLog2(n) /\ n \in Nat /\ o \in Nat /\ o < n
  BY <1>2, <1>3 DEF width1
<1>5. width1 = IF Back.int THEN g.StartTagLog ELSE g.ElementLog
  <2>1. CASE Current = "StartTagContent"
    <3>1. n = Len(learnt) + 1
      BY <1>2, <1>3, <2>1
    <3> QED BY <1>1, <1>4, <2>1, <3>1
  <2>2. CASE Current = "ElementContent"
    <3>1. n = Len(learnt) + 2
      BY <1>2, <1>3, <2>2
    <3> QED BY <1>1, <1>4, <2>2, <3>1
  <2> QED BY <2>1, <2>2 DEF Inside
<1> HIDE DEF n
<1>6. width1 \in Nat /\ o < Pow2[width1]
  <2>1. width1 \in 0 .. n /\ Pow2[width1] >= n
    BY <1>4, CeilLog2Value
  <2>2. width1 \in Nat /\ Pow2[width1] \in Nat
    BY <1>4, <2>1, Pow2Value
  <2> QED BY <1>4, <2>1, <2>2
<1>7. readBits64(s, 0, width1) = o
  BY <1>4, <1>6, ReadBack
<1> QED BY <1>1, <1>5, <1>6, <1>7 DEF decodeTermGrammar, Learnt

decoded(s) == IF Current \in Inside THEN decodeTermGrammar(s) ELSE decodeTerm(s, 0, 0, 0)

(* What decode() should make of the code at place p. *)
Given(p, k) ==
  IF p[1] = 1 /\ p[2] <= Len(learnt)
  THEN [term |-> learnt[Len(learnt) + 1 - p[2]].term,
        name |-> learnt[Len(learnt) + 1 - p[2]].name, used |-> k]
  ELSE Decoded(LevelTerms[Current][p[1]][IF p[1] = 1 THEN p[2] - Len(learnt) ELSE p[2]], k)

(* Where an event's production can be. *)
LEMMA PlaceIn ==
  ASSUME NEW ls, Levels(ls), NEW e, Doc!Places(ls, e) # {}, NEW p, p = Doc!Place(ls, e)
  PROVE  /\ p[1] \in 1 .. 3 /\ p[2] \in Nat \ {0}
         /\ p[1] = 1 => p[2] <= Len(learnt) + size(1)
         /\ p[1] = 2 => p[2] <= size(2)
         /\ p[1] = 3 => p[2] <= size(3)
         /\ Doc!Matches(ls[p[1]][p[2]], e)
         /\ \A lv \in 1 .. 3 : \A i \in 1 .. Len(ls[lv]) :
              Doc!Matches(ls[lv][i], e) => p[1] < lv \/ (p[1] = lv /\ p[2] <= i)
<1>1. /\ p[1] \in 1 .. 3 /\ p[2] \in 1 .. Len(ls[p[1]])
      /\ Doc!Matches(ls[p[1]][p[2]], e)
      /\ \A lv \in 1 .. 3 : \A i \in 1 .. Len(ls[lv]) :
           Doc!Matches(ls[lv][i], e) => p[1] < lv \/ (p[1] = lv /\ p[2] <= i)
  BY PlaceIsFirst DEF Levels, LevelsMatch
<1>2. Len(ls[1]) = Len(learnt) + size(1) /\ Len(ls[2]) = size(2) /\ Len(ls[3]) = size(3)
  BY WidthsMatch DEF Levels, LevelsMatch
<1>3. size(1) \in Nat /\ size(2) \in Nat /\ size(3) \in Nat /\ Len(learnt) \in Nat
  BY SizesIs, LearntIs DEF Levels
<1>4. p[2] \in Nat \ {0}
  BY <1>1, <1>2, <1>3
<1>5. p[1] = 1 => p[2] <= Len(learnt) + size(1)
  BY <1>1, <1>2, <1>3
<1>6. ASSUME p[1] = 2 PROVE p[2] <= size(2)
  <2>1. p[2] \in 1 .. size(2)
    BY <1>1, <1>2, <1>6
  <2> QED BY <1>3, <2>1
<1>7. ASSUME p[1] = 3 PROVE p[2] <= size(3)
  <2>1. p[2] \in 1 .. size(3)
    BY <1>1, <1>2, <1>7
  <2> QED BY <1>3, <2>1
<1> QED BY <1>1, <1>4, <1>5, <1>6, <1>7

(* The code of an event, in the widths the decoder reads. *)
LEMMA CodeParts ==
  ASSUME NEW ls, Levels(ls), NEW e, Doc!Places(ls, e) # {}
  PROVE  CodeOf(Doc!Code(ls, e), Doc!Place(ls, e), Len(learnt) + size(1), size(2),
                width1, log2, log3)
<1>1. ThreeLevels(ls) /\ Len(ls[1]) = Len(learnt) + size(1)
  BY DEF Levels, LevelsMatch
<1>2. /\ Doc!Width(ls, 1) = width1 /\ Doc!Width(ls, 2) = log2 /\ Doc!Width(ls, 3) = log3
      /\ Len(ls[2]) = size(2)
  BY WidthsMatch
<1>3. CodeOf(Doc!Code(ls, e), Doc!Place(ls, e), Len(ls[1]), Len(ls[2]),
             Doc!Width(ls, 1), Doc!Width(ls, 2), Doc!Width(ls, 3))
  BY <1>1, CodeCarries
<1> QED BY <1>1, <1>2, <1>3

(* Outside the root element, decoding the code of an event gives the term  *)
(* at its place and reads the whole code.                                  *)
LEMMA DecodedOutside ==
  ASSUME NEW ls, Levels(ls), Current \notin Inside, NEW e, Doc!Places(ls, e) # {},
         NEW s, s = Doc!Code(ls, e), NEW p, p = Doc!Place(ls, e)
  PROVE  decoded(s) = Given(p, Len(s))
<1>1. Current \in {"DocContent", "DocEnd"} /\ learnt = << >> /\ Len(learnt) = 0
  BY DEF Levels, Coded, Inside, learnt
<1>2. size(1) = 1 /\ size(2) \in 0 .. 2 /\ size(3) \in 0 .. 2
  BY <1>1, OuterCounts
<1>3. width1 = log1 /\ Len(learnt) + size(1) = 1
  <2>1. Len(learnt) + size(1) = 1
    BY <1>1, <1>2
  <2> QED BY <2>1 DEF width1, log1
<1>4. /\ p[1] \in 1 .. 3 /\ p[2] \in Nat \ {0}
      /\ p[1] = 1 => p[2] <= 1
      /\ p[1] = 2 => p[2] <= size(2)
      /\ p[1] = 3 => p[2] <= size(3)
  BY <1>3, PlaceIn
<1>5. CodeOf(s, p, 1, size(2), log1, log2, log3)
  BY <1>3, CodeParts
<1>6. decoded(s) = decodeTerm(s, 0, 0, 0)
  BY DEF decoded
<1>7. CASE p[1] = 1
  <2>1. p[2] = 1 /\ p[2] - 1 = 0 /\ ~ (p[2] <= Len(learnt)) /\ p[2] - Len(learnt) = 1
    BY <1>1, <1>4, <1>7
  <2>2. Len(s) = log1 /\ Carries(s, 0, 0, log1)
    BY <1>5, <1>7, <2>1 DEF CodeOf
  <2>3. decodeTerm(s, 0, 0, 0) = Decoded(LevelTerms[Current][1][1], log1)
    BY <1>1, <2>2, DecodeOuterFirst
  <2> QED BY <1>6, <1>7, <2>1, <2>2, <2>3 DEF Given
<1>8. CASE p[1] = 2
  <2> DEFINE v == p[2] - 1
  <2>1. v \in 0 .. size(2) - 1 /\ v + 1 = p[2]
    BY <1>2, <1>4, <1>8
  <2>2. Len(s) = log1 + log2 /\ Carries(s, 0, 1, log1) /\ Carries(s, log1, v, log2)
    BY <1>5, <1>8 DEF CodeOf
  <2> HIDE DEF v
  <2>3. decodeTerm(s, 0, 0, 0) = Decoded(LevelTerms[Current][2][v + 1], log1 + log2)
    BY <1>1, <2>1, <2>2, DecodeOuterSecond
  <2> QED BY <1>6, <1>8, <2>1, <2>2, <2>3 DEF Given
<1>9. CASE p[1] = 3
  <2> DEFINE v == p[2] - 1
  <2>1. v \in 0 .. size(3) - 1 /\ v + 1 = p[2]
    BY <1>2, <1>4, <1>9
  <2>2. /\ Len(s) = log1 + log2 + log3 /\ Carries(s, 0, 1, log1)
        /\ Carries(s, log1, size(2), log2) /\ Carries(s, log1 + log2, v, log3)
    BY <1>5, <1>9 DEF CodeOf
  <2> HIDE DEF v
  <2>3. decodeTerm(s, 0, 0, 0) = Decoded(LevelTerms[Current][3][v + 1], log1 + log2 + log3)
    BY <1>1, <2>1, <2>2, DecodeOuterThird
  <2> QED BY <1>6, <1>9, <2>1, <2>2, <2>3 DEF Given
<1> QED BY <1>4, <1>7, <1>8, <1>9

(* Inside an element, decoding the code of an event gives the production   *)
(* at its place, learned or not, and reads the whole code.                 *)
LEMMA DecodedInside ==
  ASSUME NEW ls, Levels(ls), Current \in Inside, NEW e, Doc!Places(ls, e) # {},
         NEW s, s = Doc!Code(ls, e), NEW p, p = Doc!Place(ls, e)
  PROVE  decoded(s) = Given(p, Len(s))
<1> DEFINE L == Len(learnt)
<1>1. /\ L \in Nat /\ IInv
      /\ Current \in {"StartTagContent", "ElementContent"}
  BY LearntIs DEF Levels, Inside
<1>2. /\ size(1) = (IF Current = "ElementContent" THEN 1 ELSE 0)
      /\ size(2) \in 2 .. 7 /\ size(3) \in 0 .. 2
  BY <1>1, InnerCounts
<1>3. /\ p[1] \in 1 .. 3 /\ p[2] \in Nat \ {0}
      /\ p[1] = 1 => p[2] <= L + size(1)
      /\ p[1] = 2 => p[2] <= size(2)
      /\ p[1] = 3 => p[2] <= size(3)
  BY PlaceIn
<1>4. CodeOf(s, p, L + size(1), size(2), width1, log2, log3)
  BY CodeParts
<1>5. decoded(s) = decodeTermGrammar(s)
  BY DEF decoded
<1>6. ASSUME NEW o \in 0 .. L + size(1), Carries(s, 0, o, width1)
      PROVE  /\ width1 \in Nat
             /\ decodeTermGrammar(s) = IF o < L THEN Learnt(s, o)
                                       ELSE decodeTerm(s, width1, 1, o - L)
  BY <1>1, <1>6, GrammarReads
<1>7. CASE p[1] = 1
  <2> DEFINE o == p[2] - 1
  <2>1. o \in 0 .. L + size(1)
    BY <1>1, <1>2, <1>3, <1>7
  <2>2. Len(s) = width1 /\ Carries(s, 0, o, width1)
    BY <1>4, <1>7 DEF CodeOf
  <2>3. /\ width1 \in Nat
        /\ decodeTermGrammar(s) = IF o < L THEN Learnt(s, o)
                                  ELSE decodeTerm(s, width1, 1, o - L)
    <3> HIDE DEF o
    <3> QED BY <1>6, <2>1, <2>2
  <2>4. CASE p[2] <= L
    <3>1. o < L /\ L - o = L + 1 - p[2]
      BY <1>1, <1>3, <2>4
    <3> QED BY <1>5, <1>7, <2>2, <2>3, <2>4, <3>1 DEF Given, Learnt
  <2>5. CASE ~ (p[2] <= L)
    <3>1. Current = "ElementContent" /\ o = L /\ p[2] - L = 1 /\ o - L = 0 /\ ~ (o < L)
      BY <1>1, <1>2, <1>3, <1>7, <2>5
    <3>2. decodeTerm(s, width1, 1, 0) = Decoded("EE", width1)
      BY <2>3, <3>1, DecodeInner
    <3>3. LevelTerms[Current][1][1] = "EE"
      BY <3>1 DEF LevelTerms
    <3> QED BY <1>5, <1>7, <2>2, <2>3, <2>5, <3>1, <3>2, <3>3 DEF Given
  <2> QED BY <2>4, <2>5
<1> DEFINE o == L + size(1)
<1>8. o \in 0 .. L + size(1) /\ ~ (o < L) /\ o - L = size(1)
  BY <1>1, <1>2
<1>9. Carries(s, 0, o, width1)
      => width1 \in Nat /\ decodeTermGrammar(s) = decodeTerm(s, width1, 1, size(1))
  BY <1>6, <1>8
<1>10. CASE p[1] = 2
  <2> DEFINE v == p[2] - 1
  <2>1. v \in 0 .. size(2) - 1 /\ v + 1 = p[2]
    BY <1>2, <1>3, <1>10
  <2>2. Len(s) = width1 + log2 /\ Carries(s, 0, o, width1) /\ Carries(s, width1, v, log2)
    BY <1>4, <1>10 DEF CodeOf
  <2> HIDE DEF v, o
  <2>3. decodeTerm(s, width1, 1, size(1)) = Decoded(LevelTerms[Current][2][v + 1], width1 + log2)
    BY <1>1, <1>9, <2>1, <2>2, DecodeInner
  <2> QED BY <1>5, <1>9, <1>10, <2>1, <2>2, <2>3 DEF Given
<1>11. CASE p[1] = 3
  <2> DEFINE v == p[2] - 1
  <2>1. v \in 0 .. size(3) - 1 /\ v + 1 = p[2]
    BY <1>2, <1>3, <1>11
  <2>2. /\ Len(s) = width1 + log2 + log3 /\ Carries(s, 0, o, width1)
        /\ Carries(s, width1, size(2), log2) /\ Carries(s, width1 + log2, v, log3)
    BY <1>4, <1>11 DEF CodeOf
  <2> HIDE DEF v, o
  <2>3. decodeTerm(s, width1, 1, size(1))
          = Decoded(LevelTerms[Current][3][v + 1], width1 + log2 + log3)
    BY <1>1, <1>9, <2>1, <2>2, DecodeInner
  <2> QED BY <1>5, <1>9, <1>11, <2>1, <2>2, <2>3 DEF Given
<1> QED BY <1>3, <1>7, <1>10, <1>11

(* Which terms the Builder's lists are made of. *)
LEMMA TermRanges ==
  /\ CMPITerms \in Seq({"CM", "PI"})
  /\ ContentTerms \in Seq({"SE", "CH", "ER"})
  /\ StartTerms \in Seq({"EE", "AT", "NS", "SC", "SE", "CH", "ER"})
<1> DEFINE A == {"CM", "PI"}  B == {"SE", "CH", "ER"}
           C == {"EE", "AT", "NS", "SC", "SE", "CH", "ER"}
<1>1. \A T, o : \A t \in T : If(o, t) \in Seq(T)
  BY DEF If
<1>2. If("CM", "CM") \in Seq(A) /\ If("PI", "PI") \in Seq(A)
  <2>1. "CM" \in A /\ "PI" \in A
    OBVIOUS
  <2> HIDE DEF A
  <2> QED BY <1>1, <2>1
<1>3. CMPITerms \in Seq(A)
  BY ONLY <1>2, ConcatProperties DEF CMPITerms
<1>4. /\ If("DTD", "ER") \in Seq(B) /\ << "SE", "CH" >> \in Seq(B)
  <2>1. "SE" \in B /\ "CH" \in B /\ "ER" \in B
    OBVIOUS
  <2> HIDE DEF B
  <2> QED BY <1>1, <2>1
<1>5. ContentTerms \in Seq(B)
  BY ONLY <1>4, ConcatProperties DEF ContentTerms
<1>6. /\ If("NS", "NS") \in Seq(C) /\ If("SC", "SC") \in Seq(C) /\ << "EE", "AT" >> \in Seq(C)
  <2>1. "EE" \in C /\ "AT" \in C /\ "NS" \in C /\ "SC" \in C
    OBVIOUS
  <2> HIDE DEF C
  <2> QED BY <1>1, <2>1
<1>7. StartHead \in Seq(C)
  BY ONLY <1>6, Concat3 DEF StartHead, ThreeParts
<1>8. ContentTerms \in Seq(C)
  <2>1. B \subseteq C
    OBVIOUS
  <2> HIDE DEF B, C
  <2> QED BY <1>5, <2>1
<1>9. StartTerms \in Seq(C)
  <2>1. StartTerms = StartHead \o ContentTerms
    BY DEF StartTerms, StartHead
  <2> QED BY ONLY <1>7, <1>8, <2>1, ConcatProperties
<1> QED BY <1>3, <1>5, <1>9

(* What an event that a document may have next looks like. *)
LEMMA EventIs ==
  ASSUME IInv, loop = "running", NEW e \in Doc!Events
  PROVE  /\ e = [term |-> e.term, name |-> e.name]
         /\ e.term \in Term /\ Doc!Places(Doc!Levels, e) # {}
         /\ e.term \in {"SE", "AT"} => e.name \in QName
         /\ e.term \in {"CH", "EE"} => Current \in Inside /\ e.name = Back.name
         /\ e.term \notin {"SE", "AT", "CH", "EE"} => e.name = None
         /\ Current = "StartTagContent" => e.term \in StartContent
<1>1. PICK t \in IF docPhase = "Element" THEN Doc!Terms ELSE Doc!Terms \ {"CH", "EE"} :
        e \in [term : {t}, name : Doc!Names(t)]
  BY DEF Doc!Events
<1>2. e = [term |-> e.term, name |-> e.name] /\ e.term = t /\ e.name \in Doc!Names(t)
  BY <1>1
<1>3. Doc!Places(Doc!Levels, e) # {}
  BY DEF Doc!Events
<1>4. t \in Term
  BY <1>1 DEF Doc!Terms, Term
<1>5. t \in {"CH", "EE"} => docPhase = "Element"
  BY <1>1
<1>6. docPhase = "Element" => Current \in Inside
  <2>1. Current # "Element"
    BY DEF IInv, TypeOK, Grammar
  <2> QED BY <2>1, PhaseIs
<1>7. Current \in Inside => Doc!Top.name = Back.name
  BY InsideIs, TopOfStack
<1>8. t \in {"SE", "AT"} => e.name \in QName
  BY <1>2 DEF Doc!Names
<1>9. t \in {"CH", "EE"} => Current \in Inside /\ e.name = Back.name
  BY <1>2, <1>5, <1>6, <1>7 DEF Doc!Names
<1>10. t \notin {"SE", "AT", "CH", "EE"} => e.name = None
  BY <1>2 DEF Doc!Names
<1>11. Current = "StartTagContent" => e.term \in StartContent
  <2> SUFFICES ASSUME Current = "StartTagContent" PROVE e.term \in StartContent
    OBVIOUS
  <2>1. docPhase = "Element" /\ Doc!Top.inStart
    BY PhaseIs, InsideIs, TopOfStack DEF Inside
  <2> QED BY <2>1 DEF Doc!Events
<1> QED BY <1>2, <1>3, <1>4, <1>8, <1>9, <1>10, <1>11

(* A learned production matches, or the term of the Builder's tables.      *)
Recalls(d, e) ==
  \E i \in 1 .. Len(learnt) :
    /\ d.term = learnt[i].term /\ d.name = learnt[i].name
    /\ Doc!Matches(Production(learnt[i]), e)

(* Nothing learned so far matches. *)
IsNew(e) == \A i \in 1 .. Len(learnt) : ~ Doc!Matches(Production(learnt[i]), e)

(* The terms a state has, and those of one of its levels. *)
Expected(c) ==
  CASE c = "DocContent" -> {"SE", "DT", "CM", "PI"}
    [] c = "DocEnd" -> {"ED", "CM", "PI"}
    [] c = "StartTagContent" -> {"EE", "AT", "NS", "SC", "SE", "CH", "ER", "CM", "PI"}
    [] c = "ElementContent" -> {"EE", "SE", "CH", "ER", "CM", "PI"}

LevelExpected(c, lv) ==
  CASE lv = 3 -> {"CM", "PI"}
    [] lv = 2 -> (CASE c = "DocContent" -> {"DT"}
                    [] c = "DocEnd" -> {"CM", "PI"}
                    [] c = "StartTagContent" -> {"EE", "AT", "NS", "SC", "SE", "CH", "ER"}
                    [] c = "ElementContent" -> {"SE", "CH", "ER"})
    [] lv = 1 -> (CASE c = "DocContent" -> {"SE"}
                    [] c = "DocEnd" -> {"ED"}
                    [] c = "StartTagContent" -> {}
                    [] c = "ElementContent" -> {"EE"})

(* Which terms a level of a state has. *)
LEMMA LevelTermsIn ==
  ASSUME NEW c \in Coded, NEW lv \in 1 .. 3, NEW i \in 1 .. Len(LevelTerms[c][lv])
  PROVE  LevelTerms[c][lv][i] \in LevelExpected(c, lv) /\ LevelExpected(c, lv) \subseteq Expected(c)
<1>0. \A T : \A l \in Seq(T) : \A j \in 1 .. Len(l) : l[j] \in T
  OBVIOUS
<1>1. \A j \in 1 .. Len(CMPITerms) : CMPITerms[j] \in {"CM", "PI"}
  BY ONLY <1>0, TermRanges
<1>2. \A j \in 1 .. Len(ContentTerms) : ContentTerms[j] \in {"SE", "CH", "ER"}
  BY ONLY <1>0, TermRanges
<1>3. \A j \in 1 .. Len(StartTerms) :
        StartTerms[j] \in {"EE", "AT", "NS", "SC", "SE", "CH", "ER"}
  BY ONLY <1>0, TermRanges
<1>4. \A j \in 1 .. Len(If("DTD", "DT")) : If("DTD", "DT")[j] = "DT"
  BY DEF If
<1>5. LevelExpected(c, lv) \subseteq Expected(c)
  BY DEF LevelExpected, Expected, Coded
<1>6. CASE c = "DocContent"
  BY <1>1, <1>4, <1>5, <1>6 DEF LevelTerms, LevelExpected
<1>7. CASE c = "DocEnd"
  BY <1>1, <1>5, <1>7 DEF LevelTerms, LevelExpected
<1>8. CASE c = "StartTagContent"
  BY <1>1, <1>3, <1>5, <1>8 DEF LevelTerms, LevelExpected
<1>9. CASE c = "ElementContent"
  BY <1>1, <1>2, <1>5, <1>9 DEF LevelTerms, LevelExpected
<1> QED BY <1>6, <1>7, <1>8, <1>9 DEF Coded

(* Decoding the code of an event finds a learned production that matches   *)
(* it, or else its own term, on the second level exactly when the table    *)
(* says it is learned.                                                     *)
LEMMA EventDecoded ==
  ASSUME IInv, loop = "running", Current \in Coded, NEW e \in Doc!Events,
         NEW s, s = Doc!Code(Doc!Levels, e), NEW d, d = decoded(s)
  PROVE  /\ d.used = Len(s)
         /\ \/ /\ Recalls(d, e)
               /\ ~ Doc!Learns(Doc!Levels, e)
            \/ /\ d.term = e.term /\ d.name = None /\ IsNew(e)
               /\ e.term \in Expected(Current)
               /\ Doc!Learns(Doc!Levels, e)
                    <=> /\ Current \in Inside /\ e.term \in {"SE", "AT", "CH", "EE"}
                        /\ ~ (Current = "ElementContent" /\ e.term = "EE")
<1> DEFINE ls == Doc!Levels  p == Doc!Place(ls, e)  L == Len(learnt)
           lts == LevelTerms[Current]
<1>1. Levels(ls)
  BY LevelsInside, LevelsOutside DEF Levels, Coded, Inside
<1>2. Doc!Places(ls, e) # {} /\ e.term \in Term
  BY EventIs
<1>3. d = Given(p, Len(s))
  BY <1>1, <1>2, DecodedInside, DecodedOutside
<1>4. /\ p[1] \in 1 .. 3 /\ p[2] \in Nat \ {0}
      /\ p[1] = 1 => p[2] <= L + size(1)
      /\ p[1] = 2 => p[2] <= size(2)
      /\ p[1] = 3 => p[2] <= size(3)
      /\ Doc!Matches(ls[p[1]][p[2]], e)
      /\ \A lv \in 1 .. 3 : \A i \in 1 .. Len(ls[lv]) :
           Doc!Matches(ls[lv][i], e) => p[1] < lv \/ (p[1] = lv /\ p[2] <= i)
  BY <1>1, <1>2, PlaceIn
<1>5. L \in Nat /\ size(1) \in 0 .. 1 /\ size(2) \in Nat /\ size(3) \in Nat
  BY LearntIs, SizesIs
<1>6. /\ Len(ls[1]) = L + size(1)
      /\ \A i \in 1 .. L : ls[1][i] = Production(learnt[L + 1 - i])
      /\ \A i \in 1 .. size(1) : ls[1][L + i] = Doc!Any(lts[1][i])
      /\ \A i \in 1 .. size(2) : ls[2][i] = Doc!Any(lts[2][i])
      /\ \A i \in 1 .. size(3) : ls[3][i] = Doc!Any(lts[3][i])
  BY <1>1 DEF Levels, LevelsMatch, Plain, size
<1>7. Doc!Learns(ls, e) <=> /\ Current \in Inside /\ e.term \in {"SE", "AT", "CH", "EE"}
                            /\ p[1] = 2
  <2>1. docPhase = "Element" <=> Current \in Inside
    BY PhaseIs DEF Coded, Inside
  <2> QED BY <2>1 DEF Doc!Learns
<1> HIDE DEF ls, p
<1>8. CASE p[1] = 1 /\ p[2] <= L
  <2> DEFINE i == L + 1 - p[2]
  <2>1. i \in 1 .. L /\ p[2] \in 1 .. L
    BY <1>4, <1>5, <1>8
  <2>2. d.term = learnt[i].term /\ d.name = learnt[i].name /\ d.used = Len(s)
    BY <1>3, <1>8 DEF Given
  <2>3. Doc!Matches(Production(learnt[i]), e)
    BY <1>4, <1>6, <1>8, <2>1
  <2>4. ~ Doc!Learns(ls, e)
    BY <1>7, <1>8
  <2> HIDE DEF i, L
  <2>5. Recalls(d, e)
    BY <2>1, <2>2, <2>3 DEF Recalls, L
  <2> QED BY <2>2, <2>4, <2>5 DEF ls
<1>9. CASE ~ (p[1] = 1 /\ p[2] <= L)
  <2> DEFINE i == IF p[1] = 1 THEN p[2] - L ELSE p[2]
             t == lts[p[1]][i]
  <2>1. d = Decoded(t, Len(s))
    BY <1>3, <1>9 DEF Given
  <2>2. i \in 1 .. size(p[1]) /\ ls[p[1]][p[2]] = Doc!Any(t)
    <3>1. CASE p[1] = 1
      <4>1. i \in 1 .. size(1) /\ L + i = p[2]
        BY <1>4, <1>5, <1>9, <3>1
      <4> QED BY <1>6, <3>1, <4>1
    <3>2. CASE p[1] = 2
      <4>1. i \in 1 .. size(2) /\ i = p[2]
        BY <1>4, <1>5, <3>2
      <4> QED BY <1>6, <3>2, <4>1
    <3>3. CASE p[1] = 3
      <4>1. i \in 1 .. size(3) /\ i = p[2]
        BY <1>4, <1>5, <3>3
      <4> QED BY <1>6, <3>3, <4>1
    <3> QED BY <1>4, <3>1, <3>2, <3>3
  <2>3. t \in LevelExpected(Current, p[1]) /\ t \in Expected(Current)
    <3>1. i \in 1 .. Len(LevelTerms[Current][p[1]])
      BY <2>2 DEF size
    <3> HIDE DEF i
    <3> QED BY <1>4, <3>1, LevelTermsIn
  <2> HIDE DEF t
  <2>4. e.term = t
    BY <1>4, <2>2 DEF Doc!Matches, Doc!Any, Doc!Prod
  <2>5. IsNew(e)
    <3> SUFFICES ASSUME NEW j \in 1 .. Len(learnt), Doc!Matches(Production(learnt[j]), e)
                 PROVE  FALSE
      BY DEF IsNew
    <3> DEFINE k == L + 1 - j
    <3>1. k \in 1 .. L /\ L + 1 - k = j /\ k \in 1 .. Len(ls[1])
      BY <1>5, <1>6
    <3>2. Doc!Matches(ls[1][k], e)
      BY <1>6, <3>1
    <3>3. p[1] < 1 \/ (p[1] = 1 /\ p[2] <= k)
      <4> HIDE DEF k
      <4> QED BY <1>4, <3>1, <3>2
    <3>4. k \in Nat /\ k <= L
      BY <1>5, <3>1
    <3> HIDE DEF k
    <3>5. p[1] = 1
      BY <1>4, <3>3
    <3>6. p[2] <= k /\ p[2] \in Nat
      BY <1>4, <3>3, <3>5
    <3>7. p[2] <= L
      BY <1>5, <3>4, <3>6
    <3> QED BY <1>9, <3>5, <3>7
  <2>6. ASSUME Current \in Inside, e.term \in {"SE", "AT", "CH", "EE"}
        PROVE  p[1] = 2 <=> ~ (Current = "ElementContent" /\ e.term = "EE")
    <3>1. p[1] = 1 => t = "EE" /\ Current = "ElementContent"
      BY <2>3, <2>6 DEF LevelExpected, Inside
    <3>2. p[1] = 3 => t \in {"CM", "PI"}
      BY <2>3 DEF LevelExpected
    <3>3. p[1] = 2 /\ Current = "ElementContent" => t # "EE"
      BY <2>3 DEF LevelExpected
    <3> QED BY <1>4, <2>4, <2>6, <3>1, <3>2, <3>3
  <2>7. d.term = e.term /\ d.name = None /\ d.used = Len(s)
    BY <2>1, <2>4 DEF Decoded
  <2>8. e.term \in Expected(Current)
    BY <2>3, <2>4
  <2> HIDE DEF i
  <2> QED BY <1>7, <2>5, <2>6, <2>7, <2>8 DEF ls
<1> QED BY <1>8, <1>9

(***************************************************************************)
(* What decode() does with an event.                                       *)
(***************************************************************************)

(* Documents that put no comment, processing instruction or entity         *)
(* reference first in an element's start tag.                              *)
OrdinaryContent == StartContent \cap {"CM", "PI", "ER"} = {}

(* The table says that e is learned. *)
Learns(e) == Doc!Learns(Doc!Levels, e)

(* What a handler can find decoded inside an element. *)
InsideCases(d, e) ==
  /\ d.term \in {"EE", "AT", "ATQName", "NS", "SC", "SEQName", "SE", "CH", "CHExtern",
                 "ER", "CM", "PI"}
  /\ Kind(d.term) = e.term
  /\ d.term \in {"AT", "ATQName", "NS", "SC"} => Current = "StartTagContent"
  /\ d.term \in {"ER", "CM", "PI"} => Current = "ElementContent"
  /\ d.term \in {"SEQName", "ATQName"} => d.name = e.name
  /\ d.term \in {"AT", "SE", "CH"} => Learns(e) /\ IsNew(e)
  /\ d.term \in {"ATQName", "SEQName", "CHExtern", "NS", "SC", "ER", "CM", "PI"} => ~ Learns(e)
  /\ d.term = "EE" /\ Current = "ElementContent" => ~ Learns(e)
  /\ d.term = "EE" /\ Current = "StartTagContent" =>
       (d.name = None <=> Learns(e)) /\ (d.name = None => IsNew(e))

(* The cases of handleStartTag and handleElement for the code of an        *)
(* event.                                                                  *)
LEMMA InsideDecoded ==
  ASSUME IInv, loop = "running", Current \in Inside, NEW e \in Doc!Events,
         NEW s, s = Doc!Code(Doc!Levels, e), NEW d, d = decoded(s), OrdinaryContent
  PROVE  d.used = Len(s) /\ InsideCases(d, e)
<1>1. /\ d.used = Len(s)
      /\ \/ /\ Recalls(d, e)
            /\ ~ Learns(e)
         \/ /\ d.term = e.term /\ d.name = None /\ IsNew(e)
            /\ e.term \in Expected(Current)
            /\ Learns(e)
                 <=> /\ Current \in Inside /\ e.term \in {"SE", "AT", "CH", "EE"}
                     /\ ~ (Current = "ElementContent" /\ e.term = "EE")
  <2>1. Current \in Coded
    BY DEF Coded, Inside
  <2> QED BY <2>1, EventDecoded DEF Learns
<1>2. CASE Recalls(d, e) /\ ~ Learns(e)
  <2>1. PICK i \in 1 .. Len(learnt) :
          /\ d.term = learnt[i].term /\ d.name = learnt[i].name
          /\ Doc!Matches(Production(learnt[i]), e)
    BY <1>2 DEF Recalls
  <2> DEFINE x == learnt[i]
  <2>2. x \in Stores
    <3>1. learnt \in Seq(Stores)
      BY LearntIs
    <3> HIDE DEF Stores
    <3> QED BY <3>1
  <2>3. /\ Current = "StartTagContent" => x \in StoredInStart(Back.name)
        /\ Current = "ElementContent" => x \in StoredInContent
    <3>1. GrammarOK(Back.name, Grammars[Back.name])
      BY InsideIs
    <3> HIDE DEF StoredInStart, StoredInContent
    <3> QED BY <3>1 DEF GrammarOK, learnt
  <2>4. /\ Production(x).term = Kind(x.term)
        /\ Production(x).name = IF x.term \in {"SEQName", "ATQName"} THEN x.name ELSE None
    BY <2>2, ProductionIs
  <2>5. Kind(x.term) = e.term
        /\ Production(x).name \in {None, e.name}
    BY <2>1, <2>4 DEF Doc!Matches
  <2>6. None \notin QName /\ Back.name \in QName
    BY InsideIs, TopOfStack, BuiltinSchemaAssumption
  <2>7. x.term \in {"SEQName", "ATQName", "CHExtern", "EE"}
        /\ (x.term \in {"SEQName", "ATQName"} => x.name \in QName)
    BY <2>2 DEF Stores
  <2>8. x.term \in {"SEQName", "ATQName"} => x.name = e.name
    BY <2>4, <2>5, <2>6, <2>7
  <2>9. /\ Current = "ElementContent" => x.term \in {"SEQName", "CHExtern"}
        /\ Current = "StartTagContent" /\ x.term = "EE" => x.name = Back.name
    BY <2>3 DEF StoredInStart, StoredInContent
  <2> HIDE DEF x
  <2> QED BY <1>1, <1>2, <2>1, <2>5, <2>6, <2>7, <2>8, <2>9 DEF InsideCases, Inside, x
<1>3. CASE /\ d.term = e.term /\ d.name = None /\ IsNew(e)
           /\ e.term \in Expected(Current)
           /\ Learns(e)
                <=> /\ Current \in Inside /\ e.term \in {"SE", "AT", "CH", "EE"}
                    /\ ~ (Current = "ElementContent" /\ e.term = "EE")
  <2>1. Current = "StartTagContent" => e.term \notin {"ER", "CM", "PI"}
    BY EventIs DEF OrdinaryContent
  <2>2. e.term \in {"EE", "AT", "NS", "SC", "SE", "CH", "ER", "CM", "PI"}
        /\ (Current = "ElementContent" => e.term \in {"EE", "SE", "CH", "ER", "CM", "PI"})
    BY <1>3 DEF Expected, Inside
  <2>3. Kind(d.term) = e.term
    BY <1>3, <2>2 DEF Kind
  <2> QED BY <1>1, <1>3, <2>1, <2>2, <2>3 DEF InsideCases, Inside
<1> QED BY <1>1, <1>2, <1>3

(* The cases of handleDocContent and handleDocEnd for the code of an       *)
(* event.                                                                  *)
LEMMA OutsideDecoded ==
  ASSUME IInv, loop = "running", Current \in {"DocContent", "DocEnd"}, NEW e \in Doc!Events,
         NEW s, s = Doc!Code(Doc!Levels, e), NEW d, d = decodeTerm(s, 0, 0, 0)
  PROVE  /\ d.used = Len(s) /\ d.term = e.term /\ e.term \in Expected(Current)
         /\ ~ Learns(e)
<1>1. Current \in Coded /\ Current \notin Inside /\ d = decoded(s)
  BY DEF Coded, Inside, decoded
<1>2. ~ Recalls(d, e)
  BY <1>1 DEF Recalls, learnt, Inside
<1> QED BY <1>1, <1>2, EventDecoded DEF Learns

(* A code is a sequence of bits. *)
LEMMA CodeIsSeq ==
  ASSUME NEW ls, ThreeLevels(ls), NEW e, Doc!Places(ls, e) # {}
  PROVE  Doc!Code(ls, e) \in Seq(Nat)
<1> DEFINE p == Doc!Place(ls, e)  B == Seq(Nat)
           w1 == Doc!Width(ls, 1)  w2 == Doc!Width(ls, 2)  w3 == Doc!Width(ls, 3)
           n1 == Len(ls[1])  n2 == Len(ls[2])  i == p[2] - 1
<1>1. w1 \in Nat /\ w2 \in Nat /\ w3 \in Nat
  BY WidthFits
<1>2. p[1] \in 1 .. 3 /\ i \in Nat
  <2>1. p[1] \in 1 .. 3 /\ p[2] \in 1 .. Len(ls[p[1]])
    BY PlaceIsFirst
  <2> QED BY <2>1
<1>3. n1 \in Nat /\ n2 \in Nat /\ << >> \in Seq(Nat)
  BY DEF ThreeLevels
<1>4. /\ Doc!Bits(i, w1) \in Seq(Nat) /\ Doc!Bits(i, w2) \in Seq(Nat)
      /\ Doc!Bits(i, w3) \in Seq(Nat)
      /\ Doc!Bits(n1, w1) \in Seq(Nat) /\ Doc!Bits(n2, w2) \in Seq(Nat)
  <2> HIDE DEF i, w1, w2, w3, n1, n2
  <2> QED BY <1>1, <1>2, <1>3, BitsValue
<1>5. \A x, y, z \in Seq(Nat) : x \o y \o z \in Seq(Nat)
  BY ConcatProperties
<1>6. CASE p[1] = 1
  <2>1. Doc!Code(ls, e) = Doc!Bits(i, w1) \o << >> \o << >>
    BY <1>6 DEF Doc!Code
  <2> HIDE DEF i, w1, w2, w3, n1, n2
  <2> QED BY <1>3, <1>4, <1>5, <2>1
<1>7. CASE p[1] = 2
  <2>1. Doc!Code(ls, e) = Doc!Bits(n1, w1) \o Doc!Bits(i, w2) \o << >>
    BY <1>7 DEF Doc!Code
  <2> HIDE DEF i, w1, w2, w3, n1, n2
  <2> QED BY <1>3, <1>4, <1>5, <2>1
<1>8. CASE p[1] = 3
  <2>1. Doc!Code(ls, e) = Doc!Bits(n1, w1) \o Doc!Bits(n2, w2) \o Doc!Bits(i, w3)
    BY <1>8 DEF Doc!Code
  <2> HIDE DEF i, w1, w2, w3, n1, n2
  <2> QED BY <1>3, <1>4, <1>5, <2>1
<1> QED BY <1>2, <1>6, <1>7, <1>8

(* The start of the document takes no bits.                                *)
LEMMA DocumentCode ==
  ASSUME IInv, loop = "running", Current = "Document", NEW e \in Doc!Events
  PROVE  /\ e.term = "SD" /\ Len(Doc!Code(Doc!Levels, e)) = 0 /\ ~ Learns(e)
         /\ ThreeLevels(Doc!Levels)
<1> DEFINE ls == Doc!Levels  p == Doc!Place(ls, e)
<1>1. docPhase = "Document"
  BY PhaseIs DEF Inside
<1>2. ls[1] = << Doc!Any("SD") >> /\ ls[2] = << >> /\ ls[3] = << >>
  BY <1>1 DEF Doc!Levels
<1>3. ThreeLevels(ls) /\ Len(ls[1]) = 1 /\ Len(ls[2]) = 0 /\ Len(ls[3]) = 0
  <2>1. "SD" \in Term
    BY DEF Term
  <2>2. Plain(ls[1], << "SD" >>) /\ Plain(ls[2], << >>) /\ Plain(ls[3], << >>)
    BY <1>2, <2>1, PlainSome
  <2> HIDE DEF ls, Prod
  <2> QED BY <2>2 DEF ThreeLevels, Plain
<1>4. Doc!Places(ls, e) # {}
  BY EventIs
<1>5. p[1] \in 1 .. 3 /\ p[2] \in 1 .. Len(ls[p[1]]) /\ Doc!Matches(ls[p[1]][p[2]], e)
  BY <1>3, <1>4, PlaceIsFirst
<1>6. p[1] = 1 /\ p[2] = 1
  <2> HIDE DEF ls, p
  <2> QED BY <1>3, <1>5
<1>7. e.term = "SD"
  BY <1>2, <1>5, <1>6 DEF Doc!Matches, Doc!Any, Doc!Prod
<1>8. Doc!Width(ls, 1) = 0
  <2>1. Escapes(ls, 1) = 0
    <3>1. 1 + 1 .. 3 = {2, 3}
      OBVIOUS
    <3> HIDE DEF ls
    <3> QED BY <1>2, <3>1 DEF Escapes
  <2>2. Doc!Width(ls, 1) = CeilLog2(Len(ls[1]) + Escapes(ls, 1))
    <3>1. ThreeLevels(ls) /\ 1 \in 1 .. 3
      BY <1>3
    <3> HIDE DEF ls
    <3> QED BY ONLY <3>1, WidthFits
  <2>3. Len(ls[1]) + Escapes(ls, 1) = 1
    BY <1>3, <2>1
  <2> QED BY <2>2, <2>3, SmallLogs
<1>9. Len(Doc!Code(ls, e)) = 0
  <2>1. CodeOf(Doc!Code(ls, e), p, Len(ls[1]), Len(ls[2]),
               Doc!Width(ls, 1), Doc!Width(ls, 2), Doc!Width(ls, 3))
    BY <1>3, <1>4, CodeCarries
  <2> QED BY <1>6, <1>8, <2>1 DEF CodeOf
<1>10. ~ Learns(e)
  BY <1>1 DEF Learns, Doc!Learns
<1> QED BY <1>3, <1>7, <1>9, <1>10

(***************************************************************************)
(* The effects an event e of code s can have, read off the handlers.       *)
(***************************************************************************)

(* decode() returns the event itself. *)
Reported(e, s) ==
  /\ out'.term # "Null" /\ Kind(out'.term) = e.term
  /\ out'.name = e.name /\ out'.used = Len(s)

Same == UNCHANGED << Current, GStack, Grammars >>

(* The content of the event could not be read. *)
Unread == out'.term = "Null" /\ loop' = "failed" /\ Same

(* An event that changes nothing but decodeBody's loop. *)
NoEffect(e) ==
  /\ Same /\ ~ Learns(e)
  /\ \/ Current = "StartTagContent" /\ e.term = "NS" /\ loop' = "running"
     \/ Current = "DocContent" /\ e.term \in {"DT", "CM", "PI"} /\ loop' = "running"
     \/ Current = "DocEnd" /\ e.term \in {"CM", "PI"} /\ loop' = "running"
     \/ Current = "DocEnd" /\ e.term = "ED" /\ loop' = "done"
     \/ Current = "ElementContent" /\ e.term \in {"ER", "CM", "PI"} /\ loop' = "running"

(* The start of the document. *)
Starts(e) ==
  /\ Current = "Document" /\ e.term = "SD" /\ ~ Learns(e) /\ loop' = "running"
  /\ Current' = "DocContent" /\ UNCHANGED << GStack, Grammars >>

(* A self-contained element: unimplemented. *)
Quits(e) ==
  /\ Current = "StartTagContent" /\ e.term = "SC" /\ ~ Learns(e) /\ loop' = "failed"
  /\ Current' = "Fragment" /\ UNCHANGED << GStack, Grammars >>

(* gs with what the event taught, if anything. *)
Taught(gs, e, ev) ==
  IF Learns(e) THEN IsNew(e) /\ Grammars' = Learn(gs, ev) ELSE Grammars' = gs

(* A start tag. *)
Pushes(e) ==
  /\ e.term = "SE" /\ loop' = "running" /\ Current' = "StartTagContent"
  /\ Current \in Inside \/ (Current = "DocContent" /\ ~ Learns(e))
  /\ GStack' = Append(GStack, [name |-> e.name, int |-> TRUE])
  /\ Taught(loadGrammar(e.name), e, Stored("SEQName", e.name))

(* An end tag. *)
Pops(e) ==
  /\ e.term = "EE" /\ loop' = "running" /\ Current \in Inside
  /\ Learns(e) => Current = "StartTagContent"
  /\ PopGrammar
  /\ Taught(Grammars, e, Stored("EE", Back.name))

(* An attribute. *)
Attribute(e) ==
  /\ e.term = "AT" /\ loop' = "running" /\ Current = "StartTagContent"
  /\ UNCHANGED << Current, GStack >>
  /\ Taught(Grammars, e, Stored("ATQName", e.name))

(* Text. *)
Text(e) ==
  /\ e.term = "CH" /\ loop' = "running" /\ Current \in Inside
  /\ Current' = "ElementContent"
  /\ GStack' = [GStack EXCEPT ![Len(GStack)].int = FALSE]
  /\ Taught(Grammars, e, Stored("CHExtern", None))

(* All there is. *)
Effect(e, s) ==
  \/ Unread
  \/ Reported(e, s) /\ (NoEffect(e) \/ Starts(e) \/ Quits(e) \/ Pushes(e) \/ Pops(e)
                          \/ Attribute(e) \/ Text(e))

(* What Return leaves behind. *)
LEMMA ReturnIs ==
  ASSUME NEW t, NEW n, NEW u, Return(t, n, u)
  PROVE  /\ out'.term = t /\ out'.name = n /\ out'.used = u
         /\ t = "ED" => loop' = "done"
         /\ t = "SC" => loop' = "failed"
         /\ t \notin {"ED", "SC", "unreachable"} => loop' = "running"
BY DEF Return

(* handleSharedContent has one of the effects on the event whose code was  *)
(* read.                                                                   *)
LEMMA SharedEffect ==
  ASSUME IInv, loop = "running", Current \in Inside, NEW e \in Doc!Events, NEW ok \in BOOLEAN,
         NEW s, NEW d, d.used = Len(s), InsideCases(d, e),
         d.term \notin {"AT", "ATQName", "NS", "SC"},
         d.term = "EE" => Current = "ElementContent",
         handleSharedContent(d, e.name, ok)
  PROVE  Effect(e, s)
<1>1. /\ e.term \in {"CH", "EE"} => e.name = Back.name
      /\ e.term \notin {"SE", "AT", "CH", "EE"} => e.name = None
  BY EventIs
<1>2. CASE d.term = "EE"
  <2>1. handleEE(d.used)
    BY <1>2 DEF handleSharedContent
  <2>2. e.term = "EE" /\ ~ Learns(e) /\ Kind("EE") = "EE"
    BY <1>2 DEF InsideCases, Kind
  <2>3. Reported(e, s) /\ loop' = "running"
    BY <1>1, <2>1, <2>2, ReturnIs DEF handleEE, Reported
  <2>4. Pops(e)
    BY <2>1, <2>2, <2>3 DEF Pops, Taught, handleEE
  <2> QED BY <2>3, <2>4 DEF Effect
<1>3. CASE d.term \in {"SEQName", "SE"} /\ ~ (d.term = "SE" /\ ~ ok)
  <2>1. handleSEQName(e.name, d.used, ~ Learns(e))
    <3>1. CASE d.term = "SEQName"
      <4>1. handleSEQName(d.name, d.used, TRUE) /\ d.name = e.name /\ ~ Learns(e)
        BY <3>1 DEF handleSharedContent, InsideCases
      <4> QED BY <4>1 DEF handleSEQName
    <3>2. CASE d.term = "SE" /\ ok
      <4>1. handleSEQName(e.name, d.used, FALSE) /\ Learns(e)
        BY <3>2 DEF handleSharedContent, handleSE, InsideCases
      <4> QED BY <4>1 DEF handleSEQName
    <3> QED BY <1>3, <3>1, <3>2
  <2>2. /\ e.term = "SE" /\ Kind("SE") = "SE" /\ Kind("SEQName") = "SE"
        /\ Learns(e) => IsNew(e)
    BY <1>3 DEF InsideCases, Kind
  <2>3. PICK t \in {"SE", "SEQName"} : Return(t, e.name, d.used)
    BY <2>1 DEF handleSEQName
  <2>4. Reported(e, s) /\ loop' = "running"
    BY <2>2, <2>3, ReturnIs DEF Reported
  <2>5. Pushes(e)
    BY <2>1, <2>2, <2>4 DEF Pushes, Taught, handleSEQName
  <2> QED BY <2>4, <2>5 DEF Effect
<1>4. CASE d.term = "SE" /\ ~ ok
  <2>1. ReturnNull(d.used)
    BY <1>4 DEF handleSharedContent, handleSE
  <2> QED BY <2>1 DEF ReturnNull, Effect, Unread, Same
<1>5. CASE d.term \in {"CH", "CHExtern"} /\ ~ ok
  <2>1. ReturnNull(d.used)
    BY <1>5 DEF handleSharedContent, handleCH
  <2> QED BY <2>1 DEF ReturnNull, Effect, Unread, Same
<1>6. CASE d.term \in {"CH", "CHExtern"} /\ ok
  <2>1. handleCH(TRUE, d.used, d.term = "CHExtern")
    BY <1>6 DEF handleSharedContent
  <2>2. /\ e.term = "CH" /\ Kind("CH") = "CH" /\ Kind("CHExtern") = "CH"
        /\ Learns(e) <=> d.term = "CH"
        /\ Learns(e) => IsNew(e)
    BY <1>6 DEF InsideCases, Kind
  <2>3. /\ Grammars' = IF d.term = "CHExtern" THEN Grammars
                       ELSE Learn(Grammars, Stored("CHExtern", None))
        /\ Current' = "ElementContent"
        /\ GStack' = [GStack EXCEPT ![Len(GStack)].int = FALSE]
        /\ Return(IF d.term = "CHExtern" THEN "CHExtern" ELSE "CH", Back.name, d.used)
    BY <2>1 DEF handleCH
  <2>4. PICK t \in {"CH", "CHExtern"} : Return(t, Back.name, d.used)
    BY <2>3
  <2>5. Reported(e, s) /\ loop' = "running"
    BY <1>1, <2>2, <2>4, ReturnIs DEF Reported
  <2>6. Text(e)
    BY <1>6, <2>2, <2>3, <2>5 DEF Text, Taught
  <2> QED BY <2>5, <2>6 DEF Effect
<1>7. CASE d.term \in {"ER", "CM", "PI"}
  <2>1. Uncommon(d.term, d.used) /\ Current = "ElementContent" /\ ~ Learns(e)
    BY <1>7 DEF handleSharedContent, InsideCases
  <2>2. e.term = d.term /\ Kind(d.term) = d.term
    BY <1>7 DEF InsideCases, Kind
  <2>3. Return(d.term, None, d.used)
    BY <1>7, <2>1 DEF Uncommon
  <2>4. Reported(e, s) /\ loop' = "running"
    BY <1>1, <1>7, <2>2, <2>3, ReturnIs DEF Reported
  <2>5. NoEffect(e)
    BY <1>7, <2>1, <2>2, <2>4 DEF NoEffect, Uncommon, Same
  <2> QED BY <2>4, <2>5 DEF Effect
<1> QED BY <1>2, <1>3, <1>4, <1>5, <1>6, <1>7 DEF InsideCases

(* So has handleStartTag, *)
LEMMA StartTagEffect ==
  ASSUME IInv, loop = "running", NEW e \in Doc!Events, NEW ok \in BOOLEAN,
         NEW s, s = Doc!Code(Doc!Levels, e), OrdinaryContent, handleStartTag(s, e.name, ok)
  PROVE  Effect(e, s)
<1> DEFINE d == decodeTermGrammar(s)
<1>1. Current = "StartTagContent" /\ Current \in Inside
  BY DEF handleStartTag, Inside
<1>2. d.used = Len(s) /\ InsideCases(d, e)
  BY <1>1, InsideDecoded DEF decoded
<1>3. /\ e.term \in {"CH", "EE"} => e.name = Back.name
      /\ e.term \notin {"SE", "AT", "CH", "EE"} => e.name = None
  BY EventIs
<1>4. /\ d.term = "EE" => handleEEStartTag(d.name, d.used)
      /\ d.term = "AT" => handleAT(e.name, ok, d.used)
      /\ d.term = "ATQName" => handleATQName(d.name, d.used, TRUE)
      /\ d.term \in {"NS", "SC"} =>
           /\ Current' = IF d.term = "SC" THEN "Fragment" ELSE Current
           /\ Return(d.term, None, d.used)
           /\ UNCHANGED << GStack, Grammars >>
      /\ d.term \notin {"EE", "AT", "ATQName", "NS", "SC"} =>
           handleSharedContent(d, e.name, ok)
  BY DEF handleStartTag
<1> HIDE DEF d
<1>5. CASE d.term = "EE"
  <2>1. handleEEStartTag(d.name, d.used)
    BY <1>4, <1>5
  <2>2. /\ e.term = "EE" /\ Kind("EE") = "EE"
        /\ (d.name = None <=> Learns(e)) /\ (d.name = None => IsNew(e))
    BY <1>1, <1>2, <1>5 DEF InsideCases, Kind
  <2>3. Reported(e, s) /\ loop' = "running"
    BY <1>2, <1>3, <2>1, <2>2, ReturnIs DEF handleEEStartTag, Reported
  <2>4. Pops(e)
    BY <1>1, <2>1, <2>2, <2>3 DEF Pops, Taught, handleEEStartTag
  <2> QED BY <2>3, <2>4 DEF Effect
<1>6. CASE d.term = "AT" /\ ~ ok
  <2>1. ReturnNull(d.used)
    BY <1>4, <1>6 DEF handleAT
  <2> QED BY <2>1 DEF ReturnNull, Effect, Unread, Same
<1>7. CASE d.term = "ATQName" \/ (d.term = "AT" /\ ok)
  <2>1. handleATQName(e.name, d.used, ~ Learns(e))
    <3>1. CASE d.term = "ATQName"
      <4>1. handleATQName(d.name, d.used, TRUE) /\ d.name = e.name /\ ~ Learns(e)
        BY <1>2, <1>4, <3>1 DEF InsideCases
      <4> QED BY <4>1 DEF handleATQName
    <3>2. CASE d.term = "AT" /\ ok
      <4>1. handleATQName(e.name, d.used, FALSE) /\ Learns(e)
        BY <1>2, <1>4, <3>2 DEF handleAT, InsideCases
      <4> QED BY <4>1 DEF handleATQName
    <3> QED BY <1>7, <3>1, <3>2
  <2>2. /\ e.term = "AT" /\ Kind("AT") = "AT" /\ Kind("ATQName") = "AT"
        /\ Learns(e) => IsNew(e)
    BY <1>2, <1>7 DEF InsideCases, Kind
  <2>3. PICK t \in {"AT", "ATQName"} : Return(t, e.name, d.used)
    BY <2>1 DEF handleATQName
  <2>4. Reported(e, s) /\ loop' = "running"
    BY <1>2, <2>2, <2>3, ReturnIs DEF Reported
  <2>5. Attribute(e)
    BY <1>1, <2>1, <2>2, <2>4 DEF Attribute, Taught, handleATQName
  <2> QED BY <2>4, <2>5 DEF Effect
<1>8. CASE d.term \in {"NS", "SC"}
  <2>1. /\ Current' = IF d.term = "SC" THEN "Fragment" ELSE Current
        /\ Return(d.term, None, d.used)
        /\ UNCHANGED << GStack, Grammars >>
    BY <1>4, <1>8
  <2>2. e.term = d.term /\ Kind(d.term) = d.term /\ ~ Learns(e)
    BY <1>2, <1>8 DEF InsideCases, Kind
  <2>3. Reported(e, s) /\ loop' = IF d.term = "SC" THEN "failed" ELSE "running"
    BY <1>2, <1>3, <1>8, <2>1, <2>2, ReturnIs DEF Reported
  <2>4. NoEffect(e) \/ Quits(e)
    BY <1>1, <1>8, <2>1, <2>2, <2>3 DEF NoEffect, Quits, Same
  <2> QED BY <2>3, <2>4 DEF Effect
<1>9. CASE d.term \notin {"EE", "AT", "ATQName", "NS", "SC"}
  <2>1. handleSharedContent(d, e.name, ok)
    BY <1>4, <1>9
  <2> QED BY <1>1, <1>2, <1>9, <2>1, SharedEffect
<1> QED BY <1>5, <1>6, <1>7, <1>8, <1>9

(* handleElement, *)
LEMMA ElementEffect ==
  ASSUME IInv, loop = "running", NEW e \in Doc!Events, NEW ok \in BOOLEAN,
         NEW s, s = Doc!Code(Doc!Levels, e), OrdinaryContent, handleElement(s, e.name, ok)
  PROVE  Effect(e, s)
<1> DEFINE d == decodeTermGrammar(s)
<1>1. /\ Current = "ElementContent" /\ Current \in Inside
      /\ handleSharedContent(d, e.name, ok)
  BY DEF handleElement, Inside
<1>2. d.used = Len(s) /\ InsideCases(d, e)
  BY <1>1, InsideDecoded DEF decoded
<1> HIDE DEF d
<1>3. d.term \notin {"AT", "ATQName", "NS", "SC"}
  BY <1>1, <1>2 DEF InsideCases
<1> QED BY <1>1, <1>2, <1>3, SharedEffect

(* handleDocContent and handleDocEnd, *)
LEMMA OutsideEffect ==
  ASSUME IInv, loop = "running", NEW e \in Doc!Events, NEW ok \in BOOLEAN,
         NEW s, s = Doc!Code(Doc!Levels, e),
         handleDocContent(s, e.name, ok) \/ handleDocEnd(s)
  PROVE  Effect(e, s)
<1> DEFINE d == decodeTerm(s, 0, 0, 0)
<1>1. Current \in {"DocContent", "DocEnd"}
  BY DEF handleDocContent, handleDocEnd
<1>2. /\ d.used = Len(s) /\ d.term = e.term /\ e.term \in Expected(Current)
      /\ ~ Learns(e)
  BY <1>1, OutsideDecoded
<1>3. e.term \notin {"SE", "AT", "CH", "EE"} => e.name = None
  BY EventIs
<1>4. CASE Current = "DocContent" /\ e.term = "SE" /\ ~ ok
  <2>1. ReturnNull(d.used)
    BY <1>2, <1>4 DEF handleDocContent, handleDocEnd, handleSE
  <2> QED BY <2>1 DEF ReturnNull, Effect, Unread, Same
<1>5. CASE Current = "DocContent" /\ e.term = "SE" /\ ok
  <2>1. handleSEQName(e.name, d.used, TRUE)
    BY <1>2, <1>5 DEF handleDocContent, handleDocEnd, handleSE
  <2>2. PICK t \in {"SE", "SEQName"} : Return(t, e.name, d.used)
    BY <2>1 DEF handleSEQName
  <2>3. Kind("SE") = "SE" /\ Kind("SEQName") = "SE"
    BY DEF Kind
  <2>4. Reported(e, s) /\ loop' = "running"
    BY <1>2, <1>5, <2>2, <2>3, ReturnIs DEF Reported
  <2>5. Pushes(e)
    BY <1>2, <1>5, <2>1, <2>4 DEF Pushes, Taught, handleSEQName
  <2> QED BY <2>4, <2>5 DEF Effect
<1>6. CASE ~ (Current = "DocContent" /\ e.term = "SE")
  <2>1. e.term \in IF Current = "DocContent" THEN {"DT", "CM", "PI"} ELSE {"ED", "CM", "PI"}
    BY <1>1, <1>2, <1>6 DEF Expected
  <2>2. Return(e.term, None, d.used) /\ Same
    BY <1>1, <1>2, <1>6, <2>1 DEF handleDocContent, handleDocEnd, Same
  <2>3. Kind(e.term) = e.term /\ e.term # "Null"
    BY <2>1 DEF Kind
  <2>4. Reported(e, s) /\ loop' = IF e.term = "ED" THEN "done" ELSE "running"
    BY <1>2, <1>3, <2>1, <2>2, <2>3, ReturnIs DEF Reported
  <2>5. NoEffect(e)
    BY <1>1, <1>2, <2>1, <2>2, <2>4 DEF NoEffect
  <2> QED BY <2>4, <2>5 DEF Effect
<1> QED BY <1>4, <1>5, <1>6

(* and handleDocument. *)
LEMMA DocumentEffect ==
  ASSUME IInv, loop = "running", NEW e \in Doc!Events,
         NEW s, s = Doc!Code(Doc!Levels, e), handleDocument
  PROVE  Effect(e, s)
<1>1. Current = "Document" /\ Current' = "DocContent" /\ Return("SD", None, 0)
      /\ UNCHANGED << GStack, Grammars >>
  BY DEF handleDocument
<1>2. e.term = "SD" /\ Len(s) = 0 /\ ~ Learns(e)
  BY <1>1, DocumentCode
<1>3. e.name = None /\ Kind("SD") = "SD"
  BY <1>2, EventIs DEF Kind
<1>4. Reported(e, s) /\ loop' = "running"
  BY <1>1, <1>2, <1>3, ReturnIs DEF Reported
<1>5. Starts(e)
  BY <1>1, <1>2, <1>4 DEF Starts
<1> QED BY <1>4, <1>5 DEF Effect

(* One round of the loop: some event of the document is sent and takes     *)
(* effect.                                                                 *)
Sends(e, s) ==
  /\ s = Doc!Code(Doc!Levels, e)
  /\ sent' = [term |-> e.term, name |-> e.name, code |-> s]
  /\ Preserve' = Preserve /\ loop = "running"

(* Every round of decodeBody's loop reads the code of an event of the      *)
(* document and has one of the effects on it.                              *)
LEMMA StepEffect ==
  ASSUME IInv, Next, OrdinaryContent
  PROVE  \E e \in Doc!Events, s \in Seq(Nat) : Sends(e, s) /\ Effect(e, s)
<1>1. loop = "running" /\ Preserve' = Preserve
  BY DEF Next
<1>2. PICK e \in Doc!Events, ok \in BOOLEAN :
        /\ sent' = [term |-> e.term, name |-> e.name, code |-> Doc!Code(Doc!Levels, e)]
        /\ decode(Doc!Code(Doc!Levels, e), e.name, ok)
  BY DEF Next
<1> DEFINE s == Doc!Code(Doc!Levels, e)
<1>3. Sends(e, s)
  BY <1>1, <1>2 DEF Sends
<1>4. Effect(e, s)
  <2> DEFINE x == s
  <2>1. decode(x, e.name, ok) /\ x = Doc!Code(Doc!Levels, e)
    BY <1>2
  <2> HIDE DEF s
  <2>2. CASE handleDocument
    BY <1>1, <2>1, <2>2, DocumentEffect
  <2>3. CASE handleDocContent(x, e.name, ok) \/ handleDocEnd(x)
    BY <1>1, <2>1, <2>3, OutsideEffect
  <2>4. CASE handleStartTag(x, e.name, ok)
    BY <1>1, <2>1, <2>4, StartTagEffect
  <2>5. CASE handleElement(x, e.name, ok)
    BY <1>1, <2>1, <2>5, ElementEffect
  <2> QED BY <2>1, <2>2, <2>3, <2>4, <2>5 DEF decode
<1>5. s \in Seq(Nat)
  <2>1. ThreeLevels(Doc!Levels)
    <3>1. CASE Current = "Document"
      BY <1>1, <3>1, DocumentCode
    <3>2. CASE Current # "Document"
      <4>1. Current \in Coded
        BY <1>1, <3>2 DEF IInv, TypeOK, Grammar, Coded
      <4> QED BY <1>1, <4>1, LevelsInside, LevelsOutside DEF LevelsMatch, Coded, Inside
    <3> QED BY <3>1, <3>2
  <2>2. Doc!Places(Doc!Levels, e) # {}
    BY <1>1, EventIs
  <2> QED BY <2>1, <2>2, CodeIsSeq
<1> QED BY <1>3, <1>4, <1>5

(***************************************************************************)
(* What is learned keeps the grammars in order.                            *)
(***************************************************************************)

(* No duplicates. *)
Distinct(list) == \A i, j \in 1 .. Len(list) : list[i] = list[j] => i = j

(* A grammar in order, and all of them. *)
GrammarFull(q, g) ==
  /\ g \in [StartTag : Seq(StoredEvent), StartTagLog : Nat,
            Element : Seq(StoredEvent), ElementLog : Nat]
  /\ GrammarOK(q, g) /\ Distinct(g.StartTag) /\ Distinct(g.Element)

GsOK(gs) == DOMAIN gs \subseteq QName /\ \A q \in DOMAIN gs : GrammarFull(q, gs[q])

(* In every state the invariant allows, the grammars are in order. *)
LEMMA GrammarsOK ==
  ASSUME IInv
  PROVE  GsOK(Grammars)
<1>1. DOMAIN Grammars \subseteq QName
  BY DEF IInv, TypeOK
<1>2. ASSUME NEW q \in DOMAIN Grammars PROVE GrammarFull(q, Grammars[q])
  <2>1. Grammars[q] \in [StartTag : Seq(StoredEvent), StartTagLog : Nat,
                         Element : Seq(StoredEvent), ElementLog : Nat]
    BY DEF IInv, TypeOK
  <2>2. GrammarOK(q, Grammars[q])
    BY DEF IInv
  <2>3. \A list \in {Grammars[q].StartTag, Grammars[q].Element} : Distinct(list)
    BY DEF IInv, LearnedOnce, Distinct
  <2> QED BY <2>1, <2>2, <2>3 DEF GrammarFull
<1> QED BY <1>1, <1>2 DEF GsOK

(* A new BuiltinGrammar is in order: no learned production, no bit for a   *)
(* start tag and one for content.                                          *)
LEMMA NewGrammarOK ==
  ASSUME NEW q \in QName
  PROVE  GrammarFull(q, NewGrammar)
<1>1. 0 + 1 = 1 /\ 0 + 2 = 2 /\ CeilLog2(1) = 0 /\ CeilLog2(2) = 1
  BY SmallLogs
<1>2. /\ NewGrammar.StartTag = << >> /\ NewGrammar.Element = << >>
      /\ NewGrammar.StartTagLog = 0 /\ NewGrammar.ElementLog = 1
      /\ Len(<< >>) = 0
      /\ NewGrammar \in [StartTag : Seq(StoredEvent), StartTagLog : Nat,
                         Element : Seq(StoredEvent), ElementLog : Nat]
  BY DEF NewGrammar
<1>3. \A T : << >> \in Seq(T)
  OBVIOUS
<1>4. Distinct(<< >>)
  BY DEF Distinct
<1> QED BY <1>1, <1>2, <1>3, <1>4 DEF GrammarFull, GrammarOK

(* A list without duplicates stays without when a new member is added. *)
LEMMA AppendNew ==
  ASSUME NEW T, NEW list \in Seq(T), NEW ev \in T, Distinct(list),
         \A i \in 1 .. Len(list) : list[i] # ev
  PROVE  /\ Append(list, ev) \in Seq(T) /\ Len(Append(list, ev)) = Len(list) + 1
         /\ Distinct(Append(list, ev))
<1> DEFINE l == Append(list, ev)  n == Len(list)
<1>1. /\ l \in Seq(T) /\ Len(l) = n + 1 /\ n \in Nat
      /\ \A i \in 1 .. n : l[i] = list[i]
      /\ l[n + 1] = ev
  OBVIOUS
<1> HIDE DEF l
<1>2. Distinct(l)
  <2> SUFFICES ASSUME NEW i \in 1 .. n + 1, NEW j \in 1 .. n + 1, l[i] = l[j]
               PROVE  i = j
    BY <1>1 DEF Distinct
  <2>1. CASE i \in 1 .. n /\ j \in 1 .. n
    BY <1>1, <2>1 DEF Distinct
  <2>2. CASE i = n + 1 \/ j = n + 1
    BY <1>1, <2>2
  <2> QED BY <1>1, <2>1, <2>2
<1> QED BY <1>1, <1>2 DEF l

(* addTerm keeps a grammar's lists free of duplicates and its widths right.*)
LEMMA addTermOK ==
  ASSUME NEW q \in QName, NEW g, GrammarFull(q, g), NEW start \in BOOLEAN, NEW ev,
         start => ev \in StoredInStart(q) /\ \A i \in 1 .. Len(g.StartTag) : g.StartTag[i] # ev,
         ~ start => ev \in StoredInContent /\ \A i \in 1 .. Len(g.Element) : g.Element[i] # ev
  PROVE  GrammarFull(q, addTerm(g, ev, start))
<1> DEFINE h == addTerm(g, ev, start)
<1>1. /\ g \in [StartTag : Seq(StoredEvent), StartTagLog : Nat,
                Element : Seq(StoredEvent), ElementLog : Nat]
      /\ g.StartTag \in Seq(StoredInStart(q)) /\ g.Element \in Seq(StoredInContent)
      /\ g.StartTagLog = CeilLog2(Len(g.StartTag) + 1)
      /\ g.ElementLog = CeilLog2(Len(g.Element) + 2)
      /\ Distinct(g.StartTag) /\ Distinct(g.Element)
  BY DEF GrammarFull, GrammarOK
<1>2. StoredInStart(q) \subseteq StoredEvent /\ StoredInContent \subseteq StoredEvent
  BY DEF StoredInStart, StoredInContent, StoredEvent
<1>3. Len(g.StartTag) \in Nat /\ Len(g.Element) \in Nat
  <2> HIDE DEF StoredInStart, StoredInContent
  <2> QED BY <1>1
<1>4. CASE start
  <2> DEFINE l == Append(g.StartTag, ev)  w == CeilLog2(Len(g.StartTag) + 2)
  <2>1. /\ l \in Seq(StoredInStart(q)) /\ Len(l) = Len(g.StartTag) + 1 /\ Distinct(l)
    <3> HIDE DEF StoredInStart
    <3> QED BY <1>1, <1>4, AppendNew
  <2>2. w = CeilLog2(Len(l) + 1) /\ w \in Nat
    <3>1. Len(g.StartTag) + 2 = Len(l) + 1 /\ Len(g.StartTag) + 2 \in Nat
      BY <1>3, <2>1
    <3> QED BY <3>1, CeilLog2Value
  <2>3. l \in Seq(StoredEvent)
    <3> HIDE DEF l, StoredInStart, StoredEvent
    <3> QED BY <1>2, <2>1
  <2>4. h = [g EXCEPT !.StartTag = l, !.StartTagLog = w]
    BY <1>4 DEF addTerm
  <2> HIDE DEF l, w, h
  <2>5. h \in [StartTag : Seq(StoredEvent), StartTagLog : Nat,
               Element : Seq(StoredEvent), ElementLog : Nat]
        /\ h.StartTag = l /\ h.StartTagLog = w
        /\ h.Element = g.Element /\ h.ElementLog = g.ElementLog
    <3> HIDE DEF StoredEvent
    <3> QED BY <1>1, <2>2, <2>3, <2>4
  <2> QED BY <1>1, <2>1, <2>2, <2>5 DEF GrammarFull, GrammarOK, h
<1>5. CASE ~ start
  <2> DEFINE l == Append(g.Element, ev)  w == CeilLog2(Len(g.Element) + 3)
  <2>1. /\ l \in Seq(StoredInContent) /\ Len(l) = Len(g.Element) + 1 /\ Distinct(l)
    <3> HIDE DEF StoredInContent
    <3> QED BY <1>1, <1>5, AppendNew
  <2>2. w = CeilLog2(Len(l) + 2) /\ w \in Nat
    <3>1. Len(g.Element) + 3 = Len(l) + 2 /\ Len(g.Element) + 3 \in Nat
      BY <1>3, <2>1
    <3> QED BY <3>1, CeilLog2Value
  <2>3. l \in Seq(StoredEvent)
    <3> HIDE DEF l, StoredInContent, StoredEvent
    <3> QED BY <1>2, <2>1
  <2>4. h = [g EXCEPT !.Element = l, !.ElementLog = w]
    BY <1>5 DEF addTerm
  <2> HIDE DEF l, w, h
  <2>5. h \in [StartTag : Seq(StoredEvent), StartTagLog : Nat,
               Element : Seq(StoredEvent), ElementLog : Nat]
        /\ h.Element = l /\ h.ElementLog = w
        /\ h.StartTag = g.StartTag /\ h.StartTagLog = g.StartTagLog
    <3> HIDE DEF StoredEvent
    <3> QED BY <1>1, <2>2, <2>3, <2>4
  <2> QED BY <1>1, <2>1, <2>2, <2>5 DEF GrammarFull, GrammarOK, h
<1> QED BY <1>4, <1>5

(* makeGrammar adds a grammar and leaves the others alone. *)
LEMMA loadGrammarOK ==
  ASSUME IInv, NEW q \in QName
  PROVE  /\ GsOK(loadGrammar(q)) /\ DOMAIN loadGrammar(q) = DOMAIN Grammars \union {q}
         /\ \A x \in DOMAIN Grammars : loadGrammar(q)[x] = Grammars[x]
<1>1. GsOK(Grammars)
  BY GrammarsOK
<1>2. GrammarFull(q, NewGrammar)
  BY NewGrammarOK
<1> QED BY <1>1, <1>2 DEF GsOK, loadGrammar

(* The stored event an event teaches. *)
Teaches(e, ev) ==
  Learns(e) =>
    /\ Current \in Inside
    /\ ev \in IF isStart THEN StoredInStart(Back.name) ELSE StoredInContent
    /\ Doc!Matches(Production(ev), e)

(* What an event teaches keeps the grammars in order. *)
LEMMA TaughtOK ==
  ASSUME IInv, NEW e, NEW ev, Teaches(e, ev), NEW gs, GsOK(gs),
         DOMAIN Grammars \subseteq DOMAIN gs,
         \A x \in DOMAIN Grammars : gs[x] = Grammars[x], Taught(gs, e, ev)
  PROVE  GsOK(Grammars') /\ DOMAIN Grammars' = DOMAIN gs
<1>1. CASE ~ Learns(e)
  BY <1>1 DEF Taught
<1>2. CASE Learns(e)
  <2> DEFINE b == Back.name  g == gs[b]
  <2>1. IsNew(e) /\ Grammars' = [gs EXCEPT ![b] = addTerm(g, ev, isStart)]
    BY <1>2 DEF Taught, Learn
  <2>2. Current \in Inside /\ Doc!Matches(Production(ev), e)
        /\ ev \in IF isStart THEN StoredInStart(b) ELSE StoredInContent
    BY <1>2 DEF Teaches
  <2>3. b \in DOMAIN Grammars /\ b \in QName /\ g = Grammars[b] /\ b \in DOMAIN gs
    BY <2>2, InsideIs, TopOfStack
  <2>4. learnt = IF isStart THEN g.StartTag ELSE g.Element
    BY <2>2, <2>3 DEF learnt, isStart, Inside
  <2>5. \A i \in 1 .. Len(learnt) : learnt[i] # ev
    BY <2>1, <2>2 DEF IsNew
  <2>6. GrammarFull(b, g) /\ isStart \in BOOLEAN
    BY <2>3 DEF GsOK, isStart
  <2>7. GrammarFull(b, addTerm(g, ev, isStart))
    <3> HIDE DEF b, g
    <3> QED BY <2>2, <2>3, <2>4, <2>5, <2>6, addTermOK
  <2> HIDE DEF b, g
  <2> QED BY <2>1, <2>3, <2>7 DEF GsOK
<1> QED BY <1>1, <1>2

(***************************************************************************)
(* Every effect keeps the invariant.                                       *)
(***************************************************************************)

(* A stack of elements that all have a grammar in gs. *)
StackOver(gs) == Seq([name : DOMAIN gs, int : BOOLEAN])

(* What an effect establishes of the new state. *)
Keeps ==
  /\ GsOK(Grammars') /\ Current' \in Grammar /\ GStack' \in StackOver(Grammars')
  /\ loop' \in {"running", "done", "failed"}
  /\ StackMatchesState'
  /\ Current' = "Document" => DOMAIN Grammars' = {}
  /\ loop' = "running" => Current' # "Fragment"

(* What an effect keeps is enough for the invariant. *)
LEMMA KeepsInvariant ==
  ASSUME Keeps, DecodesTheTable'
  PROVE  IInv'
<1>1. TypeOK'
  BY DEF Keeps, StackOver, TypeOK, GsOK, GrammarFull
<1>2. LearnedOnce'
  BY DEF Keeps, GsOK, GrammarFull, Distinct, LearnedOnce
<1>3. \A q \in DOMAIN Grammars' : GrammarOK(q, Grammars'[q])
  BY DEF Keeps, GsOK, GrammarFull
<1> QED BY <1>1, <1>2, <1>3 DEF Keeps, IInv

(* An event that is reported is the one that was sent. *)
LEMMA ReportedDecodes ==
  ASSUME NEW e, NEW s, Sends(e, s), Unread \/ Reported(e, s)
  PROVE  DecodesTheTable'
BY DEF Sends, Unread, Reported, DecodesTheTable

(* Every open element has a grammar. *)
LEMMA StackIs ==
  ASSUME IInv
  PROVE  GStack \in StackOver(Grammars)
BY DEF IInv, TypeOK, StackOver

(* An event whose content cannot be read keeps the invariant, *)
LEMMA UnreadKeeps ==
  ASSUME IInv, loop = "running", Unread
  PROVE  Keeps
<1>1. /\ Current' = Current /\ GStack' = GStack /\ Grammars' = Grammars /\ loop' = "failed"
  BY DEF Unread, Same
<1>2. GsOK(Grammars) /\ GStack \in StackOver(Grammars)
  BY GrammarsOK, StackIs
<1>3. StackMatchesState'
  BY <1>1 DEF IInv, StackMatchesState, Back
<1> QED BY <1>1, <1>2, <1>3 DEF Keeps, IInv, TypeOK

(* so do the events that only pass by, *)
LEMMA NoEffectKeeps ==
  ASSUME IInv, loop = "running", NEW e, NoEffect(e)
  PROVE  Keeps
<1>1. /\ Current' = Current /\ GStack' = GStack /\ Grammars' = Grammars
      /\ loop' \in {"running", "done"}
  BY DEF NoEffect, Same
<1>2. GsOK(Grammars) /\ GStack \in StackOver(Grammars)
  BY GrammarsOK, StackIs
<1>3. StackMatchesState'
  BY <1>1 DEF IInv, StackMatchesState, Back
<1> QED BY <1>1, <1>2, <1>3 DEF Keeps, IInv, TypeOK

(* the start of the document, *)
LEMMA StartsKeeps ==
  ASSUME IInv, loop = "running", NEW e, Starts(e)
  PROVE  Keeps
<1>1. /\ Current = "Document" /\ Current' = "DocContent" /\ GStack' = GStack
      /\ Grammars' = Grammars /\ loop' = "running"
  BY DEF Starts
<1>2. GsOK(Grammars) /\ GStack \in StackOver(Grammars)
  BY GrammarsOK, StackIs
<1>3. GStack = << >> /\ DOMAIN Grammars = {}
  BY <1>1 DEF IInv, StackMatchesState
<1>4. StackMatchesState'
  BY <1>1, <1>3 DEF StackMatchesState
<1> QED BY <1>1, <1>2, <1>4 DEF Keeps, Grammar

(* and the self-contained element, which is not implemented. *)
LEMMA QuitsKeeps ==
  ASSUME IInv, loop = "running", NEW e, Quits(e)
  PROVE  Keeps
<1>1. /\ Current = "StartTagContent" /\ Current' = "Fragment" /\ GStack' = GStack
      /\ Grammars' = Grammars /\ loop' = "failed"
  BY DEF Quits
<1>2. GsOK(Grammars) /\ GStack \in StackOver(Grammars)
  BY GrammarsOK, StackIs
<1>3. GStack # << >>
  BY <1>1 DEF IInv, StackMatchesState
<1>4. StackMatchesState'
  BY <1>1, <1>3 DEF StackMatchesState
<1> QED BY <1>1, <1>2, <1>4 DEF Keeps, Grammar

(* A stack over fewer grammars is one over more. *)
LEMMA SeqOverLarger ==
  ASSUME NEW A, NEW B, A \subseteq B
  PROVE  Seq([name : A, int : BOOLEAN]) \subseteq Seq([name : B, int : BOOLEAN])
<1> DEFINE R == [name : A, int : BOOLEAN]  Q == [name : B, int : BOOLEAN]
<1>1. R \subseteq Q
  OBVIOUS
<1> HIDE DEF R, Q
<1>2. Seq(R) \subseteq Seq(Q)
  BY <1>1
<1> QED BY <1>2 DEF R, Q

(* A start tag teaches SE of its own name, which the element's grammar     *)
(* may hold.                                                               *)
LEMMA PushesTeaches ==
  ASSUME IInv, loop = "running", NEW e \in Doc!Events, Pushes(e)
  PROVE  Teaches(e, Stored("SEQName", e.name))
<1> DEFINE q == e.name
<1>1. e.term = "SE" /\ (Current \in Inside \/ (Current = "DocContent" /\ ~ Learns(e)))
  BY DEF Pushes
<1>2. q \in QName
  BY <1>1, EventIs
<1> SUFFICES ASSUME Learns(e)
             PROVE  /\ Current \in Inside
                    /\ Stored("SEQName", q) \in IF isStart THEN StoredInStart(Back.name)
                                                ELSE StoredInContent
                    /\ Doc!Matches(Production(Stored("SEQName", q)), e)
  BY DEF Teaches
<1>3. Stored("SEQName", q) \in [term : {"SEQName"}, name : QName]
  BY <1>2 DEF Stored
<1>4. Stored("SEQName", q) \in StoredInStart(Back.name)
      /\ Stored("SEQName", q) \in StoredInContent
  BY <1>3 DEF StoredInStart, StoredInContent
<1>5. Doc!Matches(Production(Stored("SEQName", q)), e)
  BY <1>1 DEF Stored, Production, Kind, Doc!Matches
<1> QED BY <1>1, <1>4, <1>5

(* An end tag teaches EE of the element it ends, and only in its start     *)
(* tag.                                                                    *)
LEMMA PopsTeaches ==
  ASSUME IInv, loop = "running", NEW e \in Doc!Events, Pops(e)
  PROVE  Teaches(e, Stored("EE", Back.name))
<1> DEFINE ev == Stored("EE", Back.name)
<1>1. e.term = "EE" /\ Current \in Inside /\ (Learns(e) => Current = "StartTagContent")
  BY DEF Pops
<1>2. ev \in StoredInStart(Back.name)
  BY DEF Stored, StoredInStart
<1>3. Doc!Matches(Production(ev), e)
  BY <1>1 DEF Stored, Production, Kind, Doc!Matches
<1> QED BY <1>1, <1>2, <1>3 DEF Teaches, isStart

(* An attribute teaches AT of its own name. *)
LEMMA AttributeTeaches ==
  ASSUME IInv, loop = "running", NEW e \in Doc!Events, Attribute(e)
  PROVE  Teaches(e, Stored("ATQName", e.name))
<1> DEFINE ev == Stored("ATQName", e.name)
<1>1. e.term = "AT" /\ Current = "StartTagContent"
  BY DEF Attribute
<1>2. e.name \in QName /\ Current \in Inside
  BY <1>1, EventIs DEF Inside
<1>3. ev \in StoredInStart(Back.name)
  BY <1>2 DEF Stored, StoredInStart
<1>4. Doc!Matches(Production(ev), e)
  BY <1>1 DEF Stored, Production, Kind, Doc!Matches
<1> QED BY <1>1, <1>2, <1>3, <1>4 DEF Teaches, isStart

(* Text teaches CH without a name. *)
LEMMA TextTeaches ==
  ASSUME NEW e, Text(e)
  PROVE  Teaches(e, Stored("CHExtern", None))
<1> DEFINE ev == Stored("CHExtern", None)
<1>1. e.term = "CH" /\ Current \in Inside
  BY DEF Text
<1>2. ev \in StoredInStart(Back.name) /\ ev \in StoredInContent
  BY DEF Stored, StoredInStart, StoredInContent
<1>3. Doc!Matches(Production(ev), e)
  BY <1>1 DEF Stored, Production, Kind, Doc!Matches
<1> QED BY <1>1, <1>2, <1>3 DEF Teaches

(* A start tag keeps the invariant: its grammar is made before it is       *)
(* pushed.                                                                 *)
LEMMA PushesKeeps ==
  ASSUME IInv, loop = "running", NEW e \in Doc!Events, Pushes(e)
  PROVE  Keeps
<1> DEFINE q == e.name  top == [name |-> q, int |-> TRUE]
<1>1. /\ e.term = "SE" /\ loop' = "running" /\ Current' = "StartTagContent"
      /\ Current \in Inside \/ (Current = "DocContent" /\ ~ Learns(e))
      /\ GStack' = Append(GStack, top)
      /\ Taught(loadGrammar(q), e, Stored("SEQName", q))
  BY DEF Pushes
<1>2. q \in QName
  BY <1>1, EventIs
<1>3. Teaches(e, Stored("SEQName", q))
  BY PushesTeaches
<1>4. /\ GsOK(loadGrammar(q)) /\ DOMAIN loadGrammar(q) = DOMAIN Grammars \union {q}
      /\ \A x \in DOMAIN Grammars : loadGrammar(q)[x] = Grammars[x]
  BY <1>2, loadGrammarOK
<1>5. GsOK(Grammars') /\ DOMAIN Grammars' = DOMAIN Grammars \union {q}
  BY <1>1, <1>3, <1>4, TaughtOK
<1>6. GStack \in StackOver(Grammars') /\ top \in [name : DOMAIN Grammars', int : BOOLEAN]
  <2>1. GStack \in StackOver(Grammars)
    BY StackIs
  <2>2. DOMAIN Grammars \subseteq DOMAIN Grammars' /\ q \in DOMAIN Grammars'
    BY <1>5
  <2> QED BY <2>1, <2>2, SeqOverLarger DEF StackOver
<1> HIDE DEF top
<1>7. /\ GStack' \in StackOver(Grammars') /\ GStack' # << >>
      /\ GStack'[Len(GStack')] = top
  <2> DEFINE E == [name : DOMAIN Grammars', int : BOOLEAN]
  <2>1. GStack \in Seq(E) /\ top \in E
    BY <1>6 DEF StackOver
  <2> HIDE DEF E
  <2>2. /\ GStack' \in Seq(E) /\ Len(GStack') = Len(GStack) + 1 /\ Len(GStack) \in Nat
        /\ GStack'[Len(GStack) + 1] = top
    BY <1>1, <2>1
  <2>3. GStack' # << >>
    BY <2>2
  <2> QED BY <2>2, <2>3 DEF StackOver, E
<1>8. StackMatchesState'
  <2>1. Back' = top
    BY <1>7 DEF Back
  <2> QED BY <1>1, <1>7, <2>1 DEF StackMatchesState, top
<1> QED BY <1>1, <1>5, <1>7, <1>8 DEF Keeps, Grammar

(* Clearing IsStart of the top of a stack changes nothing else. *)
LEMMA ClearTop ==
  ASSUME NEW A, NEW st \in Seq([name : A, int : BOOLEAN]), st # << >>,
         NEW t, t = [st EXCEPT ![Len(st)].int = FALSE]
  PROVE  /\ t \in Seq([name : A, int : BOOLEAN]) /\ Len(t) = Len(st) /\ t # << >>
         /\ t[Len(t)].int = FALSE
         /\ \A i \in 1 .. Len(st) : t[i].name = st[i].name
<1> DEFINE E == [name : A, int : BOOLEAN]  n == Len(st)  x == [st[n] EXCEPT !.int = FALSE]
<1>1. st \in Seq(E) /\ n \in Nat \ {0}
  BY EmptySeq
<1>2. st[n] \in E
  <2> HIDE DEF E
  <2> QED BY <1>1
<1>3. x \in E /\ x.int = FALSE /\ x.name = st[n].name
  BY <1>2
<1>4. t = [st EXCEPT ![n] = x]
  OBVIOUS
<1> HIDE DEF E, x
<1>5. t \in Seq(E) /\ Len(t) = n /\ t[n] = x
      /\ \A i \in 1 .. n : i # n => t[i] = st[i]
  <2>1. /\ t \in Seq(E) /\ Len(t) = Len(st)
        /\ \A i \in 1 .. Len(st) : t[i] = IF i = n THEN x ELSE st[i]
    <3>1. n \in 1 .. Len(st) /\ st \in Seq(E) /\ x \in E
      BY <1>1, <1>3
    <3> HIDE DEF n
    <3> QED BY ONLY <1>4, <3>1, ExceptSeq
  <2> QED BY <1>1, <2>1
<1>6. t # << >>
  BY <1>1, <1>5
<1> QED BY <1>3, <1>5, <1>6 DEF E

(* A stack without its top. *)
LEMMA RestIs ==
  ASSUME NEW E, NEW st \in Seq(E), st # << >>
  PROVE  /\ SubSeq(st, 1, Len(st) - 1) \in Seq(E)
         /\ Len(SubSeq(st, 1, Len(st) - 1)) = Len(st) - 1
         /\ \A i \in 1 .. Len(st) - 1 : SubSeq(st, 1, Len(st) - 1)[i] = st[i]
<1> DEFINE k == Len(st) - 1
<1>1. Len(st) \in Nat \ {0}
  BY EmptySeq
<1>2. k \in Nat /\ k <= Len(st)
  BY <1>1
<1>3. \A i \in 1 .. k : st[i] \in E
  BY <1>2
<1> HIDE DEF k
<1>4. 1 \in Int /\ k \in Int /\ k - 1 + 1 = k /\ (1 <= k \/ k = 0)
  BY <1>2
<1>5. /\ SubSeq(st, 1, k) \in Seq(E)
      /\ Len(SubSeq(st, 1, k)) = IF 1 <= k THEN k - 1 + 1 ELSE 0
      /\ \A i \in 1 .. k - 1 + 1 : SubSeq(st, 1, k)[i] = st[1 + i - 1]
  BY ONLY <1>3, <1>4, SubSeqProperties
<1>6. \A i \in 1 .. k : 1 + i - 1 = i
  BY <1>2
<1> QED BY <1>2, <1>4, <1>5, <1>6 DEF k

(* An end tag keeps the invariant: the parent goes on in its content, and  *)
(* the document ends with the last of the stack.                           *)
LEMMA PopsKeeps ==
  ASSUME IInv, loop = "running", NEW e \in Doc!Events, Pops(e)
  PROVE  Keeps
<1> DEFINE ev == Stored("EE", Back.name)  n == Len(GStack)
           rest == SubSeq(GStack, 1, n - 1)
<1>1. /\ e.term = "EE" /\ loop' = "running" /\ Current \in Inside
      /\ Learns(e) => Current = "StartTagContent"
      /\ Current' = IF rest = << >> THEN "DocEnd" ELSE "ElementContent"
      /\ GStack' = IF rest = << >> THEN rest ELSE [rest EXCEPT ![Len(rest)].int = FALSE]
      /\ Taught(Grammars, e, ev)
  BY DEF Pops, PopGrammar
<1>2. /\ GStack # << >> /\ n \in Nat \ {0} /\ Back.name \in QName /\ Current # "DocContent"
      /\ GStack \in StackOver(Grammars)
  BY <1>1, InsideIs, TopOfStack, StackIs DEF Inside
<1>3. Teaches(e, ev)
  BY PopsTeaches
<1>4. GsOK(Grammars') /\ DOMAIN Grammars' = DOMAIN Grammars
  <2>1. GsOK(Grammars)
    BY GrammarsOK
  <2> QED BY <1>1, <1>3, <2>1, TaughtOK
<1>5. rest \in StackOver(Grammars) /\ Len(rest) = n - 1
  <2> DEFINE E == [name : DOMAIN Grammars, int : BOOLEAN]
  <2>1. GStack \in Seq(E)
    BY <1>2 DEF StackOver
  <2> HIDE DEF E
  <2>2. rest \in Seq(E) /\ Len(rest) = n - 1
    BY ONLY <1>2, <2>1, RestIs
  <2> QED BY <2>2 DEF StackOver, E
<1> HIDE DEF rest, ev
<1>6. CASE rest = << >>
  <2>1. GStack' = << >> /\ Current' = "DocEnd"
    BY <1>1, <1>6
  <2>2. GStack' \in StackOver(Grammars')
    BY <1>4, <1>5, <1>6, <2>1 DEF StackOver
  <2>3. StackMatchesState'
    BY <2>1 DEF StackMatchesState
  <2> QED BY <1>1, <1>4, <2>1, <2>2, <2>3 DEF Keeps, Grammar
<1>7. CASE rest # << >>
  <2>1. GStack' = [rest EXCEPT ![Len(rest)].int = FALSE] /\ Current' = "ElementContent"
    BY <1>1, <1>7
  <2>2. /\ GStack' \in Seq([name : DOMAIN Grammars, int : BOOLEAN]) /\ GStack' # << >>
        /\ GStack'[Len(GStack')].int = FALSE
    <3>1. rest \in Seq([name : DOMAIN Grammars, int : BOOLEAN])
      BY <1>5 DEF StackOver
    <3> QED BY ONLY <1>7, <2>1, <3>1, ClearTop
  <2>3. GStack' \in StackOver(Grammars')
    BY <1>4, <2>2 DEF StackOver
  <2>4. StackMatchesState'
    <3>1. Back'.int = FALSE
      BY <2>2 DEF Back
    <3> QED BY <2>1, <2>2, <3>1 DEF StackMatchesState
  <2> QED BY <1>1, <1>4, <2>1, <2>3, <2>4 DEF Keeps, Grammar
<1> QED BY <1>6, <1>7

(* An attribute keeps the invariant. *)
LEMMA AttributeKeeps ==
  ASSUME IInv, loop = "running", NEW e \in Doc!Events, Attribute(e)
  PROVE  Keeps
<1> DEFINE ev == Stored("ATQName", e.name)
<1>1. /\ e.term = "AT" /\ loop' = "running" /\ Current = "StartTagContent"
      /\ Current' = Current /\ GStack' = GStack
      /\ Taught(Grammars, e, ev)
  BY DEF Attribute
<1>2. Teaches(e, ev)
  BY AttributeTeaches
<1>3. GsOK(Grammars') /\ DOMAIN Grammars' = DOMAIN Grammars
  <2>1. GsOK(Grammars)
    BY GrammarsOK
  <2> QED BY <1>1, <1>2, <2>1, TaughtOK
<1>4. GStack' \in StackOver(Grammars')
  <2>1. GStack \in StackOver(Grammars)
    BY StackIs
  <2> QED BY <1>1, <1>3, <2>1 DEF StackOver
<1>5. StackMatchesState'
  BY <1>1 DEF IInv, StackMatchesState, Back
<1> QED BY <1>1, <1>3, <1>4, <1>5 DEF Keeps, Grammar

(* Text keeps the invariant: the element is in its content. *)
LEMMA TextKeeps ==
  ASSUME IInv, loop = "running", NEW e \in Doc!Events, Text(e)
  PROVE  Keeps
<1> DEFINE ev == Stored("CHExtern", None)
<1>1. /\ e.term = "CH" /\ loop' = "running" /\ Current \in Inside
      /\ Current' = "ElementContent"
      /\ GStack' = [GStack EXCEPT ![Len(GStack)].int = FALSE]
      /\ Taught(Grammars, e, ev)
  BY DEF Text
<1>2. GStack # << >> /\ GStack \in StackOver(Grammars)
  BY <1>1, InsideIs, StackIs
<1>3. Teaches(e, ev)
  BY TextTeaches
<1>4. GsOK(Grammars') /\ DOMAIN Grammars' = DOMAIN Grammars
  <2>1. GsOK(Grammars)
    BY GrammarsOK
  <2> QED BY <1>1, <1>3, <2>1, TaughtOK
<1>5. /\ GStack' \in Seq([name : DOMAIN Grammars, int : BOOLEAN]) /\ GStack' # << >>
      /\ GStack'[Len(GStack')].int = FALSE
  <2>1. GStack \in Seq([name : DOMAIN Grammars, int : BOOLEAN])
    BY <1>2 DEF StackOver
  <2> QED BY ONLY <1>1, <1>2, <2>1, ClearTop
<1>6. GStack' \in StackOver(Grammars')
  BY <1>4, <1>5 DEF StackOver
<1>7. StackMatchesState'
  <2>1. Back'.int = FALSE
    BY <1>5 DEF Back
  <2> QED BY <1>1, <1>5, <2>1 DEF StackMatchesState
<1> QED BY <1>1, <1>4, <1>6, <1>7 DEF Keeps, Grammar

(***************************************************************************)
(* The theorems                                                            *)
(***************************************************************************)

(* The invariant holds before the first call of decode(). *)
LEMMA InitHolds == Init => IInv
<1> SUFFICES ASSUME Init PROVE IInv
  OBVIOUS
<1>1. /\ Current = "Document" /\ GStack = << >> /\ Grammars = [q \in {} |-> NewGrammar]
      /\ loop = "running" /\ sent.term = "none" /\ out.term = "none"
      /\ sent.name = None /\ out.name = None /\ out.used = 0 /\ sent.code = << >>
  BY DEF Init
<1>2. DOMAIN Grammars = {}
  BY <1>1
<1>3. TypeOK
  BY <1>1, <1>2 DEF TypeOK, Grammar
<1>4. StackMatchesState
  BY <1>1 DEF StackMatchesState
<1>5. LearnedOnce
  BY <1>2 DEF LearnedOnce
<1>6. DecodesTheTable
  BY <1>1 DEF DecodesTheTable, Kind
<1> QED BY <1>1, <1>2, <1>3, <1>4, <1>5, <1>6 DEF IInv

(* The invariant holds after every call of decode(). *)
LEMMA StepKeepsInvariant ==
  ASSUME IInv, OrdinaryContent, [Next]_schemaVars
  PROVE  IInv'
<1>1. CASE UNCHANGED schemaVars
  BY <1>1 DEF schemaVars, IInv, TypeOK, StackMatchesState, LearnedOnce, DecodesTheTable, Back,
              GrammarOK, Kind
<1>2. CASE Next
  <2>1. PICK e \in Doc!Events, s \in Seq(Nat) : Sends(e, s) /\ Effect(e, s)
    BY <1>2, StepEffect
  <2>2. loop = "running"
    BY <2>1 DEF Sends
  <2>3. Unread \/ Reported(e, s)
    BY <2>1 DEF Effect
  <2>4. DecodesTheTable'
    BY <2>1, <2>3, ReportedDecodes
  <2>5. Keeps
    BY <2>1, <2>2, UnreadKeeps, NoEffectKeeps, StartsKeeps, QuitsKeeps, PushesKeeps,
       PopsKeeps, AttributeKeeps, TextKeeps DEF Effect
  <2> QED BY <2>4, <2>5, KeepsInvariant
<1> QED BY <1>1, <1>2

(* The inductive invariant of the built-in schema: the four properties     *)
(* below, what each list of a BuiltinGrammar may hold and how wide its     *)
(* codes are, no grammar before the root element, and no fragment while    *)
(* decodeBody's loop runs.                                                 *)
THEOREM SchemaInvariant ==
  ASSUME OrdinaryContent
  PROVE  Spec => []IInv
<1>1. IInv /\ [Next]_schemaVars => IInv'
  BY StepKeepsInvariant
<1> QED BY <1>1, InitHolds, PTL DEF Spec

(* The shape of the schema's members is kept: TypeOK. *)
THEOREM SchemaTyped ==
  ASSUME OrdinaryContent
  PROVE  Spec => []TypeOK
<1>1. IInv => TypeOK
  BY DEF IInv
<1> QED BY <1>1, SchemaInvariant, PTL

(* GStack is empty exactly outside the root element, and IsStart of its    *)
(* top agrees with the grammar state: handleDocEnd's and                   *)
(* handleDocContent's assertions cannot fail, and Back is never taken of   *)
(* an empty stack.                                                         *)
THEOREM SchemaStack ==
  ASSUME OrdinaryContent
  PROVE  Spec => []StackMatchesState
<1>1. IInv => StackMatchesState
  BY DEF IInv
<1> QED BY <1>1, SchemaInvariant, PTL

(* addTerm never stores a production that its list has already, so the     *)
(* codes of an element grow only with new productions, however elements    *)
(* of one name are nested.                                                 *)
THEOREM SchemaLearnsOnce ==
  ASSUME OrdinaryContent
  PROVE  Spec => []LearnedOnce
<1>1. IInv => LearnedOnce
  BY DEF IInv
<1> QED BY <1>1, SchemaInvariant, PTL

(* decode() returns the event that the table of productions gives the      *)
(* code that was read, with its name, and reads that code to its end,      *)
(* whatever was learned before.                                            *)
THEOREM SchemaDecodes ==
  ASSUME OrdinaryContent
  PROVE  Spec => []DecodesTheTable
<1>1. IInv => DecodesTheTable
  BY DEF IInv
<1> QED BY <1>1, SchemaInvariant, PTL

(***************************************************************************)
(* The refinement: every step of the decoder is an event of the document,  *)
(* or its end.                                                             *)
(***************************************************************************)

(* A reported event and the bits that were read are the event of the       *)
(* document and its code.                                                  *)
LEMMA LastRefined ==
  ASSUME NEW e, NEW s \in Seq(Nat), Sends(e, s), Reported(e, s)
  PROVE  docLast' = [term |-> e.term, name |-> e.name, code |-> Doc!Code(Doc!Levels, e)]
<1>1. s = Doc!Code(Doc!Levels, e) /\ sent'.code = s
  BY DEF Sends
<1>2. out'.term # "Null" /\ Kind(out'.term) = e.term /\ out'.name = e.name
      /\ out'.used = Len(s)
  BY DEF Reported
<1>3. [i \in 1 .. Len(s) |-> BitAt(s, i)] = s
  <2>1. \A i \in 1 .. Len(s) : BitAt(s, i) = s[i]
    BY DEF BitAt
  <2>2. s = [i \in 1 .. Len(s) |-> s[i]]
    OBVIOUS
  <2> QED BY <2>1, <2>2
<1>4. docLast' = [term |-> Kind(out'.term), name |-> out'.name,
                  code |-> [i \in 1 .. out'.used |-> BitAt(sent'.code, i)]]
  BY <1>2 DEF docLast, Kind, BitAt
<1> QED BY <1>1, <1>2, <1>3, <1>4

(* The learned productions, over any grammars. *)
LearnedOf(gs) ==
  [q \in QName |->
     IF q \in DOMAIN gs
     THEN [start |-> Productions(gs[q].StartTag), content |-> Productions(gs[q].Element)]
     ELSE [start |-> << >>, content |-> << >>]]

(* What addTerm puts at the back of its list is the first of the           *)
(* productions.                                                            *)
LEMMA ProductionsAppend ==
  ASSUME NEW list \in Seq(Stores), NEW ev \in Stores
  PROVE  Productions(Append(list, ev)) = << Production(ev) >> \o Productions(list)
<1> DEFINE l == Append(list, ev)  n == Len(list)  ps == Productions(list)
           qs == Productions(l)  one == << Production(ev) >>  r == one \o ps
<1>1. /\ l \in Seq(Stores) /\ Len(l) = n + 1 /\ n \in Nat
      /\ \A i \in 1 .. n : l[i] = list[i]
      /\ l[n + 1] = ev
  <2> HIDE DEF Stores
  <2> QED OBVIOUS
<1>2. /\ ps \in Seq(Prod) /\ Len(ps) = n
      /\ \A i \in 1 .. n : ps[i] = Production(list[n + 1 - i])
  BY ProductionsOf
<1> HIDE DEF l
<1>3. /\ qs \in Seq(Prod) /\ Len(qs) = n + 1
      /\ \A i \in 1 .. n + 1 : qs[i] = Production(l[Len(l) + 1 - i])
  BY <1>1, ProductionsOf
<1>4. one \in Seq(Prod) /\ Len(one) = 1 /\ one[1] = Production(ev)
  <2>1. Production(ev) \in Prod
    BY ProductionIs
  <2> HIDE DEF Prod
  <2> QED BY <2>1
<1> HIDE DEF ps, qs, one
<1>5. /\ r \in Seq(Prod) /\ Len(r) = Len(one) + Len(ps)
      /\ \A i \in 1 .. Len(one) + Len(ps) : r[i] = IF i <= Len(one) THEN one[i] ELSE ps[i - Len(one)]
  <2>1. one \in Seq(Prod) /\ ps \in Seq(Prod)
    BY <1>2, <1>4
  <2> QED BY ONLY <2>1, ConcatProperties
<1> HIDE DEF r
<1>6. ASSUME NEW i \in 1 .. n + 1 PROVE qs[i] = r[i]
  <2>1. Len(l) + 1 - i = n + 2 - i
    BY <1>1
  <2>2. CASE i = 1
    <3>1. n + 2 - i = n + 1 /\ i <= Len(one) /\ i \in 1 .. Len(one) + Len(ps)
      BY <1>1, <1>2, <1>4, <2>2
    <3> QED BY <1>1, <1>3, <1>4, <1>5, <2>1, <2>2, <3>1
  <2>3. CASE i # 1
    <3> DEFINE j == i - 1  k == n + 2 - i
    <3>1. j \in 1 .. n /\ k \in 1 .. n /\ k = n + 1 - j /\ ~ (i <= Len(one))
          /\ i - Len(one) = j /\ i \in 1 .. Len(one) + Len(ps)
      BY <1>1, <1>2, <1>4, <2>3
    <3>2. qs[i] = Production(l[k])
      BY <1>3, <2>1
    <3>3. r[i] = ps[j]
      BY <1>5, <3>1
    <3> HIDE DEF j, k
    <3> QED BY <1>1, <1>2, <3>1, <3>2, <3>3
  <2> QED BY <2>2, <2>3
<1>7. qs = r
  <2>1. Len(r) = n + 1
    BY <1>1, <1>2, <1>4, <1>5
  <2>2. \A i \in 1 .. Len(qs) : qs[i] = r[i]
    BY <1>3, <1>6
  <2>3. Len(qs) = Len(r) /\ qs \in Seq(Prod) /\ r \in Seq(Prod)
    BY <1>3, <1>5, <2>1
  <2> QED BY ONLY <2>2, <2>3, SeqEqual
<1> QED BY <1>7 DEF qs, r, one, ps, l

(* The marks of the documents' stack, over any stack and state.            *)
MarksOf(st, cur) ==
  [i \in 1 .. Len(st) |->
     [name |-> st[i].name,
      inStart |-> i = Len(st) /\ cur \in {"StartTagContent", "Fragment"}]]

(* The members of the document's stack. *)
Marks == [name : QName, inStart : BOOLEAN]

(* The document's stack and its next value are marks of GStack. *)
LEMMA StackIsMarks ==
  docStack = MarksOf(GStack, Current) /\ docStack' = MarksOf(GStack', Current')
BY DEF docStack, MarksOf

(* The marks of a stack: its names, with only the top in its start tag. *)
LEMMA MarksAre ==
  ASSUME NEW st \in Seq([name : QName, int : BOOLEAN]), NEW cur
  PROVE  /\ MarksOf(st, cur) \in Seq(Marks) /\ Len(MarksOf(st, cur)) = Len(st)
         /\ Len(st) \in Nat
         /\ \A i \in 1 .. Len(st) :
              /\ MarksOf(st, cur)[i] \in Marks
              /\ MarksOf(st, cur)[i].name = st[i].name
              /\ MarksOf(st, cur)[i].inStart <=>
                   i = Len(st) /\ cur \in {"StartTagContent", "Fragment"}
<1> DEFINE n == Len(st)  E == [name : QName, int : BOOLEAN]
           f(i) == [name |-> st[i].name,
                    inStart |-> i = Len(st) /\ cur \in {"StartTagContent", "Fragment"}]
<1>1. n \in Nat
  OBVIOUS
<1>2. ASSUME NEW i \in 1 .. n PROVE st[i].name \in QName
  <2>1. st \in Seq(E)
    OBVIOUS
  <2> HIDE DEF E
  <2>2. st[i] \in E
    BY <1>1, <2>1
  <2> QED BY <2>2 DEF E
<1>3. \A i \in 1 .. n : f(i) \in Marks
  BY <1>2 DEF Marks
<1>4. MarksOf(st, cur) = [i \in 1 .. n |-> f(i)]
  BY DEF MarksOf
<1>5. \A i \in 1 .. n : /\ f(i).name = st[i].name
                        /\ f(i).inStart <=> i = Len(st) /\ cur \in {"StartTagContent", "Fragment"}
  OBVIOUS
<1> HIDE DEF f, n, Marks
<1>6. /\ MarksOf(st, cur) \in Seq(Marks) /\ Len(MarksOf(st, cur)) = n
      /\ \A i \in 1 .. n : MarksOf(st, cur)[i] = f(i)
  BY <1>1, <1>3, <1>4
<1> QED BY <1>1, <1>3, <1>5, <1>6 DEF n

(* m has the names of st and only its top may be in its start tag. *)
Marked(m, st, cur) ==
  \A i \in 1 .. Len(st) :
    /\ m[i].name = st[i].name
    /\ m[i].inStart <=> i = Len(st) /\ cur \in {"StartTagContent", "Fragment"}

(* Two stacks of the document that agree in names and marks are one. *)
LEMMA MarksEqual ==
  ASSUME NEW st \in Seq([name : QName, int : BOOLEAN]), NEW cur, NEW m \in Seq(Marks),
         Len(m) = Len(st), Marked(m, st, cur)
  PROVE  MarksOf(st, cur) = m
<1> DEFINE k == MarksOf(st, cur)
<1>1. /\ k \in Seq(Marks) /\ Len(k) = Len(st) /\ Len(st) \in Nat
      /\ \A i \in 1 .. Len(st) :
           /\ k[i] \in Marks
           /\ k[i].name = st[i].name
           /\ k[i].inStart <=> i = Len(st) /\ cur \in {"StartTagContent", "Fragment"}
  BY MarksAre
<1> HIDE DEF k
<1>2. ASSUME NEW i \in 1 .. Len(k) PROVE k[i] = m[i]
  <2>1. m[i] \in Marks /\ k[i] \in Marks
    <3> HIDE DEF Marks
    <3> QED BY <1>1
  <2>2. m[i].name = k[i].name /\ (m[i].inStart <=> k[i].inStart)
    BY <1>1 DEF Marked
  <2> QED BY <2>1, <2>2 DEF Marks
<1>3. k = m
  <2>1. k \in Seq(Marks) /\ m \in Seq(Marks) /\ Len(k) = Len(m)
    BY <1>1
  <2>2. \A i \in 1 .. Len(k) : k[i] = m[i]
    BY <1>2
  <2> QED BY ONLY <2>1, <2>2, SeqEqual
<1> QED BY <1>3 DEF k

(* The names on GStack are qualified names. *)
LEMMA StackTyped ==
  ASSUME IInv
  PROVE  GStack \in Seq([name : QName, int : BOOLEAN])
<1>1. GStack \in Seq([name : DOMAIN Grammars, int : BOOLEAN]) /\ DOMAIN Grammars \subseteq QName
  BY DEF IInv, TypeOK
<1> QED BY <1>1, SeqOverLarger

(* The element on top is in its content. *)
LEMMA InContentIs ==
  ASSUME IInv
  PROVE  Doc!InContent = MarksOf(GStack, "ElementContent")
<1> DEFINE n == Len(GStack)  m == Doc!InContent
<1>1. GStack \in Seq([name : QName, int : BOOLEAN])
  BY StackTyped
<1>2. /\ docStack \in Seq(Marks) /\ Len(docStack) = n /\ n \in Nat
      /\ \A i \in 1 .. n :
           /\ docStack[i] \in Marks
           /\ docStack[i].name = GStack[i].name
           /\ docStack[i].inStart <=>
                i = n /\ Current \in {"StartTagContent", "Fragment"}
  BY <1>1, MarksAre, StackIsMarks
<1>3. /\ m \in Seq(Marks) /\ Len(m) = n
      /\ \A i \in 1 .. n : m[i].name = GStack[i].name /\ m[i].inStart = FALSE
  <2>1. CASE n = 0
    <3>1. docStack = << >>
      <4> HIDE DEF Marks
      <4> QED BY <1>2, <2>1, EmptySeq
    <3>2. m = << >>
      BY <3>1 DEF Doc!InContent
    <3> QED BY <1>2, <2>1, <3>1, <3>2
  <2>2. CASE n # 0
    <3> DEFINE x == [docStack[n] EXCEPT !.inStart = FALSE]
    <3>1. docStack # << >> /\ n \in 1 .. n
      BY <1>2, <2>2
    <3>2. m = [docStack EXCEPT ![n] = x]
      BY <1>2, <3>1 DEF Doc!InContent
    <3>3. x \in Marks /\ x.name = GStack[n].name /\ x.inStart = FALSE
      BY <1>2, <3>1 DEF Marks
    <3> HIDE DEF x, m
    <3>4. /\ m \in Seq(Marks) /\ Len(m) = Len(docStack)
          /\ \A i \in 1 .. Len(docStack) : m[i] = IF i = n THEN x ELSE docStack[i]
      <4>1. n \in 1 .. Len(docStack) /\ docStack \in Seq(Marks)
        BY <1>2, <3>1
      <4> HIDE DEF n, Marks
      <4> QED BY ONLY <3>2, <3>3, <4>1, ExceptSeq
    <3>5. ASSUME NEW i \in 1 .. n PROVE m[i].name = GStack[i].name /\ m[i].inStart = FALSE
      <4>1. CASE i = n
        BY <1>2, <3>3, <3>4, <4>1
      <4>2. CASE i # n
        <5>1. m[i] = docStack[i] /\ docStack[i] \in Marks /\ ~ docStack[i].inStart
          BY <1>2, <3>4, <4>2
        <5> QED BY <1>2, <5>1 DEF Marks
      <4> QED BY <4>1, <4>2
    <3> QED BY <1>2, <3>4, <3>5
  <2> QED BY <2>1, <2>2
<1> HIDE DEF m
<1>4. Marked(m, GStack, "ElementContent")
  BY <1>3 DEF Marked
<1>5. MarksOf(GStack, "ElementContent") = m
  BY <1>1, <1>3, <1>4, MarksEqual
<1> QED BY <1>5 DEF m

(* The phase and the stack of the document follow an event e. *)
Follows(e) == docPhase' = Doc!NextPhase(e) /\ docStack' = Doc!NextStack(e)

Starting == {"StartTagContent", "Fragment"}

(* The document's stack stays while GStack does and the state does not     *)
(* leave a start tag.                                                      *)
LEMMA SameStack ==
  ASSUME GStack' = GStack, Current' \in Starting <=> Current \in Starting
  PROVE  docStack' = docStack
BY StackIsMarks DEF MarksOf, Starting

(* The document's phase after a step. *)
LEMMA PhaseNext ==
  /\ loop' = "running" /\ Current' \in Inside => docPhase' = "Element"
  /\ loop' = "running" /\ Current' \notin Inside => docPhase' = Current'
  /\ loop' # "running" => docPhase' = "Ended"
<1>1. /\ loop = "running" /\ Current \in Inside => docPhase = "Element"
      /\ loop = "running" /\ Current \notin Inside => docPhase = Current
      /\ loop # "running" => docPhase = "Ended"
  BY DEF docPhase, Inside
<1>2. (/\ loop = "running" /\ Current \in Inside => docPhase = "Element"
       /\ loop = "running" /\ Current \notin Inside => docPhase = Current
       /\ loop # "running" => docPhase = "Ended")'
  BY <1>1, PTL
<1> QED BY <1>2 DEF Inside

(* The document follows the events that only pass by, *)
LEMMA NoEffectFollows ==
  ASSUME IInv, loop = "running", NEW e, NoEffect(e)
  PROVE  Follows(e)
<1>1. Current' = Current /\ GStack' = GStack
  BY DEF NoEffect, Same
<1>2. docStack' = docStack
  BY <1>1, SameStack
<1>3. e.term \in {"ER", "CM", "PI"} => Doc!InContent = docStack
  <2> SUFFICES ASSUME e.term \in {"ER", "CM", "PI"} PROVE Doc!InContent = docStack
    OBVIOUS
  <2>1. CASE Current = "ElementContent"
    BY <2>1, InContentIs, StackIsMarks
  <2>2. CASE Current # "ElementContent"
    <3>1. Current \in {"DocContent", "DocEnd"}
      BY <2>2 DEF NoEffect
    <3>2. GStack = << >>
      BY <3>1 DEF IInv, StackMatchesState
    <3> QED BY <3>1, <3>2, InContentIs, StackIsMarks DEF MarksOf
  <2> QED BY <2>1, <2>2
<1>4. Doc!NextStack(e) = docStack
  <2>1. e.term \in {"NS", "DT", "CM", "PI", "ED", "ER"}
    BY DEF NoEffect
  <2> QED BY <1>3, <2>1 DEF Doc!NextStack
<1>5. docPhase' = Doc!NextPhase(e)
  <2>1. CASE e.term = "ED"
    <3>1. loop' = "done"
      BY <2>1 DEF NoEffect
    <3> QED BY <2>1, <3>1, PhaseNext DEF Doc!NextPhase
  <2>2. CASE e.term # "ED"
    <3>1. loop' = "running" /\ e.term \in {"NS", "DT", "CM", "PI", "ER"}
      BY <2>2 DEF NoEffect
    <3>2. docPhase' = docPhase
      BY <1>1, <3>1, PhaseIs, PhaseNext
    <3> QED BY <3>1, <3>2 DEF Doc!NextPhase
  <2> QED BY <2>1, <2>2
<1> QED BY <1>2, <1>4, <1>5 DEF Follows

(* its start, *)
LEMMA StartsFollows ==
  ASSUME NEW e, Starts(e)
  PROVE  Follows(e)
<1>1. /\ Current = "Document" /\ Current' = "DocContent" /\ GStack' = GStack
      /\ loop' = "running" /\ e.term = "SD"
  BY DEF Starts
<1>2. docStack' = docStack
  BY <1>1, SameStack DEF Starting
<1>3. docPhase' = "DocContent"
  BY <1>1, PhaseNext DEF Inside
<1> QED BY <1>1, <1>2, <1>3 DEF Follows, Doc!NextPhase, Doc!NextStack

(* a self-contained element, *)
LEMMA QuitsFollows ==
  ASSUME NEW e, Quits(e)
  PROVE  Follows(e)
<1>1. /\ Current = "StartTagContent" /\ Current' = "Fragment" /\ GStack' = GStack
      /\ loop' = "failed" /\ e.term = "SC"
  BY DEF Quits
<1>2. docStack' = docStack
  BY <1>1, SameStack DEF Starting
<1>3. docPhase' = "Ended"
  BY <1>1, PhaseNext
<1> QED BY <1>1, <1>2, <1>3 DEF Follows, Doc!NextPhase, Doc!NextStack

(* an attribute, *)
LEMMA AttributeFollows ==
  ASSUME loop = "running", NEW e, Attribute(e)
  PROVE  Follows(e)
<1>1. /\ Current' = Current /\ GStack' = GStack /\ loop' = "running" /\ e.term = "AT"
  BY DEF Attribute
<1>2. docStack' = docStack
  BY <1>1, SameStack
<1>3. docPhase' = docPhase
  BY <1>1, PhaseIs, PhaseNext
<1> QED BY <1>1, <1>2, <1>3 DEF Follows, Doc!NextPhase, Doc!NextStack

(* text, which takes the element to its content, *)
LEMMA TextFollows ==
  ASSUME IInv, loop = "running", NEW e, Text(e)
  PROVE  Follows(e)
<1> DEFINE n == Len(GStack)
<1>1. /\ e.term = "CH" /\ loop' = "running" /\ Current \in Inside
      /\ Current' = "ElementContent"
      /\ GStack' = [GStack EXCEPT ![n].int = FALSE]
  BY DEF Text
<1>2. GStack # << >> /\ GStack \in Seq([name : QName, int : BOOLEAN])
  BY <1>1, InsideIs, StackTyped
<1>3. /\ Len(GStack') = n
      /\ \A i \in 1 .. n : GStack'[i].name = GStack[i].name
  BY ONLY <1>1, <1>2, ClearTop
<1>4. docStack' = MarksOf(GStack, "ElementContent")
  BY <1>1, <1>3, StackIsMarks DEF MarksOf
<1>5. docPhase' = "Element" /\ docPhase = "Element"
  BY <1>1, PhaseIs, PhaseNext DEF Inside
<1> QED BY <1>1, <1>4, <1>5, InContentIs DEF Follows, Doc!NextPhase, Doc!NextStack

(* a start tag, which takes the parent to its content and opens an         *)
(* element,                                                                *)
LEMMA PushesFollows ==
  ASSUME IInv, loop = "running", NEW e \in Doc!Events, Pushes(e)
  PROVE  Follows(e)
<1> DEFINE q == e.name  top == [name |-> q, int |-> TRUE]  n == Len(GStack)
           mark == [name |-> q, inStart |-> TRUE]
           m == MarksOf(GStack, "ElementContent")  r == Append(m, mark)
<1>1. /\ e.term = "SE" /\ loop' = "running" /\ Current' = "StartTagContent"
      /\ GStack' = Append(GStack, top)
  BY DEF Pushes
<1>2. q \in QName /\ top \in [name : QName, int : BOOLEAN]
      /\ mark \in Marks /\ mark.name = q /\ mark.inStart
  <2>1. q \in QName
    BY <1>1, EventIs
  <2> QED BY <2>1 DEF Marks
<1>3. GStack \in Seq([name : QName, int : BOOLEAN]) /\ n \in Nat
  BY StackTyped
<1>4. /\ GStack' \in Seq([name : QName, int : BOOLEAN]) /\ Len(GStack') = n + 1
      /\ GStack'[n + 1].name = q
      /\ \A i \in 1 .. n : GStack'[i] = GStack[i]
  <2> DEFINE E == [name : QName, int : BOOLEAN]
  <2>1. GStack \in Seq(E) /\ top \in E /\ top.name = q
    BY <1>2, <1>3
  <2> HIDE DEF E, top
  <2>2. /\ GStack' \in Seq(E) /\ Len(GStack') = n + 1 /\ GStack'[n + 1] = top
        /\ \A i \in 1 .. n : GStack'[i] = GStack[i]
    BY <1>1, <2>1
  <2> QED BY <2>1, <2>2 DEF E
<1>5. /\ m \in Seq(Marks) /\ Len(m) = n
      /\ \A i \in 1 .. n : m[i].name = GStack[i].name /\ ~ m[i].inStart
  <2>1. "ElementContent" \notin {"StartTagContent", "Fragment"}
    OBVIOUS
  <2> QED BY <1>3, <2>1, MarksAre
<1> HIDE DEF m, mark, top
<1>6. /\ r \in Seq(Marks) /\ Len(r) = n + 1 /\ r[n + 1] = mark
      /\ \A i \in 1 .. n : r[i] = m[i]
  <2> HIDE DEF Marks
  <2> QED BY <1>2, <1>3, <1>5
<1> HIDE DEF r
<1>7. docStack' = r
  <2>1. Marked(r, GStack', "StartTagContent")
    <3> SUFFICES ASSUME NEW i \in 1 .. n + 1
                 PROVE  r[i].name = GStack'[i].name /\ (r[i].inStart <=> i = n + 1)
      BY <1>4 DEF Marked
    <3>1. CASE i = n + 1
      BY <1>2, <1>4, <1>6, <3>1
    <3>2. CASE i # n + 1
      <4>1. i \in 1 .. n
        BY <1>3, <3>2
      <4> QED BY <1>4, <1>5, <1>6, <3>2, <4>1
    <3> QED BY <3>1, <3>2
  <2>2. MarksOf(GStack', "StartTagContent") = r
    <3>1. Len(r) = Len(GStack') /\ r \in Seq(Marks)
          /\ GStack' \in Seq([name : QName, int : BOOLEAN])
      BY <1>4, <1>6
    <3> QED BY ONLY <2>1, <3>1, MarksEqual
  <2> QED BY <1>1, <2>2, StackIsMarks
<1>8. docPhase' = "Element"
  BY <1>1, PhaseNext DEF Inside
<1> QED BY <1>1, <1>7, <1>8, InContentIs
        DEF Follows, Doc!NextPhase, Doc!NextStack, r, m, mark

(* and an end tag, which goes back to the parent or ends the root          *)
(* element.                                                                *)
LEMMA PopsFollows ==
  ASSUME IInv, loop = "running", NEW e \in Doc!Events, Pops(e)
  PROVE  Follows(e)
<1> DEFINE n == Len(GStack)  rest == SubSeq(GStack, 1, n - 1)  p == Doc!Pop
           E == [name : QName, int : BOOLEAN]
<1>1. /\ e.term = "EE" /\ loop' = "running" /\ Current \in Inside
      /\ Current' = IF rest = << >> THEN "DocEnd" ELSE "ElementContent"
      /\ GStack' = IF rest = << >> THEN rest ELSE [rest EXCEPT ![Len(rest)].int = FALSE]
  BY DEF Pops, PopGrammar
<1>2. /\ GStack # << >> /\ GStack \in Seq(E) /\ n \in Nat \ {0}
  BY <1>1, InsideIs, TopOfStack, StackTyped
<1>3. /\ docStack \in Seq(Marks) /\ Len(docStack) = n /\ docStack # << >>
      /\ \A i \in 1 .. n :
           /\ docStack[i].name = GStack[i].name
           /\ docStack[i].inStart => i = n
  <2>1. /\ docStack \in Seq(Marks) /\ Len(docStack) = n
        /\ \A i \in 1 .. n :
             /\ docStack[i].name = GStack[i].name
             /\ docStack[i].inStart => i = n
    BY <1>2, MarksAre, StackIsMarks
  <2>2. docStack # << >>
    BY <1>2, <2>1
  <2> QED BY <2>1, <2>2
<1>4. /\ rest \in Seq(E) /\ Len(rest) = n - 1
      /\ \A i \in 1 .. n - 1 : rest[i] = GStack[i]
  <2> HIDE DEF E
  <2> QED BY ONLY <1>2, RestIs
<1>5. /\ p \in Seq(Marks) /\ Len(p) = n - 1
      /\ \A i \in 1 .. n - 1 : p[i] = docStack[i]
  <2>1. /\ SubSeq(docStack, 1, Len(docStack) - 1) \in Seq(Marks)
        /\ Len(SubSeq(docStack, 1, Len(docStack) - 1)) = Len(docStack) - 1
        /\ \A i \in 1 .. Len(docStack) - 1 :
             SubSeq(docStack, 1, Len(docStack) - 1)[i] = docStack[i]
    <3> HIDE DEF Marks
    <3> QED BY ONLY <1>3, RestIs
  <2>2. p = SubSeq(docStack, 1, Len(docStack) - 1)
    BY DEF Doc!Pop
  <2> QED BY ONLY <1>3, <2>1, <2>2
<1> HIDE DEF rest, p
<1>6. rest = << >> <=> n = 1
  <2> HIDE DEF E
  <2> QED BY <1>2, <1>4, EmptySeq
<1>7. p = << >> <=> n = 1
  <2>1. p = << >> => Len(p) = 0
    BY EmptySeq
  <2>2. p # << >> => Len(p) \in Nat \ {0}
    <3>1. p \in Seq(Marks)
      BY <1>5
    <3> HIDE DEF Marks
    <3> QED BY ONLY <3>1, EmptySeq
  <2> QED BY <1>2, <1>5, <2>1, <2>2
<1>8. docPhase' = Doc!NextPhase(e)
  <2>1. docPhase' = IF n = 1 THEN "DocEnd" ELSE "Element"
    BY <1>1, <1>6, PhaseNext DEF Inside
  <2> QED BY <1>1, <1>7, <2>1 DEF Doc!NextPhase, p
<1>9. docStack' = p
  <2>1. CASE n = 1
    <3>1. GStack' = << >>
      BY <1>1, <1>6, <2>1
    <3>2. docStack' = << >>
      BY <3>1 DEF docStack
    <3> QED BY <1>7, <2>1, <3>2
  <2>2. CASE n # 1
    <3>1. rest # << >> /\ Current' = "ElementContent"
          /\ GStack' = [rest EXCEPT ![Len(rest)].int = FALSE]
      BY <1>1, <1>6, <2>2
    <3>2. /\ Len(GStack') = Len(rest)
          /\ GStack' \in Seq([name : QName, int : BOOLEAN])
          /\ \A i \in 1 .. Len(rest) : GStack'[i].name = rest[i].name
      <4>1. rest \in Seq([name : QName, int : BOOLEAN])
        BY <1>4
      <4>2. Len(GStack') = Len(rest) /\ GStack' \in Seq([name : QName, int : BOOLEAN])
        BY ONLY <3>1, <4>1, ClearTop
      <4>3. \A i \in 1 .. Len(rest) : GStack'[i].name = rest[i].name
        BY ONLY <3>1, <4>1, ClearTop
      <4> QED BY <4>2, <4>3
    <3>3. Marked(p, GStack', "ElementContent")
      <4> SUFFICES ASSUME NEW i \in 1 .. n - 1
                   PROVE  p[i].name = GStack'[i].name /\ ~ p[i].inStart
        BY <1>4, <3>2 DEF Marked
      <4>1. i \in 1 .. n /\ i # n
        BY <1>2
      <4> QED BY <1>3, <1>4, <1>5, <3>2, <4>1
    <3>4. MarksOf(GStack', "ElementContent") = p
      <4>1. Len(p) = Len(GStack') /\ p \in Seq(Marks)
            /\ GStack' \in Seq([name : QName, int : BOOLEAN])
        BY <1>4, <1>5, <3>2
      <4> QED BY ONLY <3>3, <4>1, MarksEqual
    <3> QED BY <3>1, <3>4, StackIsMarks
  <2> QED BY <2>1, <2>2
<1> QED BY <1>1, <1>8, <1>9 DEF Follows, Doc!NextStack, p

(***************************************************************************)
(* What the document has learned follows the grammars.                     *)
(***************************************************************************)

(* The document's learned productions are those of the grammars. *)
LEMMA LearnedIs ==
  docLearned = LearnedOf(Grammars) /\ docLearned' = LearnedOf(Grammars')
BY DEF docLearned, LearnedOf

(* A grammar made by loadGrammar has learned nothing. *)
LEMMA loadGrammarLearned ==
  ASSUME IInv, NEW q \in QName
  PROVE  LearnedOf(loadGrammar(q)) = docLearned
<1> DEFINE gs == loadGrammar(q)  none == [start |-> << >>, content |-> << >>]
           pr(g) == [start |-> Productions(g.StartTag), content |-> Productions(g.Element)]
<1>1. /\ DOMAIN gs = DOMAIN Grammars \union {q}
      /\ \A x \in DOMAIN Grammars : gs[x] = Grammars[x]
      /\ q \notin DOMAIN Grammars => gs[q] = NewGrammar
  BY DEF loadGrammar
<1>2. pr(NewGrammar) = none
  <2>1. Productions(<< >>) = << >>
    BY DEF Productions
  <2> QED BY <2>1 DEF NewGrammar
<1> HIDE DEF gs, none, pr
<1>3. /\ LearnedOf(gs) = [x \in QName |-> IF x \in DOMAIN gs THEN pr(gs[x]) ELSE none]
      /\ LearnedOf(Grammars) =
           [x \in QName |-> IF x \in DOMAIN Grammars THEN pr(Grammars[x]) ELSE none]
  BY DEF LearnedOf, pr, none
<1>4. ASSUME NEW x \in QName
      PROVE  (IF x \in DOMAIN gs THEN pr(gs[x]) ELSE none)
               = (IF x \in DOMAIN Grammars THEN pr(Grammars[x]) ELSE none)
  BY <1>1, <1>2
<1>5. LearnedOf(gs) = LearnedOf(Grammars)
  BY <1>3, <1>4
<1> QED BY <1>5, LearnedIs DEF gs

(* addTerm puts a production in front of those learned so far. *)
LEMMA addTermLearned ==
  ASSUME NEW q \in QName, NEW g, GrammarFull(q, g), NEW start \in BOOLEAN, NEW ev \in Stores,
         NEW h, h = addTerm(g, ev, start)
  PROVE  /\ start => /\ Productions(h.StartTag) = << Production(ev) >> \o Productions(g.StartTag)
                     /\ Productions(h.Element) = Productions(g.Element)
         /\ ~ start => /\ Productions(h.Element) = << Production(ev) >> \o Productions(g.Element)
                       /\ Productions(h.StartTag) = Productions(g.StartTag)
<1>1. /\ g \in [StartTag : Seq(StoredEvent), StartTagLog : Nat,
                Element : Seq(StoredEvent), ElementLog : Nat]
      /\ g.StartTag \in Seq(StoredInStart(q)) /\ g.Element \in Seq(StoredInContent)
  BY DEF GrammarFull, GrammarOK
<1>2. StoredInStart(q) \subseteq Stores /\ StoredInContent \subseteq Stores
  BY DEF StoredInStart, StoredInContent, Stores
<1>3. g.StartTag \in Seq(Stores) /\ g.Element \in Seq(Stores)
  <2> HIDE DEF StoredInStart, StoredInContent, Stores
  <2> QED BY <1>1, <1>2
<1>4. CASE start
  <2>1. h.StartTag = Append(g.StartTag, ev) /\ h.Element = g.Element
    <3> HIDE DEF StoredEvent
    <3> QED BY <1>1, <1>4 DEF addTerm
  <2> HIDE DEF Stores
  <2> QED BY <1>3, <1>4, <2>1, ProductionsAppend
<1>5. CASE ~ start
  <2>1. h.Element = Append(g.Element, ev) /\ h.StartTag = g.StartTag
    <3> HIDE DEF StoredEvent
    <3> QED BY <1>1, <1>5 DEF addTerm
  <2> HIDE DEF Stores
  <2> QED BY <1>3, <1>5, <2>1, ProductionsAppend
<1> QED BY <1>4, <1>5

(* The production an event teaches, as the table names it.                 *)
NewProduction(e) == Doc!Prod(e.term, IF e.term \in {"SE", "AT"} THEN e.name ELSE None)

(* ev stores what e teaches. *)
LearnsAs(e, ev) == Learns(e) => ev \in Stores /\ Production(ev) = NewProduction(e)

(* What an event adds to a grammar is what the table says the document     *)
(* learns.                                                                 *)
LEMMA TaughtLearned ==
  ASSUME IInv, NEW e, NEW ev, Teaches(e, ev), LearnsAs(e, ev), NEW gs, GsOK(gs),
         DOMAIN Grammars \subseteq DOMAIN gs,
         \A x \in DOMAIN Grammars : gs[x] = Grammars[x], Taught(gs, e, ev),
         LearnedOf(gs) = docLearned
  PROVE  docLearned' = Doc!Learn(e)
<1>1. CASE ~ Learns(e)
  <2>1. docLearned' = docLearned
    BY <1>1, LearnedIs DEF Taught
  <2> QED BY <1>1, <2>1 DEF Doc!Learn, Learns
<1>2. CASE Learns(e)
  <2> DEFINE b == Back.name  g == gs[b]  h == addTerm(g, ev, isStart)
             p == NewProduction(e)  L == docLearned
             pr(x) == [start |-> Productions(x.StartTag), content |-> Productions(x.Element)]
             none == [start |-> << >>, content |-> << >>]
  <2>1. Grammars' = [gs EXCEPT ![b] = h]
    BY <1>2 DEF Taught, Learn
  <2>2. Current \in Inside /\ ev \in Stores /\ Production(ev) = p
    BY <1>2 DEF Teaches, LearnsAs
  <2>3. /\ b \in DOMAIN Grammars /\ b \in QName /\ g = Grammars[b] /\ b \in DOMAIN gs
        /\ Doc!Top.name = b
        /\ Doc!Top.inStart <=> isStart
    <3>1. GStack # << >>
      BY <2>2, InsideIs
    <3> QED BY <2>2, <3>1, TopOfStack DEF isStart, Inside
  <2>4. GrammarFull(b, g) /\ isStart \in BOOLEAN
    BY <2>3 DEF GsOK, isStart
  <2>5. /\ isStart => /\ Productions(h.StartTag) = << p >> \o Productions(g.StartTag)
                      /\ Productions(h.Element) = Productions(g.Element)
        /\ ~ isStart => /\ Productions(h.Element) = << p >> \o Productions(g.Element)
                        /\ Productions(h.StartTag) = Productions(g.StartTag)
    <3> HIDE DEF b, g, p, Stores
    <3> QED BY <2>2, <2>3, <2>4, addTermLearned
  <2>6. L = [x \in QName |-> IF x \in DOMAIN gs THEN pr(gs[x]) ELSE none]
    BY DEF LearnedOf
  <2>7. docLearned' = [x \in QName |-> IF x \in DOMAIN gs
                                       THEN pr([gs EXCEPT ![b] = h][x]) ELSE none]
    BY <2>1, LearnedIs DEF LearnedOf
  <2>8. Doc!Learn(e) = IF isStart THEN [L EXCEPT ![b].start = << p >> \o @]
                       ELSE [L EXCEPT ![b].content = << p >> \o @]
    BY <1>2, <2>3 DEF Doc!Learn, Learns, NewProduction
  <2>9. L[b] = pr(g) /\ L[b].start = Productions(g.StartTag)
        /\ L[b].content = Productions(g.Element)
    BY <2>3, <2>6
  <2>10. ASSUME Doc!Learn(e) = [L EXCEPT ![b] = pr(h)]
         PROVE  docLearned' = Doc!Learn(e)
    <3> DEFINE f(x) == IF x \in DOMAIN gs THEN pr([gs EXCEPT ![b] = h][x]) ELSE none
    <3>1. b \in QName /\ b \in DOMAIN gs
      BY <2>3
    <3>2. ASSUME NEW x \in QName PROVE f(x) = IF x = b THEN pr(h) ELSE L[x]
      <4>1. CASE x = b
        <5>1. [gs EXCEPT ![b] = h][x] = h
          <6> HIDE DEF b, h
          <6> QED BY <3>1, <4>1
        <5> QED BY ONLY <3>1, <4>1, <5>1
      <4>2. CASE x # b
        <5>1. x \in DOMAIN gs => [gs EXCEPT ![b] = h][x] = gs[x]
          <6> HIDE DEF b, h
          <6> QED BY <3>1, <4>2
        <5>2. L[x] = IF x \in DOMAIN gs THEN pr(gs[x]) ELSE none
          BY <2>6
        <5> HIDE DEF b, h, pr, none, L
        <5> QED BY <4>2, <5>1, <5>2
      <4> QED BY <4>1, <4>2
    <3>3. docLearned' = [x \in QName |-> f(x)]
      BY <2>7
    <3>4. DOMAIN L = QName
      BY <2>6
    <3>5. Doc!Learn(e) = [x \in QName |-> IF x = b THEN pr(h) ELSE L[x]]
      <4> HIDE DEF b, h, pr, L
      <4> QED BY <2>10, <3>4
    <3> HIDE DEF f, b, h, pr, L
    <3> QED BY <3>2, <3>3, <3>5
  <2>11. CASE isStart
    <3>1. Doc!Learn(e) = [L EXCEPT ![b] = [start |-> << p >> \o Productions(g.StartTag),
                                           content |-> Productions(g.Element)]]
      BY <2>8, <2>9, <2>11
    <3>2. pr(h) = [start |-> << p >> \o Productions(g.StartTag),
                   content |-> Productions(g.Element)]
      BY <2>5, <2>11
    <3>3. Doc!Learn(e) = [L EXCEPT ![b] = pr(h)]
      BY <3>1, <3>2
    <3> QED BY <2>10, <3>3
  <2>12. CASE ~ isStart
    <3>1. Doc!Learn(e) = [L EXCEPT ![b] = [start |-> Productions(g.StartTag),
                                           content |-> << p >> \o Productions(g.Element)]]
      BY <2>8, <2>9, <2>12
    <3>2. pr(h) = [start |-> Productions(g.StartTag),
                   content |-> << p >> \o Productions(g.Element)]
      BY <2>5, <2>12
    <3>3. Doc!Learn(e) = [L EXCEPT ![b] = pr(h)]
      BY <3>1, <3>2
    <3> QED BY <2>10, <3>3
  <2> QED BY <2>11, <2>12
<1> QED BY <1>1, <1>2

(* An event that teaches nothing leaves the learned productions alone. *)
LEMMA NothingLearned ==
  ASSUME NEW e, ~ Learns(e), Grammars' = Grammars
  PROVE  docLearned' = Doc!Learn(e)
BY LearnedIs DEF Doc!Learn, Learns

(* The document learns a start tag where the decoder does, in the          *)
(* parent's grammar;                                                       *)
LEMMA PushesLearned ==
  ASSUME IInv, loop = "running", NEW e \in Doc!Events, Pushes(e)
  PROVE  docLearned' = Doc!Learn(e)
<1> DEFINE ev == Stored("SEQName", e.name)  gs == loadGrammar(e.name)
<1>1. e.term = "SE" /\ Taught(gs, e, ev)
  BY DEF Pushes
<1>2. e.name \in QName
  BY <1>1, EventIs
<1>3. Teaches(e, ev)
  BY PushesTeaches
<1>4. LearnsAs(e, ev)
  BY <1>1, <1>2 DEF LearnsAs, Stored, Stores, Production, Kind, NewProduction, Doc!Prod
<1>5. /\ GsOK(gs) /\ DOMAIN Grammars \subseteq DOMAIN gs
      /\ \A x \in DOMAIN Grammars : gs[x] = Grammars[x]
      /\ LearnedOf(gs) = docLearned
  BY <1>2, loadGrammarOK, loadGrammarLearned
<1> HIDE DEF gs, ev
<1> QED BY <1>1, <1>3, <1>4, <1>5, TaughtLearned

(* the events that make no grammar are learned in the element's own: *)
LEMMA ElementLearned ==
  ASSUME IInv, NEW e, NEW ev, Teaches(e, ev), LearnsAs(e, ev), Taught(Grammars, e, ev)
  PROVE  docLearned' = Doc!Learn(e)
<1>1. GsOK(Grammars) /\ LearnedOf(Grammars) = docLearned
  BY GrammarsOK, LearnedIs
<1> QED BY <1>1, TaughtLearned

(* an end tag, *)
LEMMA PopsLearned ==
  ASSUME IInv, loop = "running", NEW e \in Doc!Events, Pops(e)
  PROVE  docLearned' = Doc!Learn(e)
<1> DEFINE ev == Stored("EE", Back.name)
<1>1. e.term = "EE" /\ Current \in Inside /\ Taught(Grammars, e, ev)
  BY DEF Pops
<1>2. Back.name \in QName
  BY <1>1, InsideIs, TopOfStack
<1>3. Teaches(e, ev)
  BY PopsTeaches
<1>4. LearnsAs(e, ev)
  BY <1>1, <1>2 DEF LearnsAs, Stored, Stores, Production, Kind, NewProduction, Doc!Prod
<1> QED BY <1>1, <1>3, <1>4, ElementLearned

(* an attribute *)
LEMMA AttributeLearned ==
  ASSUME IInv, loop = "running", NEW e \in Doc!Events, Attribute(e)
  PROVE  docLearned' = Doc!Learn(e)
<1> DEFINE ev == Stored("ATQName", e.name)
<1>1. e.term = "AT" /\ Taught(Grammars, e, ev)
  BY DEF Attribute
<1>2. e.name \in QName
  BY <1>1, EventIs
<1>3. Teaches(e, ev)
  BY AttributeTeaches
<1>4. LearnsAs(e, ev)
  BY <1>1, <1>2 DEF LearnsAs, Stored, Stores, Production, Kind, NewProduction, Doc!Prod
<1> QED BY <1>1, <1>3, <1>4, ElementLearned

(* and text. *)
LEMMA TextLearned ==
  ASSUME IInv, loop = "running", NEW e \in Doc!Events, Text(e)
  PROVE  docLearned' = Doc!Learn(e)
<1> DEFINE ev == Stored("CHExtern", None)
<1>1. e.term = "CH" /\ Taught(Grammars, e, ev)
  BY DEF Text
<1>2. Teaches(e, ev)
  BY TextTeaches
<1>3. LearnsAs(e, ev)
  BY <1>1 DEF LearnsAs, Stored, Stores, Production, Kind, NewProduction, Doc!Prod
<1> QED BY <1>1, <1>2, <1>3, ElementLearned

(* A call of decode() that returns an event is that event of the           *)
(* document.                                                               *)
LEMMA EventRefined ==
  ASSUME IInv, NEW e \in Doc!Events, NEW s \in Seq(Nat), Sends(e, s), Reported(e, s),
         NoEffect(e) \/ Starts(e) \/ Quits(e) \/ Pushes(e) \/ Pops(e)
           \/ Attribute(e) \/ Text(e)
  PROVE  Doc!Event(e)
<1>1. loop = "running" /\ Preserve' = Preserve
  BY DEF Sends
<1>2. docLast' = [term |-> e.term, name |-> e.name, code |-> Doc!Code(Doc!Levels, e)]
  BY LastRefined
<1>3. Follows(e)
  BY <1>1, NoEffectFollows, StartsFollows, QuitsFollows, PushesFollows, PopsFollows,
     AttributeFollows, TextFollows
<1>4. docLearned' = Doc!Learn(e)
  <2>1. CASE NoEffect(e) \/ Starts(e) \/ Quits(e)
    <3>1. ~ Learns(e) /\ Grammars' = Grammars
      BY <2>1 DEF NoEffect, Same, Starts, Quits
    <3> QED BY <3>1, NothingLearned
  <2> QED BY <1>1, <2>1, PushesLearned, PopsLearned, AttributeLearned, TextLearned
<1> QED BY <1>1, <1>2, <1>3, <1>4 DEF Doc!Event, Follows

(* A call that cannot read the content of its event ends the document      *)
(* there.                                                                  *)
LEMMA UnreadRefined ==
  ASSUME IInv, NEW e, NEW s, Sends(e, s), Unread
  PROVE  Doc!Abort
<1>1. /\ loop = "running" /\ Preserve' = Preserve /\ loop' = "failed"
      /\ out'.term = "Null" /\ Current' = Current /\ GStack' = GStack
      /\ Grammars' = Grammars
  BY DEF Sends, Unread, Same
<1>2. docPhase # "Ended"
  <2>1. Current # "Ended"
    BY DEF IInv, TypeOK, Grammar
  <2> QED BY <1>1, <2>1, PhaseIs
<1>3. docPhase' = "Ended"
  BY <1>1, PhaseNext
<1>4. docLast' = [term |-> "none", name |-> None, code |-> << >>]
  BY <1>1 DEF docLast
<1>5. docStack' = docStack /\ docLearned' = docLearned
  BY <1>1, SameStack, LearnedIs
<1> QED BY <1>1, <1>2, <1>3, <1>4, <1>5 DEF Doc!Abort

(* Every call of decode() is a step of the document. *)
LEMMA StepRefined ==
  ASSUME IInv, OrdinaryContent, [Next]_schemaVars
  PROVE  [Doc!Next]_(Doc!docVars)
<1>1. CASE UNCHANGED schemaVars
  <2>1. /\ Preserve' = Preserve /\ Current' = Current /\ GStack' = GStack
        /\ Grammars' = Grammars /\ loop' = loop /\ sent' = sent /\ out' = out
    BY <1>1 DEF schemaVars
  <2>2. docPhase' = docPhase
    BY <2>1 DEF docPhase
  <2>3. docStack' = docStack /\ docLearned' = docLearned
    BY <2>1, SameStack, LearnedIs
  <2>4. docLast' = docLast
    BY <2>1 DEF docLast
  <2> QED BY <2>1, <2>2, <2>3, <2>4 DEF Doc!docVars
<1>2. CASE Next
  <2>1. PICK e \in Doc!Events, s \in Seq(Nat) : Sends(e, s) /\ Effect(e, s)
    BY <1>2, StepEffect
  <2>2. CASE Unread
    BY <2>1, <2>2, UnreadRefined DEF Doc!Next
  <2>3. CASE ~ Unread
    <3>1. Doc!Event(e)
      BY <2>1, <2>3, EventRefined DEF Effect
    <3> QED BY <3>1 DEF Doc!Next
  <2> QED BY <2>2, <2>3
<1> QED BY <1>1, <1>2

(* The decoder starts where the document starts. *)
LEMMA InitRefined == Init => Doc!Init
<1> SUFFICES ASSUME Init PROVE Doc!Init
  OBVIOUS
<1>1. /\ Preserve \in OptionSets /\ Current = "Document" /\ GStack = << >>
      /\ Grammars = [q \in {} |-> NewGrammar] /\ loop = "running"
      /\ out.term = "none" /\ out.name = None /\ out.used = 0
  BY DEF Init
<1>2. docPhase = "Document"
  BY <1>1 DEF docPhase
<1>3. docStack = << >>
  BY <1>1 DEF docStack
<1>4. docLearned = [q \in QName |-> [start |-> << >>, content |-> << >>]]
  <2>1. DOMAIN Grammars = {}
    BY <1>1
  <2> QED BY <2>1 DEF docLearned
<1>5. docLast = [term |-> "none", name |-> None, code |-> << >>]
  <2>1. [i \in 1 .. out.used |-> BitAt(sent.code, i)] = << >>
    BY <1>1
  <2> QED BY <1>1, <2>1 DEF docLast, Kind
<1> QED BY <1>1, <1>2, <1>3, <1>4, <1>5 DEF Doc!Init

(* The built-in schema implements the grammar the table of                 *)
(* BuiltinSchema.cpp documents, learned productions included: every run    *)
(* of decode() over the codes of a document is that document, event by     *)
(* event, up to the end or to content that cannot be read.                 *)
THEOREM SchemaImplements ==
  ASSUME OrdinaryContent
  PROVE  Spec => ImplementsGrammar
<1>1. Spec => []IInv
  BY SchemaInvariant
<1>2. IInv /\ [Next]_schemaVars => [Doc!Next]_(Doc!docVars)
  BY StepRefined
<1> QED BY <1>1, <1>2, InitRefined, PTL DEF Spec, ImplementsGrammar, Doc!Spec
=============================================================================
