--------------------------- MODULE LRUCacheProofs ---------------------------
(***************************************************************************)
(* What get() returns for a cache of any capacity; from it, that the array *)
(* never overflows, never holds a key twice, holds the keys used last in   *)
(* the order of their use, and that no value moves to another key.         *)
(***************************************************************************)
EXTENDS LRUCache, SequenceTheorems, TLAPS

(* A function on 1 .. n is a sequence of length n. *)
LEMMA FunctionIsSeq ==
  ASSUME NEW S, NEW n \in Nat, NEW f \in [1 .. n -> S]
  PROVE  f \in Seq(S) /\ Len(f) = n
  BY SeqDef, LenProperties

(* The search finds an entry of the key, when there is one. *)
LEMMA PositionFound ==
  ASSUME NEW s \in Seq(Entry), NEW k \in Key, HasKey(s, k),
         \A i, j \in 1 .. Len(s) : s[i].key = s[j].key => i = j
  PROVE  Position(s, k) \in 1 .. Len(s) /\ s[Position(s, k)].key = k
<1>1. PICK i \in 1 .. Len(s) : s[i].key = k
  BY DEF HasKey
<1>2. \A j \in i + 1 .. Len(s) : s[j].key # k
  BY <1>1, LenProperties
<1>3. QED
  BY <1>1, <1>2 DEF Position

(* A shift moves entries, it does not change them. *)
LEMMA ShiftProperties ==
  ASSUME NEW s \in Seq(Entry), NEW ix \in 1 .. Len(s), NEW e \in Entry
  PROVE  LET r == [ShiftFrom(s, ix) EXCEPT ![Len(s)] = e]
         IN /\ r \in Seq(Entry)
            /\ Len(r) = Len(s)
            /\ r[Len(s)] = e
            /\ \A i \in 1 .. Len(s) - 1 :
                 r[i] = IF ix <= i THEN s[i + 1] ELSE s[i]
<1> DEFINE t == ShiftFrom(s, ix)
<1>1. Len(s) \in Nat /\ s \in [1 .. Len(s) -> Entry]
  BY LenProperties
<1>2. t \in [1 .. Len(s) -> Entry]
  BY <1>1 DEF ShiftFrom
<1>3. t \in Seq(Entry) /\ Len(t) = Len(s)
  BY <1>1, <1>2, FunctionIsSeq
<1>4. \A i \in 1 .. Len(s) - 1 : t[i] = IF ix <= i THEN s[i + 1] ELSE s[i]
  BY <1>1 DEF ShiftFrom
<1>5. Len(s) \in 1 .. Len(t)
  BY <1>1, <1>3
<1> HIDE DEF t
<1>6. QED
  BY <1>1, <1>3, <1>4, <1>5, ExceptSeq DEF t

(* get(k): the last entry is that of k, new or found; the others are the   *)
(* old entries of other keys; keys stay distinct and the capacity holds    *)
(* (SmallLRUCache::get).                                                   *)
THEOREM GetProperties ==
  ASSUME NEW s \in Seq(Entry), Len(s) <= N, NEW k \in Key,
         \A i, j \in 1 .. Len(s) : s[i].key = s[j].key => i = j
  PROVE  LET g == Get(s, k)
         IN /\ g \in Seq(Entry)
            /\ Len(g) \in 1 .. N
            /\ \/ g[Len(g)] = NewElt(k)
               \/ \E j \in 1 .. Len(s) : g[Len(g)] = s[j] /\ s[j].key = k
            /\ \A i \in 1 .. Len(g) - 1 :
                 \E j \in 1 .. Len(s) : g[i] = s[j] /\ s[j].key # k
            /\ \A i, j \in 1 .. Len(g) : g[i].key = g[j].key => i = j
<1> DEFINE g == Get(s, k)
<1>1. Len(s) \in Nat /\ s \in [1 .. Len(s) -> Entry] /\ N \in Nat \ {0}
  BY LenProperties, LRUAssumption
<1>2. NewElt(k) \in Entry /\ NewElt(k).key = k
  BY DEF NewElt, Entry
<1>3. CASE HasKey(s, k)
  <2> DEFINE p == Position(s, k)
  <2>1. p \in 1 .. Len(s) /\ s[p].key = k
    BY <1>3, PositionFound
  <2>2. s[p] \in Entry
    BY <2>1, <1>1
  <2>3. g = [ShiftFrom(s, p) EXCEPT ![Len(s)] = s[p]]
    BY <1>3 DEF Get
  <2> HIDE DEF p, g
  <2>4. /\ g \in Seq(Entry) /\ Len(g) = Len(s) /\ g[Len(s)] = s[p]
        /\ \A i \in 1 .. Len(s) - 1 : g[i] = IF p <= i THEN s[i + 1] ELSE s[i]
    BY <2>1, <2>2, <2>3, ShiftProperties
  <2>5. \A i \in 1 .. Len(s) - 1 :
          \E j \in 1 .. Len(s) : g[i] = s[j] /\ s[j].key # k
    BY <1>1, <2>1, <2>4, SMTT(20)
  <2>6. \A i, j \in 1 .. Len(g) : g[i].key = g[j].key => i = j
    BY <1>1, <2>1, <2>4
  <2>7. QED
    BY <1>1, <2>1, <2>4, <2>5, <2>6 DEF g
<1>4. CASE ~HasKey(s, k) /\ Len(s) = N
  <2>1. g = [ShiftFrom(s, 1) EXCEPT ![Len(s)] = NewElt(k)]
    BY <1>4 DEF Get
  <2> HIDE DEF g
  <2>2. /\ g \in Seq(Entry) /\ Len(g) = Len(s) /\ g[Len(s)] = NewElt(k)
        /\ \A i \in 1 .. Len(s) - 1 : g[i] = s[i + 1]
    BY <1>1, <1>2, <1>4, <2>1, ShiftProperties
  <2>3. \A j \in 1 .. Len(s) : s[j].key # k
    BY <1>4 DEF HasKey
  <2>4. \A i \in 1 .. Len(s) - 1 :
          \E j \in 1 .. Len(s) : g[i] = s[j] /\ s[j].key # k
    BY <1>1, <2>2, <2>3
  <2>5. \A i, j \in 1 .. Len(g) : g[i].key = g[j].key => i = j
    BY <1>1, <1>2, <2>2, <2>3
  <2>6. QED
    BY <1>1, <1>4, <2>2, <2>4, <2>5 DEF g
<1>5. CASE ~HasKey(s, k) /\ Len(s) # N
  <2>1. g = Append(s, NewElt(k))
    BY <1>5 DEF Get
  <2> HIDE DEF g
  <2>2. /\ g \in Seq(Entry) /\ Len(g) = Len(s) + 1 /\ g[Len(s) + 1] = NewElt(k)
        /\ \A i \in 1 .. Len(s) : g[i] = s[i]
    BY <1>1, <1>2, <2>1, AppendProperties
  <2>3. \A j \in 1 .. Len(s) : s[j].key # k
    BY <1>5 DEF HasKey
  <2>4. \A i, j \in 1 .. Len(g) : g[i].key = g[j].key => i = j
    BY <1>1, <1>2, <2>2, <2>3
  <2> DEFINE n == Len(s)
  <2>5. Len(g) \in 1 .. N /\ Len(g) - 1 = Len(s)
    <3>1. n \in Nat /\ N \in Nat /\ n <= N /\ n # N /\ Len(g) = n + 1
      BY <1>1, <1>5, <2>2
    <3> HIDE DEF n
    <3>2. n + 1 \in 1 .. N /\ (n + 1) - 1 = n
      BY <3>1
    <3>3. QED
      BY <3>1, <3>2 DEF n
  <2>6. \A i \in 1 .. Len(g) - 1 :
          \E j \in 1 .. Len(s) : g[i] = s[j] /\ s[j].key # k
    BY <1>1, <2>2, <2>3, <2>5
  <2>7. g[Len(g)] = NewElt(k)
    BY <2>2
  <2>8. QED
    BY <2>2, <2>4, <2>5, <2>6, <2>7 DEF g
<1>6. QED
  BY <1>3, <1>4, <1>5

LRUInv == LRUTypeOK /\ KeysDistinct

(* The array of a cache never overflows and holds no key twice, whatever   *)
(* the keys, the values and the capacity (SmallLRUCache::get).             *)
THEOREM LRUCacheCorrect == CacheSpec => []LRUInv
<1>1. CacheInit => LRUInv
  BY LRUAssumption, EmptySeq DEF CacheInit, LRUInv, LRUTypeOK, KeysDistinct
<1>2. LRUInv /\ [CacheNext]_lruVars => LRUInv'
  <2> SUFFICES ASSUME LRUInv, [CacheNext]_lruVars PROVE LRUInv'
    OBVIOUS
  <2>1. ASSUME NEW k \in Key, Lookup(k) PROVE LRUInv'
    <3>1. elts' = Get(elts, k)
      BY <2>1 DEF Lookup
    <3>2. QED
      BY <3>1, GetProperties, LRUAssumption DEF LRUInv, LRUTypeOK, KeysDistinct
  <2>2. ASSUME NEW k \in Key, NEW v \in Value, Assign(k, v) PROVE LRUInv'
    <3> DEFINE g == Get(elts, k)
    <3>1. elts' = [g EXCEPT ![Len(g)].value = v]
      BY <2>2 DEF Assign
    <3>2. /\ g \in Seq(Entry) /\ Len(g) \in 1 .. N
          /\ \A i, j \in 1 .. Len(g) : g[i].key = g[j].key => i = j
      BY GetProperties DEF LRUInv, LRUTypeOK, KeysDistinct
    <3> HIDE DEF g
    <3>3. g \in [1 .. Len(g) -> Entry] /\ Len(g) \in Nat
      BY <3>2, LenProperties
    <3> DEFINE e == [g[Len(g)] EXCEPT !.value = v]
    <3>4. e \in Entry /\ e.key = g[Len(g)].key
      BY <3>2, <3>3 DEF Entry
    <3>5. elts' = [g EXCEPT ![Len(g)] = e]
      BY <3>1
    <3> HIDE DEF e
    <3>6. /\ elts' \in Seq(Entry) /\ Len(elts') = Len(g)
          /\ \A i \in 1 .. Len(g) : elts'[i] = IF i = Len(g) THEN e ELSE g[i]
      BY <3>2, <3>4, <3>5, ExceptSeq
    <3>7. QED
      BY <3>2, <3>4, <3>6, LRUAssumption DEF LRUInv, LRUTypeOK, KeysDistinct
  <2>3. CASE UNCHANGED lruVars
    BY <2>3 DEF lruVars, LRUInv, LRUTypeOK, KeysDistinct
  <2>4. QED
    BY <2>1, <2>2, <2>3 DEF CacheNext
<1>3. QED
  BY <1>1, <1>2, PTL DEF CacheSpec

(* No key has two entries, of which one would be stale (get).              *)
THEOREM NoKeyTwice == CacheSpec => []KeysDistinct
<1>1. LRUInv => KeysDistinct
  BY DEF LRUInv
<1>2. QED
  BY <1>1, LRUCacheCorrect, PTL

(***************************************************************************)
(* Order                                                                   *)
(***************************************************************************)

(* get(k) removes one entry, if any, and puts that of k behind the others: *)
(* the one of k, or the first of a full array.                             *)
LEMMA GetRemoves ==
  ASSUME NEW s \in Seq(Entry), Len(s) <= N, NEW k \in Key,
         \A i, j \in 1 .. Len(s) : s[i].key = s[j].key => i = j
  PROVE  LET g == Get(s, k)
         IN \E p \in 1 .. Len(s) + 1 :
              /\ g[Len(g)].key = k
              /\ \A i \in 1 .. Len(g) - 1 : g[i] = IF p <= i THEN s[i + 1] ELSE s[i]
              /\ IF p = Len(s) + 1
                 THEN Len(g) = Len(s) + 1 /\ Len(s) # N
                 ELSE Len(g) = Len(s) /\ (s[p].key = k \/ (p = 1 /\ Len(s) = N))
<1> DEFINE g == Get(s, k)
           n == Len(s)
           Removed(p) ==
             /\ g[Len(g)].key = k
             /\ \A i \in 1 .. Len(g) - 1 : g[i] = IF p <= i THEN s[i + 1] ELSE s[i]
             /\ IF p = n + 1
                THEN Len(g) = n + 1 /\ n # N
                ELSE Len(g) = n /\ (s[p].key = k \/ (p = 1 /\ n = N))
<1>1. n \in Nat /\ N \in Nat \ {0}
  BY LenProperties, LRUAssumption
<1>2. NewElt(k) \in Entry /\ NewElt(k).key = k
  BY DEF NewElt, Entry
<1>3. CASE HasKey(s, k)
  <2> DEFINE p == Position(s, k)
  <2>1. p \in 1 .. n /\ s[p].key = k
    BY <1>3, PositionFound
  <2>2. s[p] \in Entry
    BY <2>1, ElementOfSeq
  <2>3. g = [ShiftFrom(s, p) EXCEPT ![Len(s)] = s[p]]
    BY <1>3 DEF Get
  <2> HIDE DEF p, g
  <2>4. /\ Len(g) = n /\ g[n] = s[p]
        /\ \A i \in 1 .. n - 1 : g[i] = IF p <= i THEN s[i + 1] ELSE s[i]
    BY <2>1, <2>2, <2>3, ShiftProperties
  <2> HIDE DEF n
  <2>5. p \in 1 .. n + 1 /\ p # n + 1
    BY <1>1, <2>1
  <2>6. Removed(p)
    BY <2>1, <2>4, <2>5
  <2>7. QED
    BY <2>5, <2>6 DEF n, g
<1>4. CASE ~HasKey(s, k) /\ n = N
  <2>1. g = [ShiftFrom(s, 1) EXCEPT ![Len(s)] = NewElt(k)]
    BY <1>4 DEF Get
  <2>2. 1 \in 1 .. n
    BY <1>1, <1>4
  <2> HIDE DEF g
  <2>3. /\ Len(g) = n /\ g[n] = NewElt(k)
        /\ \A i \in 1 .. n - 1 : g[i] = IF 1 <= i THEN s[i + 1] ELSE s[i]
    BY <1>2, <2>1, <2>2, ShiftProperties
  <2> HIDE DEF n
  <2>4. 1 \in 1 .. n + 1 /\ 1 # n + 1
    BY <1>1, <2>2
  <2>5. Removed(1)
    BY <1>2, <1>4, <2>3, <2>4
  <2>6. QED
    BY <2>4, <2>5 DEF n, g
<1>5. CASE ~HasKey(s, k) /\ n # N
  <2>1. g = Append(s, NewElt(k))
    BY <1>5 DEF Get
  <2> HIDE DEF g
  <2>2. /\ Len(g) = n + 1 /\ g[n + 1] = NewElt(k)
        /\ \A i \in 1 .. n : g[i] = s[i]
    BY <1>2, <2>1, AppendProperties
  <2> HIDE DEF n
  <2>3. n + 1 \in 1 .. n + 1 /\ (n + 1) - 1 = n
    BY <1>1
  <2>4. \A i \in 1 .. Len(g) - 1 : g[i] = IF n + 1 <= i THEN s[i + 1] ELSE s[i]
    BY <1>1, <2>2, <2>3
  <2>5. Removed(n + 1)
    BY <1>2, <1>5, <2>2, <2>4
  <2>6. QED
    BY <2>3, <2>5 DEF n, g
<1>6. QED
  BY <1>3, <1>4, <1>5

(* The array after a call: the entries of get(k), the last with whatever   *)
(* value was assigned.                                                     *)
Called(k) ==
  LET g == Get(elts, k)
  IN /\ Len(elts') = Len(g)
     /\ elts'[Len(g)].key = k
     /\ \A i \in 1 .. Len(g) - 1 : elts'[i] = g[i]

(* Lookup and Assign are calls of get(k) that change no other entry.       *)
LEMMA StepIsCall ==
  ASSUME LRUInv, CacheNext
  PROVE  \E k \in Key : Called(k) /\ Use(k)
<1>1. PICK k \in Key : Lookup(k) \/ \E v \in Value : Assign(k, v)
  BY DEF CacheNext
<1> DEFINE g == Get(elts, k)
<1>2. /\ g \in Seq(Entry) /\ Len(g) \in Nat /\ Len(g) \in 1 .. Len(g)
      /\ g[Len(g)].key = k
  <2>1. g \in Seq(Entry) /\ Len(g) \in 1 .. N
    BY GetProperties DEF LRUInv, LRUTypeOK, KeysDistinct
  <2>2. g[Len(g)].key = k
    BY GetRemoves DEF LRUInv, LRUTypeOK, KeysDistinct
  <2> HIDE DEF g
  <2>3. QED
    BY <2>1, <2>2, LRUAssumption
<1>3. CASE Lookup(k)
  BY <1>2, <1>3 DEF Lookup, Called
<1>4. ASSUME NEW v \in Value, Assign(k, v) PROVE Called(k) /\ Use(k)
  <2> DEFINE e == [g[Len(g)] EXCEPT !.value = v]
  <2>1. elts' = [g EXCEPT ![Len(g)] = e] /\ Use(k)
    BY <1>4 DEF Assign
  <2> HIDE DEF g
  <2>2. g[Len(g)] \in Entry
    BY <1>2, ElementOfSeq
  <2>3. e \in Entry /\ e.key = k
    BY <1>2, <2>2 DEF Entry
  <2> HIDE DEF e
  <2>4. /\ Len(elts') = Len(g)
        /\ \A i \in 1 .. Len(g) : elts'[i] = IF i = Len(g) THEN e ELSE g[i]
    BY <1>2, <2>1, <2>3, ExceptSeq
  <2>5. \A i \in 1 .. Len(g) - 1 : elts'[i] = g[i]
    BY <1>2, <2>4
  <2>6. QED
    BY <1>2, <2>1, <2>3, <2>4, <2>5 DEF Called, g
<1>5. QED
  BY <1>1, <1>3, <1>4 DEF Lookup

(* The order after a step. *)
OlderNow(a, b) == << a, b >> \in recency' /\ << b, a >> \notin recency'

(* What a use of k does to the order: k is the youngest, and the order of  *)
(* the other keys stays.                                                   *)
LEMMA UseOrders ==
  ASSUME recency \in SUBSET (Key \X Key), NEW k \in Key, Use(k)
  PROVE  /\ recency' \in SUBSET (Key \X Key)
         /\ Used' = Used \union {k}
         /\ \A a, b \in Key : a # k /\ b # k => (OlderNow(a, b) <=> Older(a, b))
         /\ \A a \in Used : a # k => OlderNow(a, k)
<1>1. \A a, b \in Key :
        << a, b >> \in recency' <=>
          \/ << a, b >> \in recency /\ a # k
          \/ a \in Used \union {k} /\ b = k
  BY DEF Use
<1>2. recency' \in SUBSET (Key \X Key)
  BY DEF Use, Used
<1>3. Used' = Used \union {k}
  BY <1>1 DEF Used
<1>4. \A a, b \in Key : a # k /\ b # k => (OlderNow(a, b) <=> Older(a, b))
  BY <1>1 DEF Older, OlderNow
<1>5. \A a \in Used : a # k => OlderNow(a, k)
  BY <1>1 DEF OlderNow, Used
<1>6. QED
  BY <1>2, <1>3, <1>4, <1>5

OrderInv == LRUInv /\ recency \in SUBSET (Key \X Key) /\ HoldsMostRecent

(* A call keeps the most recent keys in the order of their use.            *)
LEMMA OrderStep ==
  ASSUME OrderInv, LRUInv', NEW k \in Key, Called(k), Use(k)
  PROVE  OrderInv'
<1> DEFINE g == Get(elts, k)
           n == Len(elts)
           m == Len(g)
<1>1. PICK p \in 1 .. n + 1 :
        /\ \A i \in 1 .. m - 1 : g[i] = IF p <= i THEN elts[i + 1] ELSE elts[i]
        /\ IF p = n + 1
           THEN m = n + 1 /\ n # N
           ELSE m = n /\ (elts[p].key = k \/ (p = 1 /\ n = N))
  BY GetRemoves DEF OrderInv, LRUInv, LRUTypeOK, KeysDistinct
<1>2. /\ n \in Nat /\ n <= N /\ N \in Nat \ {0} /\ m \in 1 .. N
      /\ Len(elts') = m
      /\ \A i \in 1 .. n : elts[i].key \in Key
      /\ \A i \in 1 .. m - 1 : g[i].key # k
  <2>1. n \in Nat /\ n <= N /\ N \in Nat \ {0} /\ elts \in Seq(Entry)
    BY LenProperties, LRUAssumption DEF OrderInv, LRUInv, LRUTypeOK
  <2>2. \A i \in 1 .. n : elts[i].key \in Key
    <3>1. \A i \in 1 .. n : elts[i] \in Entry
      BY <2>1, ElementOfSeq
    <3>2. QED
      BY <3>1 DEF Entry
  <2>3. /\ m \in 1 .. N
        /\ \A i \in 1 .. m - 1 : \E j \in 1 .. n : g[i] = elts[j] /\ elts[j].key # k
    BY GetProperties DEF OrderInv, LRUInv, LRUTypeOK, KeysDistinct
  <2>4. QED
    BY <2>1, <2>2, <2>3 DEF Called
<1> DEFINE from(i) == IF p <= i THEN i + 1 ELSE i
<1>3. \A i \in 1 .. m - 1 : elts'[i] = g[i] /\ g[i] = elts[from(i)] /\ from(i) \in 1 .. n
  BY <1>1, <1>2 DEF Called
<1>4. elts'[m].key = k
  BY DEF Called
<1> HIDE DEF g, n, m
<1>5. /\ recency' \in SUBSET (Key \X Key)
      /\ Used' = Used \union {k}
      /\ \A a, b \in Key : a # k /\ b # k => (OlderNow(a, b) <=> Older(a, b))
      /\ \A a \in Used : a # k => OlderNow(a, k)
  BY UseOrders DEF OrderInv
<1>6. /\ \A i \in 1 .. n : elts[i].key \in Used
      /\ \A i, j \in 1 .. n : i < j => Older(elts[i].key, elts[j].key)
      /\ \A x \in Used : \/ \E i \in 1 .. n : elts[i].key = x
                         \/ n = N /\ \A i \in 1 .. N : Older(x, elts[i].key)
  BY DEF OrderInv, HoldsMostRecent, n
(* the entries in front of the last *)
<1>7. \A i \in 1 .. m - 1 :
        /\ elts'[i].key \in Used /\ elts'[i].key # k /\ elts'[i].key \in Key
        /\ elts'[i].key = elts[from(i)].key
  BY <1>2, <1>3, <1>6
<1>8. \A i \in 1 .. m : elts'[i].key \in Used'
  BY <1>2, <1>4, <1>5, <1>7
<1>9. \A i, j \in 1 .. m : i < j => OlderNow(elts'[i].key, elts'[j].key)
  <2> SUFFICES ASSUME NEW i \in 1 .. m, NEW j \in 1 .. m, i < j
               PROVE  OlderNow(elts'[i].key, elts'[j].key)
    OBVIOUS
  <2>1. i \in 1 .. m - 1
    BY <1>2
  <2>2. CASE j = m
    BY <1>4, <1>5, <1>7, <2>1, <2>2
  <2>3. CASE j # m
    <3>1. j \in 1 .. m - 1 /\ from(i) < from(j)
      BY <1>2, <2>3
    <3>2. Older(elts[from(i)].key, elts[from(j)].key)
      BY <1>3, <1>6, <2>1, <3>1
    <3>3. QED
      BY <1>5, <1>7, <2>1, <3>1, <3>2
  <2>4. QED
    BY <2>2, <2>3
<1>10. ASSUME NEW x \in Used', x # k,
              \A i \in 1 .. m : elts'[i].key # x
       PROVE  m = N /\ \A i \in 1 .. N : OlderNow(x, elts'[i].key)
  <2>1. x \in Used /\ x \in Key
    BY <1>5, <1>10 DEF Used
  <2>2. m = N /\ \A i \in 1 .. m - 1 : Older(x, elts[from(i)].key)
    <3>1. CASE \E i \in 1 .. n : elts[i].key = x
      <4>1. PICK a \in 1 .. n : elts[a].key = x
        BY <3>1
      <4>2. a = p
        <5>1. CASE a < p
          <6>1. a \in 1 .. m - 1 /\ from(a) = a
            BY <1>1, <1>2, <5>1
          <6>2. elts'[a].key = elts[from(a)].key /\ a \in 1 .. m
            BY <1>2, <1>7, <6>1
          <6>3. QED
            BY <1>10, <4>1, <6>1, <6>2
        <5>2. CASE a > p
          <6>1. a - 1 \in 1 .. m - 1 /\ from(a - 1) = a
            BY <1>1, <1>2, <5>2
          <6>2. elts'[a - 1].key = elts[from(a - 1)].key /\ a - 1 \in 1 .. m
            BY <1>2, <1>7, <6>1
          <6>3. QED
            BY <1>10, <4>1, <6>1, <6>2
        <5>3. QED
          BY <5>1, <5>2
      <4>3. p = 1 /\ n = N /\ m = N
        BY <1>1, <1>2, <1>10, <4>1, <4>2
      <4>4. \A i \in 1 .. m - 1 : a < from(i) /\ from(i) \in 1 .. n
        BY <1>3, <4>2, <4>3
      <4>5. QED
        BY <1>6, <4>1, <4>3, <4>4
    <3>2. CASE ~ \E i \in 1 .. n : elts[i].key = x
      <4>1. n = N /\ \A i \in 1 .. N : Older(x, elts[i].key)
        BY <1>6, <2>1, <3>2
      <4>2. QED
        BY <1>1, <1>2, <1>3, <4>1
    <3>3. QED
      BY <3>1, <3>2
  <2>3. \A i \in 1 .. m - 1 : OlderNow(x, elts'[i].key)
    BY <1>5, <1>7, <1>10, <2>1, <2>2
  <2>4. OlderNow(x, elts'[m].key)
    BY <1>4, <1>5, <1>10, <2>1
  <2>5. \A i \in 1 .. m : i = m \/ i \in 1 .. m - 1
    BY <1>2
  <2>6. QED
    BY <2>2, <2>3, <2>4, <2>5
<1>11. HoldsMostRecent'
  <2>1. m \in 1 .. m
    BY <1>2
  <2>2. QED
    BY <1>2, <1>4, <1>8, <1>9, <1>10, <2>1 DEF HoldsMostRecent, Older, OlderNow
<1>12. QED
  BY <1>5, <1>11 DEF OrderInv

(* The cache holds the N keys used last, in the order of their use, after  *)
(* any lookups (SmallLRUCache::get, shiftFrom).                            *)
THEOREM MostRecentHeld == CacheSpec => []HoldsMostRecent
<1>1. CacheInit => OrderInv
  <2> SUFFICES ASSUME CacheInit PROVE OrderInv
    OBVIOUS
  <2>1. elts = << >> /\ Len(elts) = 0 /\ recency = {}
    BY EmptySeq DEF CacheInit
  <2>2. Used = {}
    BY <2>1 DEF Used
  <2>3. QED
    BY <2>1, <2>2, EmptySeq, LRUAssumption
       DEF OrderInv, LRUInv, LRUTypeOK, KeysDistinct, HoldsMostRecent
<1>2. OrderInv /\ LRUInv' /\ [CacheNext]_lruVars => OrderInv'
  <2>1. ASSUME OrderInv, LRUInv', CacheNext PROVE OrderInv'
    BY <2>1, StepIsCall, OrderStep DEF OrderInv
  <2>2. ASSUME OrderInv, UNCHANGED lruVars PROVE OrderInv'
    BY <2>2 DEF lruVars, OrderInv, LRUInv, LRUTypeOK, KeysDistinct, HoldsMostRecent,
                Used, Older
  <2>3. QED
    BY <2>1, <2>2
<1>3. OrderInv => HoldsMostRecent
  BY DEF OrderInv
<1>4. QED
  BY <1>1, <1>2, <1>3, LRUCacheCorrect, PTL DEF CacheSpec

(* No lookup changes the value of another entry, wherever it moves to.     *)
THEOREM OthersKeepValues == CacheSpec => OnlyLastAssigned
<1> DEFINE Kept ==
      \A i \in 1 .. Len(elts), j \in 1 .. Len(elts') :
        (elts[i].key = elts'[j].key /\ j # Len(elts')) => elts[i].value = elts'[j].value
<1>1. LRUInv /\ [CacheNext]_lruVars => [Kept]_lruVars
  <2> SUFFICES ASSUME LRUInv, CacheNext PROVE Kept
    OBVIOUS
  <2> HIDE DEF Kept
  <2>1. PICK k \in Key : Called(k)
    BY StepIsCall
  <2> DEFINE g == Get(elts, k)
  <2>2. /\ Len(g) \in 1 .. N
        /\ \A i \in 1 .. Len(g) - 1 :
             \E j \in 1 .. Len(elts) : g[i] = elts[j] /\ elts[j].key # k
    BY GetProperties DEF LRUInv, LRUTypeOK, KeysDistinct
  <2>3. /\ Len(elts') = Len(g)
        /\ \A i \in 1 .. Len(g) - 1 : elts'[i] = g[i]
    BY <2>1 DEF Called
  <2> HIDE DEF g
  <2>4. \A j \in 1 .. Len(elts') : j # Len(elts') =>
          \E a \in 1 .. Len(elts) : elts'[j] = elts[a]
    BY <2>2, <2>3, LRUAssumption
  <2>5. QED
    BY <2>4 DEF LRUInv, KeysDistinct, Kept
<1>2. QED
  BY <1>1, LRUCacheCorrect, PTL DEF CacheSpec, OnlyLastAssigned
=============================================================================
