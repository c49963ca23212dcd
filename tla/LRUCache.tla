------------------------------ MODULE LRUCache ------------------------------
(***************************************************************************)
(* exi::SmallLRUCache<K, V, N> of include/core/Common/SmallLRUCache.hpp:   *)
(* an inline array whose most recently used entry is the last one.  The    *)
(* only operation is get(Key), which finds or creates an entry, makes it   *)
(* the last, and returns a reference to its value; the caller then assigns *)
(* through that reference (Assign).                                        *)
(*                                                                         *)
(* A sequence of entries models Elts[0 .. Size - 1].  recency is a history *)
(* variable: the pairs of used keys, the one used last in second place.    *)
(***************************************************************************)
EXTENDS Naturals, Sequences

CONSTANTS
  Key,       \* the keys
  Value,     \* what a caller stores through the returned reference
  NoValue,   \* V(): the value of a new entry
  N          \* the capacity

ASSUME LRUAssumption == N \in Nat \ {0} /\ NoValue \notin Value

VARIABLES
  elts,      \* the entries, most recently used last
  recency    \* history: the order of the keys by their last use

lruVars == << elts, recency >>

Entry == [key : Key, value : Value \union {NoValue}]

(* A variant of ShiftFrom that moves the keys and forgets the values.      *)
ShiftFromKeysOnly(s, ix) ==
  [i \in 1 .. Len(s) |->
     IF ix <= i /\ i < Len(s) THEN [s[i] EXCEPT !.key = s[i + 1].key] ELSE s[i]]

(* Moves every entry after position ix back by one.  The last one stays,   *)
(* to be overwritten by the caller.                                        *)
ShiftFrom(s, ix) ==
  [i \in 1 .. Len(s) |-> IF ix <= i /\ i < Len(s) THEN s[i + 1] ELSE s[i]]

NewElt(k) == [key |-> k, value |-> NoValue]

(* A variant of the search that stops before the oldest entry.             *)
HasKeySkipsOldest(s, k) == \E i \in 2 .. Len(s) : s[i].key = k

HasKey(s, k) == \E i \in 1 .. Len(s) : s[i].key = k

(* get() searches from the most recently used entry down. *)
Position(s, k) ==
  CHOOSE i \in 1 .. Len(s) :
    s[i].key = k /\ \A j \in i + 1 .. Len(s) : s[j].key # k

(* Variants of get(): a hit keeps its place; the full test is off by one.  *)
GetNoMove(s, k) ==
  IF HasKey(s, k) THEN s
  ELSE IF Len(s) = N
       THEN [ShiftFrom(s, 1) EXCEPT ![Len(s)] = NewElt(k)]
       ELSE Append(s, NewElt(k))
GetOffByOne(s, k) ==
  IF HasKey(s, k)
  THEN [ShiftFrom(s, Position(s, k)) EXCEPT ![Len(s)] = s[Position(s, k)]]
  ELSE IF Len(s) = N + 1
       THEN [ShiftFrom(s, 1) EXCEPT ![Len(s)] = NewElt(k)]
       ELSE Append(s, NewElt(k))

(* The entries after get(k); the reference it returns is to the last one. *)
Get(s, k) ==
  IF HasKey(s, k)
  THEN [ShiftFrom(s, Position(s, k)) EXCEPT ![Len(s)] = s[Position(s, k)]]
  ELSE IF Len(s) = N
       THEN [ShiftFrom(s, 1) EXCEPT ![Len(s)] = NewElt(k)]
       ELSE Append(s, NewElt(k))

(***************************************************************************)
(* The cache on its own.                                                   *)
(***************************************************************************)

Used == {k \in Key : << k, k >> \in recency}

Use(k) ==
  recency' = {p \in recency : p[1] # k} \union ((Used \union {k}) \X {k})

CacheInit == elts = << >> /\ recency = {}

(* A lookup that leaves the entry as get() returned it. *)
Lookup(k) == elts' = Get(elts, k) /\ Use(k)

(* A lookup followed by an assignment through the reference. *)
Assign(k, v) ==
  /\ LET s == Get(elts, k) IN elts' = [s EXCEPT ![Len(s)].value = v]
  /\ Use(k)

CacheNext == \E k \in Key : Lookup(k) \/ \E v \in Value : Assign(k, v)

CacheSpec == CacheInit /\ [][CacheNext]_lruVars

(***************************************************************************)
(* Properties                                                              *)
(***************************************************************************)

(* The array never holds more than N entries, each a (key, value) pair     *)
(* (include/core/Common/SmallLRUCache.hpp: get).                           *)
LRUTypeOK == elts \in Seq(Entry) /\ Len(elts) <= N

(* get() never leaves two entries for one key, so a later assignment       *)
(* cannot be shadowed by a stale entry.                                    *)
KeysDistinct ==
  \A i, j \in 1 .. Len(elts) : elts[i].key = elts[j].key => i = j

Older(j, k) == << j, k >> \in recency /\ << k, j >> \notin recency

(* The shifting on a hit and on an eviction keeps exactly the N most       *)
(* recently used keys, in the order of their last use.                     *)
HoldsMostRecent ==
  /\ \A i \in 1 .. Len(elts) : elts[i].key \in Used
  /\ \A i, j \in 1 .. Len(elts) : i < j => Older(elts[i].key, elts[j].key)
  /\ \A k \in Used :
       \/ \E i \in 1 .. Len(elts) : elts[i].key = k
       \/ Len(elts) = N /\ \A i \in 1 .. N : Older(k, elts[i].key)

(* No get(k) changes, drops or moves to another key the value of an entry  *)
(* that stays in the array: only the entry of the key looked up is         *)
(* assigned.                                                               *)
OnlyLastAssigned ==
  [][\A i \in 1 .. Len(elts), j \in 1 .. Len(elts') :
       (elts[i].key = elts'[j].key /\ j # Len(elts'))
         => elts[i].value = elts'[j].value]_lruVars
=============================================================================
