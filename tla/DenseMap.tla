------------------------------ MODULE DenseMap -----------------------------
(***************************************************************************)
(* exi::DenseMap of include/core/Common/DenseMap.hpp: open addressing with *)
(* quadratic probing, tombstones, and growth.  BuiltinSchema keeps its     *)
(* grammars in one.  A lookup takes one step for every bucket it probes,   *)
(* so that its end is a property and not an assumption.                    *)
(***************************************************************************)
EXTENDS Naturals, FiniteSets, Log2

CONSTANTS
  MapKey,       \* the keys, neither of the two markers
  MapValue,
  NoMapValue,   \* no value, also what a default constructed one is
  Hashes,       \* the hash functions
  MinBuckets,   \* the least size of a table (64 in the code)
  MaxBuckets    \* bounds the size of a table

ASSUME DenseMapAssumption ==
  /\ NoMapValue \notin MapValue
  /\ Hashes \subseteq [MapKey -> Nat]
  /\ {"empty", "tombstone"} \cap MapKey = {}
  /\ MinBuckets \in Nat \ {0, 1} /\ Pow2[CeilLog2(MinBuckets)] = MinBuckets
  /\ MaxBuckets \in Nat

VARIABLES
  hash,            \* the hash function in use
  Buckets,         \* the table: NumBuckets pairs of a key and a value
  NumEntries,
  NumTombstones,
  op,              \* the operation under way and its probe
  mapAnswer        \* of the last operation

mapVars == << hash, Buckets, NumEntries, NumTombstones, op, mapAnswer >>

EmptyKey == "empty"
TombstoneKey == "tombstone"
Bucket(k, v) == [key |-> k, value |-> v]
EmptyBucket == Bucket(EmptyKey, NoMapValue)

NumBucketsOf(table) == Cardinality(DOMAIN table)
NumBuckets == NumBucketsOf(Buckets)
EmptyTable(n) == [i \in 0 .. n - 1 |-> EmptyBucket]
IsEntry(b) == b.key \in MapKey

NoBucket == MaxBuckets
NoOp == [name |-> "none", key |-> EmptyKey, value |-> NoMapValue,
         bucket |-> 0, amt |-> 0, tombstone |-> NoBucket]

(***************************************************************************)
(* A whole probe of a table: the i-th bucket of the probe of k is the i-th *)
(* triangular number behind its first, and it ends at k or an empty one.   *)
(***************************************************************************)
ProbeAt(table, k, i) == (hash[k] + (i * (i + 1)) \div 2) % NumBucketsOf(table)

LastProbe(table, k) ==
  CHOOSE i \in 0 .. NumBucketsOf(table) - 1 :
    /\ table[ProbeAt(table, k, i)].key \in {k, EmptyKey}
    /\ \A j \in 0 .. i - 1 : table[ProbeAt(table, k, j)].key \notin {k, EmptyKey}

(* Where LookupBucketFor ends in a table without tombstones.               *)
BucketFor(table, k) == ProbeAt(table, k, LastProbe(table, k))

(***************************************************************************)
(* Growth.  moveFromOldBuckets inserts the entries one by one, and leaves  *)
(* the tombstones behind.                                                  *)
(***************************************************************************)
Moved(old, n) ==
  LET move[i \in 0 .. NumBucketsOf(old)] ==
        IF i = 0 THEN EmptyTable(n)
        ELSE IF IsEntry(old[i - 1])
             THEN [move[i - 1] EXCEPT ![BucketFor(move[i - 1], old[i - 1].key)] = old[i - 1]]
             ELSE move[i - 1]
  IN move[NumBucketsOf(old)]

(* The least power of two that is as large, or larger.                     *)
PowerOf2From(a) == Pow2[CeilLog2(a)]
NextPowerOf2(a) == PowerOf2From(a + 1)

(* At least MinBuckets; grow(0) wraps around and makes a table of these.   *)
GrownSize(atLeast) ==
  IF atLeast = 0 \/ NextPowerOf2(atLeast - 1) < MinBuckets THEN MinBuckets
  ELSE NextPowerOf2(atLeast - 1)

Grown(atLeast) == Moved(Buckets, GrownSize(atLeast))

(* A variant that counts entries only.                                     *)
TableForInsert_IgnoresTombstones ==
  IF (NumEntries + 1) * 4 >= NumBuckets * 3 THEN Grown(NumBuckets * 2) ELSE Buckets

(* The table an entry is about to go into: twice as large when three       *)
(* quarters would be full, swept when at most an eighth would stay empty.  *)
TableForInsert ==
  IF (NumEntries + 1) * 4 >= NumBuckets * 3 THEN Grown(NumBuckets * 2)
  ELSE IF NumBuckets - (NumEntries + 1 + NumTombstones) <= NumBuckets \div 8
       THEN Grown(NumBuckets)
  ELSE Buckets

(***************************************************************************)
(* The operations                                                          *)
(***************************************************************************)
Finds == {"lookup", "erase"}                   \* doFind
Inserts == {"try_emplace", "insert_or_assign"} \* LookupBucketFor; operator[] too

begin(name, k, v) ==
  /\ op.name = "none"
  /\ op' = [NoOp EXCEPT !.name = name, !.key = k, !.value = v,
                        !.bucket = IF NumBuckets = 0 THEN 0 ELSE hash[k] % NumBuckets,
                        !.amt = 1]
  /\ UNCHANGED << hash, Buckets, NumEntries, NumTombstones, mapAnswer >>

Probing == op.name # "none" /\ NumBuckets # 0
This == Buckets[op.bucket]

(* A collision or a tombstone: on to the next bucket of the probe.         *)
probeNext ==
  /\ Probing /\ This.key \notin {op.key, EmptyKey}
  /\ op' = [op EXCEPT !.bucket = (@ + op.amt) % NumBuckets,
                      !.amt = (@ + 1) % NumBuckets,
                      !.tombstone = IF This.key = TombstoneKey /\ @ = NoBucket
                                    THEN op.bucket ELSE @]
  /\ UNCHANGED << hash, Buckets, NumEntries, NumTombstones, mapAnswer >>

Done(answer) == mapAnswer' = answer /\ op' = NoOp /\ UNCHANGED hash

(* A variant of erase that empties the bucket.                             *)
found_Empties ==
  /\ Probing /\ This.key = op.key
  /\ Done(IF op.name = "insert_or_assign" THEN op.value ELSE This.value)
  /\ Buckets' = CASE op.name = "insert_or_assign" ->
                       [Buckets EXCEPT ![op.bucket].value = op.value]
                  [] op.name = "erase" -> [Buckets EXCEPT ![op.bucket] = EmptyBucket]
                  [] OTHER -> Buckets
  /\ NumEntries' = IF op.name = "erase" THEN NumEntries - 1 ELSE NumEntries
  /\ UNCHANGED NumTombstones

(* The key is there.                                                       *)
found ==
  /\ Probing /\ This.key = op.key
  /\ Done(IF op.name = "insert_or_assign" THEN op.value ELSE This.value)
  /\ Buckets' = CASE op.name = "insert_or_assign" ->
                       [Buckets EXCEPT ![op.bucket].value = op.value]
                  [] op.name = "erase" ->
                       [Buckets EXCEPT ![op.bucket] = Bucket(TombstoneKey, NoMapValue)]
                  [] OTHER -> Buckets
  /\ NumEntries' = IF op.name = "erase" THEN NumEntries - 1 ELSE NumEntries
  /\ NumTombstones' = IF op.name = "erase" THEN NumTombstones + 1 ELSE NumTombstones

ProbeEnded == op.name # "none" /\ (NumBuckets # 0 => This.key = EmptyKey)

notFound ==
  /\ ProbeEnded /\ op.name \in Finds
  /\ Done(NoMapValue)
  /\ UNCHANGED << Buckets, NumEntries, NumTombstones >>

(* A variant that forgets that it fills a tombstone.                       *)
insert_KeepsCount ==
  /\ ProbeEnded /\ op.name \in Inserts
  /\ LET table == TableForInsert
         grown == table # Buckets
         target == IF grown THEN BucketFor(table, op.key)
                   ELSE IF op.tombstone = NoBucket THEN op.bucket ELSE op.tombstone
     IN /\ Buckets' = [table EXCEPT ![target] = Bucket(op.key, op.value)]
        /\ NumTombstones' = IF grown THEN 0 ELSE NumTombstones
  /\ NumEntries' = NumEntries + 1
  /\ Done(op.value)

(* A variant that does not probe a table again after it was moved.         *)
insert_OldBucket ==
  /\ ProbeEnded /\ op.name \in Inserts
  /\ NumBucketsOf(TableForInsert) <= MaxBuckets
  /\ LET table == TableForInsert
         target == IF op.tombstone = NoBucket THEN op.bucket ELSE op.tombstone
     IN /\ Buckets' = [table EXCEPT ![target] = Bucket(op.key, op.value)]
        /\ NumTombstones' = IF table # Buckets THEN 0
                            ELSE IF table[target].key = EmptyKey THEN NumTombstones
                            ELSE NumTombstones - 1
  /\ NumEntries' = NumEntries + 1
  /\ Done(op.value)

(* InsertIntoBucket: the first tombstone of the probe or the empty bucket  *)
(* at its end; a table that was moved is probed again.                     *)
insert ==
  /\ ProbeEnded /\ op.name \in Inserts
  /\ NumBucketsOf(TableForInsert) <= MaxBuckets
  /\ LET table == TableForInsert
         grown == table # Buckets
         target == IF grown THEN BucketFor(table, op.key)
                   ELSE IF op.tombstone = NoBucket THEN op.bucket ELSE op.tombstone
     IN /\ Buckets' = [table EXCEPT ![target] = Bucket(op.key, op.value)]
        /\ NumTombstones' = IF grown THEN 0
                            ELSE IF table[target].key = EmptyKey THEN NumTombstones
                            ELSE NumTombstones - 1
  /\ NumEntries' = NumEntries + 1
  /\ Done(op.value)

(* shrink_and_clear makes room for as many entries as it counts buckets.   *)
ShrunkSize ==
  IF NumEntries = 0 THEN 0
  ELSE LET twice == 2 * PowerOf2From(NumEntries)
       IN IF twice < MinBuckets THEN MinBuckets ELSE twice

clear ==
  /\ op.name = "none" /\ NumEntries + NumTombstones # 0
  /\ LET n == IF NumEntries * 4 < NumBuckets /\ NumBuckets > MinBuckets
              THEN IF ShrunkSize \in {0, NumBuckets} THEN ShrunkSize
                   ELSE NextPowerOf2((ShrunkSize * 4) \div 3 + 1)
              ELSE NumBuckets
     IN Buckets' = EmptyTable(n)
  /\ NumEntries' = 0 /\ NumTombstones' = 0
  /\ UNCHANGED << hash, op, mapAnswer >>

MapInit ==
  /\ hash \in Hashes
  /\ Buckets = EmptyTable(0)
  /\ NumEntries = 0 /\ NumTombstones = 0
  /\ op = NoOp /\ mapAnswer = NoMapValue

(* The rest of an operation. *)
goOn == probeNext \/ found \/ notFound \/ insert

MapNext ==
  \/ \E k \in MapKey :
       \/ \E name \in Finds : begin(name, k, NoMapValue)
       \/ \E name \in Inserts, v \in MapValue : begin(name, k, v)
  \/ goOn
  \/ clear

MapSpec == MapInit /\ [][MapNext]_mapVars

(***************************************************************************)
(* Properties                                                              *)
(***************************************************************************)

(* The counters, which decide when the table grows, are the entries and    *)
(* tombstones there are, and the size is a power of two or none.           *)
CountsAreTrue ==
  /\ NumBuckets = 0 \/ PowerOf2From(NumBuckets) = NumBuckets
  /\ NumEntries = Cardinality({i \in DOMAIN Buckets : IsEntry(Buckets[i])})
  /\ NumTombstones = Cardinality({i \in DOMAIN Buckets : Buckets[i].key = TombstoneKey})
  /\ \A i \in DOMAIN Buckets : Buckets[i].value = NoMapValue <=> ~IsEntry(Buckets[i])

(* Every entry is where a probe for its key ends: no bucket in front of it *)
(* was ever emptied, and no key is there twice.                            *)
EntriesReachable ==
  \A i \in DOMAIN Buckets :
    IsEntry(Buckets[i]) => BucketFor(Buckets, Buckets[i].key) = i

(* A bucket always stays empty, and the probe of every key comes to it:    *)
(* "If the table completely filled with tombstones, no lookup would ever   *)
(* succeed, causing infinite loops in lookup."                             *)
OperationsEnd == (op.name # "none") ~> (op.name = "none")

(* The table is a map.                                                     *)
Contents ==
  [k \in MapKey |->
     IF \E i \in DOMAIN Buckets : Buckets[i].key = k
     THEN Buckets[CHOOSE i \in DOMAIN Buckets : Buckets[i].key = k].value ELSE NoMapValue]

Map == INSTANCE Dictionary WITH
  Key <- MapKey, Value <- MapValue, NoValue <- NoMapValue, map <- Contents, answer <- mapAnswer

ImplementsDictionary == Map!Spec
=============================================================================
