------------------------ MODULE StringCodecProofs --------------------------
(***************************************************************************)
(* Every string of a stream comes out as it went in, for streams of any    *)
(* length, any strings and any capacity of the table.                      *)
(*                                                                         *)
(* The encoder's partitions are the table's, read through its pointers     *)
(* (Mirrored): every item does to both the same step of StringPartitions.  *)
(* The counts the widths are computed from are right up to what            *)
(* createInitialEntries does to them (CountsOf), and no URI ever gets a    *)
(* second prefix (PrefixesKnown); so both ends agree on every width.       *)
(***************************************************************************)
EXTENDS StringCodec, Log2Proofs, SequenceTheorems

-----------------------------------------------------------------------------
(***************************************************************************)
(* Type correctness of the string table, agreement of its partitions and   *)
(* coherence of its cache, for every size of every partition, every cache  *)
(* capacity and every predefined content.                                  *)
(***************************************************************************)

LRUProofs == INSTANCE LRUCacheProofs WITH
  Key <- QName, Value <- Nat \ {NullPtr}, NoValue <- NullPtr,
  N <- CacheSize, elts <- LNCache, recency <- {}

CacheEntry == [key : QName, value : Nat]

(* GetProperties, for the instance of the cache the table uses. *)
LEMMA CacheGet ==
  ASSUME NEW c \in Seq(CacheEntry), Len(c) <= CacheSize, NEW q \in QName,
         \A i, j \in 1 .. Len(c) : c[i].key = c[j].key => i = j
  PROVE  LET g == LRU!Get(c, q)
         IN /\ g \in Seq(CacheEntry)
            /\ Len(g) \in 1 .. CacheSize
            /\ \/ g[Len(g)] = [key |-> q, value |-> NullPtr]
               \/ \E j \in 1 .. Len(c) : g[Len(g)] = c[j] /\ c[j].key = q
            /\ \A i \in 1 .. Len(g) - 1 :
                 \E j \in 1 .. Len(c) : g[i] = c[j] /\ c[j].key # q
            /\ \A i, j \in 1 .. Len(g) : g[i].key = g[j].key => i = j
<1>1. CacheSize \in Nat \ {0} /\ NullPtr \notin Nat \ {NullPtr}
  BY StringTableAssumption
<1>2. CacheEntry = LRUProofs!Entry
  <2>1. Nat = (Nat \ {NullPtr}) \union {NullPtr}
    BY DEF NullPtr
  <2>2. QED
    BY ONLY <2>1, Zenon DEF CacheEntry, LRUProofs!Entry
<1>3. LRU!Get(c, q) = LRUProofs!Get(c, q)
  BY DEF LRU!Get, LRUProofs!Get, LRU!HasKey, LRUProofs!HasKey, LRU!Position,
         LRUProofs!Position, LRU!NewElt, LRUProofs!NewElt, LRU!ShiftFrom,
         LRUProofs!ShiftFrom
<1>4. LRUProofs!NewElt(q) = [key |-> q, value |-> NullPtr]
  BY DEF LRUProofs!NewElt
<1>5. QED
  BY <1>1, <1>2, <1>3, <1>4, LRUProofs!GetProperties DEF LRUProofs!LRUAssumption

(***************************************************************************)
(* The cached path                                                         *)
(***************************************************************************)

(* The inductive invariant: types, sizes, and the cache.  CountedNamesExist *)
(* is what makes a lookup the code lets through land in its partition.     *)
IInv == TypeOK /\ PartitionsInSync /\ CountedNamesExist /\ CacheAgreesWithMap

(* A QName the invariants accept has an address. *)
LEMMA ValidHasAddress ==
  ASSUME TypeOK, PartitionsInSync, CountedNamesExist,
         NEW q \in QName, ValidQName(q)
  PROVE  /\ q.uri + 1 \in 1 .. Len(LNMap)
         /\ LNMap[q.uri + 1] \in Seq(Address)
         /\ q.local + 1 \in 1 .. Len(LNMap[q.uri + 1])
         /\ At(At(LNMap, q.uri), q.local) \in Address
<1> DEFINE u == q.uri + 1
<1>1. q.uri \in Nat /\ q.local \in Nat
  BY DEF QName
<1>2. Len(URIMap) \in Nat /\ Len(URIMap) = Len(LNMap)
  BY LenProperties DEF TypeOK, PartitionsInSync
<1>3. u \in 1 .. Len(URIMap) /\ q.local < URIMap[u].lnElts
  BY <1>1, <1>2 DEF ValidQName, hasURI, At
<1>4. URIMap[u] \in URIInfo
  BY <1>3, ElementOfSeq DEF TypeOK
<1>5. LNMap[u] \in Seq(Address)
  BY <1>2, <1>3, ElementOfSeq DEF TypeOK
<1>6. Len(LNMap[u]) \in Nat /\ URIMap[u].lnElts \in Nat
      /\ URIMap[u].lnElts <= Len(LNMap[u])
  BY <1>3, <1>4, <1>5, LenProperties DEF CountedNamesExist, URIInfo
<1>7. q.local + 1 \in 1 .. Len(LNMap[u])
  BY <1>1, <1>3, <1>6
<1>8. LNMap[u][q.local + 1] \in Address
  BY <1>5, <1>7, ElementOfSeq
<1>9. QED
  BY <1>2, <1>3, <1>5, <1>7, <1>8 DEF At

(* getLVPartition answers what LNMap holds, and leaves a coherent cache.   *)
THEOREM CachedLookup ==
  ASSUME IInv, NEW q \in QName, ValidQName(q)
  PROVE  /\ LVPartition(q) = At(At(LNMap, q.uri), q.local)
         /\ CacheAfterGet(q) \in Seq([key : QName, value : Address])
         /\ Len(CacheAfterGet(q)) <= CacheSize
         /\ \A i \in 1 .. Len(CacheAfterGet(q)) :
              LET e == CacheAfterGet(q)[i] IN
                ValidQName(e.key) /\ e.value = At(At(LNMap, e.key.uri), e.key.local)
         /\ \A i, j \in 1 .. Len(CacheAfterGet(q)) :
              CacheAfterGet(q)[i].key = CacheAfterGet(q)[j].key => i = j
<1> DEFINE a == At(At(LNMap, q.uri), q.local)
           Held == [key : QName, value : Address]
           g == LRU!Get(LNCache, q)
           n == Len(g)
           v == IF g[n].value = NullPtr THEN a ELSE g[n].value
           r == CacheAfterGet(q)
           Good(e) == ValidQName(e.key) /\ e.value = At(At(LNMap, e.key.uri), e.key.local)
<1>1. a \in Address /\ NullPtr \notin Address
  BY ValidHasAddress, LenProperties DEF IInv, NullPtr, Address
<1>2. LNCache \in Seq(Held) /\ LNCache \in Seq(CacheEntry)
  <2>1. Held \subseteq CacheEntry
    BY LenProperties DEF CacheEntry, Address, IInv, TypeOK
  <2>2. LNCache \in Seq(Held)
    BY DEF IInv, TypeOK
  <2>3. QED
    BY <2>1, <2>2, SeqMonotonic
<1>3. /\ Len(LNCache) <= CacheSize
      /\ \A i, j \in 1 .. Len(LNCache) : LNCache[i].key = LNCache[j].key => i = j
      /\ \A i \in 1 .. Len(LNCache) : Good(LNCache[i])
  BY DEF IInv, CacheAgreesWithMap, LRU!KeysDistinct
<1>4. /\ g \in Seq(CacheEntry)
      /\ n \in 1 .. CacheSize
      /\ \/ g[n] = [key |-> q, value |-> NullPtr]
         \/ \E j \in 1 .. Len(LNCache) : g[n] = LNCache[j] /\ LNCache[j].key = q
      /\ \A i \in 1 .. n - 1 :
           \E j \in 1 .. Len(LNCache) : g[i] = LNCache[j] /\ LNCache[j].key # q
      /\ \A i, j \in 1 .. n : g[i].key = g[j].key => i = j
  BY <1>2, <1>3, CacheGet
<1>5. g[n].key = q /\ v = a
  <2>1. CASE g[n] = [key |-> q, value |-> NullPtr]
    BY <2>1
  <2>2. CASE \E j \in 1 .. Len(LNCache) : g[n] = LNCache[j] /\ LNCache[j].key = q
    BY <1>1, <1>3, <2>2
  <2>3. QED
    BY <1>4, <2>1, <2>2
<1>6. r = [g EXCEPT ![n] = [g[n] EXCEPT !.value = v]]
  BY DEF CacheAfterGet
<1>7. [g[n] EXCEPT !.value = v] = [key |-> q, value |-> a]
  <2>1. g[n] \in CacheEntry
    BY <1>4, ElementOfSeq
  <2>2. QED
    BY <1>5, <2>1 DEF CacheEntry
<1> HIDE DEF g, n, v, r, a
<1>8. /\ r \in Seq(CacheEntry) /\ Len(r) = n
      /\ \A i \in 1 .. n : r[i] = IF i = n THEN [key |-> q, value |-> a] ELSE g[i]
  <2>1. [key |-> q, value |-> a] \in CacheEntry
    BY <1>1, LenProperties DEF CacheEntry, Address, IInv, TypeOK
  <2>2. n = Len(g)
    BY DEF n
  <2>3. QED
    BY <1>4, <1>6, <1>7, <2>1, <2>2, ExceptSeq
<1>9. \A i \in 1 .. n : r[i] \in Held /\ Good(r[i])
  <2> SUFFICES ASSUME NEW i \in 1 .. n PROVE r[i] \in Held /\ Good(r[i])
    OBVIOUS
  <2>1. CASE i = n
    BY <1>1, <1>8, <2>1 DEF a
  <2>2. CASE i # n
    <3>1. PICK j \in 1 .. Len(LNCache) : g[i] = LNCache[j]
      <4>1. n \in Nat /\ i \in 1 .. n - 1
        BY <1>4, <2>2, StringTableAssumption
      <4>2. QED
        BY <1>4, <4>1, Zenon
    <3>2. r[i] = LNCache[j]
      BY <1>8, <2>2, <3>1
    <3>3. LNCache[j] \in Held
      BY <1>2, ElementOfSeq
    <3>4. Good(LNCache[j])
      BY <1>3
    <3> HIDE DEF Held, Good
    <3>5. QED
      BY <3>2, <3>3, <3>4
  <2>3. QED
    BY <2>1, <2>2
<1>10. \A i, j \in 1 .. n : r[i].key = r[j].key => i = j
  <2>1. \A i \in 1 .. n : r[i].key = g[i].key
    BY <1>5, <1>8
  <2>2. \A i, j \in 1 .. n : g[i].key = g[j].key => i = j
    BY <1>4
  <2> QED BY <2>1, <2>2, Zenon
<1>11. r \in Seq(Held)
  <2>1. DOMAIN r = 1 .. n /\ r \in [1 .. n -> CacheEntry] /\ n \in Nat
    BY ONLY <1>8, LenProperties
  <2> HIDE DEF Held
  <2>2. \A i \in 1 .. n : r[i] \in Held
    BY <1>9
  <2>3. r \in [1 .. n -> Held]
    BY ONLY <2>1, <2>2
  <2>4. QED
    BY ONLY <2>1, <2>3, SeqDef
<1>12. LVPartition(q) = a
  BY <1>4, <1>8 DEF LVPartition, r
<1>13. QED
  BY <1>4, <1>8, <1>9, <1>10, <1>11, <1>12, StringTableAssumption DEF r, a

(***************************************************************************)
(* Init and the steps                                                      *)
(***************************************************************************)

LEMMA NewLocalNamesType ==
  ASSUME NEW ns \in Seq(Str)
  PROVE  NewLocalNames(ns) \in Seq(LocalName) /\ Len(NewLocalNames(ns)) = Len(ns)
<1>1. Len(ns) \in Nat /\ \A l \in 1 .. Len(ns) : ns[l] \in Str
  BY LenProperties, ElementOfSeq
<1>2. \A l \in 1 .. Len(ns) : NewLocalName(ns[l]) \in LocalName
  BY <1>1, EmptySeq DEF NewLocalName, LocalName
<1>3. NewLocalNames(ns) \in [1 .. Len(ns) -> LocalName]
  BY <1>2 DEF NewLocalNames
<1>4. QED
  BY <1>1, <1>3, SeqDef, LenProperties

LEMMA AddressesType ==
  ASSUME NEW b \in Nat, NEW n \in Nat, NEW m \in Nat, b + n <= m
  PROVE  Addresses(b, n) \in Seq(1 .. m) /\ Len(Addresses(b, n)) = n
<1>1. Addresses(b, n) \in [1 .. n -> 1 .. m]
  BY DEF Addresses
<1>2. QED
  BY <1>1, SeqDef, LenProperties

(* What addURI appends for a URI without and with a prefix.                *)
LEMMA NewURIType ==
  ASSUME NEW s \in Str, NEW p \in Str \union {None}
  PROVE  /\ NewURIInfo(s, p) \in URIInfo
         /\ NewURIInfo(s, p).lnElts = 0
         /\ PrefixesOf(p) \in Seq(Str)
  BY EmptySeq, StringTableAssumption DEF NewURIInfo, URIInfo, PrefixesOf

(* The predefined entries, with the one of the schema when there is one.   *)
LEMMA WithXSDType ==
  ASSUME NEW S, NEW b \in Seq(S), NEW w \in S
  PROVE  /\ WithXSD(b, w) \in Seq(S)
         /\ Len(WithXSD(b, w)) = IF UsesSchema THEN Len(b) + 1 ELSE Len(b)
         /\ \A i \in 1 .. Len(WithXSD(b, w)) :
              WithXSD(b, w)[i] = w \/ \E j \in 1 .. Len(b) : WithXSD(b, w)[i] = b[j]
<1>1. CASE UsesSchema
  <2>1. WithXSD(b, w) = Append(b, w)
    BY <1>1 DEF WithXSD
  <2>2. /\ Len(b) \in Nat
        /\ Append(b, w) \in Seq(S) /\ Len(Append(b, w)) = Len(b) + 1
        /\ \A i \in 1 .. Len(b) : Append(b, w)[i] = b[i]
        /\ Append(b, w)[Len(b) + 1] = w
    BY AppendProperties, LenProperties
  <2>3. QED
    BY <1>1, <2>1, <2>2
<1>2. CASE ~UsesSchema
  BY <1>2, LenProperties DEF WithXSD
<1>3. QED
  BY <1>1, <1>2

(* The table setup() leaves satisfies the invariant, with or without the   *)
(* schema's URI.                                                           *)
LEMMA InitInvariant == Init => IInv
<1> SUFFICES ASSUME Init PROVE IInv
  OBVIOUS
<1> DEFINE x == Len(XMLNames)
           y == Len(XSINames)
           z == Len(XSDNames)
           h == Len(LNHeap)
<1>1. x \in Nat /\ y \in Nat /\ z \in Nat
  BY StringTableAssumption, LenProperties
<1>2. BaseNames \in Seq(LocalName) /\ Len(BaseNames) = x + y
  <2>1. /\ NewLocalNames(XMLNames) \in Seq(LocalName)
        /\ NewLocalNames(XSINames) \in Seq(LocalName)
        /\ Len(NewLocalNames(XMLNames)) = x
        /\ Len(NewLocalNames(XSINames)) = y
    BY StringTableAssumption, NewLocalNamesType
  <2> HIDE DEF x, y
  <2>2. QED
    BY <2>1, ConcatProperties DEF BaseNames
<1>3. /\ LNHeap \in Seq(LocalName)
      /\ h = IF UsesSchema THEN x + y + z ELSE x + y
  <2>1. /\ NewLocalNames(XSDNames) \in Seq(LocalName)
        /\ Len(NewLocalNames(XSDNames)) = z
    BY StringTableAssumption, NewLocalNamesType
  <2>2. LNHeap = IF UsesSchema THEN BaseNames \o NewLocalNames(XSDNames) ELSE BaseNames
    BY DEF Init
  <2> HIDE DEF x, y, z
  <2>3. /\ BaseNames \o NewLocalNames(XSDNames) \in Seq(LocalName)
        /\ Len(BaseNames \o NewLocalNames(XSDNames)) = x + y + z
    BY <1>2, <2>1, ConcatProperties
  <2>4. QED
    BY <1>2, <2>2, <2>3 DEF h
<1>4. h \in Nat /\ Address = 1 .. h
  BY <1>3, LenProperties DEF Address
<1>5. /\ Addresses(0, x) \in Seq(Address) /\ Addresses(x, y) \in Seq(Address)
      /\ UsesSchema => Addresses(x + y, z) \in Seq(Address)
      /\ << >> \in Seq(Address)
  <2> HIDE DEF x, y, z, h
  <2>1. 0 + x <= h /\ x + y <= h /\ x + y \in Nat
    BY <1>1, <1>3
  <2>2. UsesSchema => (x + y) + z <= h
    BY <1>1, <1>3
  <2>3. Addresses(0, x) \in Seq(Address)
    BY <1>1, <1>4, <2>1, AddressesType
  <2>4. Addresses(x, y) \in Seq(Address)
    BY <1>1, <1>4, <2>1, AddressesType
  <2>5. UsesSchema => Addresses(x + y, z) \in Seq(Address)
    BY <1>1, <1>4, <2>1, <2>2, AddressesType
  <2>6. QED
    BY <2>3, <2>4, <2>5, EmptySeq
<1>6. /\ LNMap \in Seq(Seq(Address))
      /\ Len(LNMap) = NumPredefined
  <2> DEFINE b == << << >>, Addresses(0, x), Addresses(x, y) >>
             w == Addresses(x + y, z)
  <2>1. b \in Seq(Seq(Address)) /\ Len(b) = 3
    BY <1>5
  <2>2. LNMap = WithXSD(b, w) /\ (UsesSchema => w \in Seq(Address))
    BY <1>2, <1>5 DEF Init
  <2> HIDE DEF b, w
  <2>3. CASE UsesSchema
    <3>1. LNMap \in Seq(Seq(Address)) /\ Len(LNMap) = Len(b) + 1
      BY <2>3, <2>1, <2>2, WithXSDType
    <3>2. QED
      BY <2>1, <2>3, <3>1 DEF NumPredefined
  <2>4. CASE ~UsesSchema
    BY <2>1, <2>2, <2>4 DEF NumPredefined, WithXSD
  <2>5. QED
    BY <2>3, <2>4
<1>7. /\ URIMap \in Seq(URIInfo)
      /\ Len(URIMap) = NumPredefined
      /\ \A u \in 1 .. Len(URIMap) : URIMap[u].lnElts = 0
  <2> DEFINE b == << NewURIInfo(EmptyStr, EmptyStr), NewURIInfo(XML, XMLPrefix),
                     NewURIInfo(XSI, XSIPrefix) >>
             w == NewURIInfo(XSD, None)
  <2>1. /\ b \in Seq(URIInfo) /\ Len(b) = 3
        /\ \A u \in 1 .. 3 : b[u].lnElts = 0
        /\ w \in URIInfo /\ w.lnElts = 0
    BY StringTableAssumption, NewURIType
  <2>2. URIMap = WithXSD(b, w)
    BY DEF Init
  <2> HIDE DEF b, w
  <2>3. /\ URIMap \in Seq(URIInfo)
        /\ Len(URIMap) = IF UsesSchema THEN Len(b) + 1 ELSE Len(b)
        /\ \A i \in 1 .. Len(URIMap) :
             URIMap[i] = w \/ \E j \in 1 .. Len(b) : URIMap[i] = b[j]
    <3>1. b \in Seq(URIInfo) /\ w \in URIInfo
      BY <2>1
    <3>2. WithXSD(b, w) \in Seq(URIInfo)
      BY ONLY <3>1, WithXSDType
    <3>3. Len(WithXSD(b, w)) = IF UsesSchema THEN Len(b) + 1 ELSE Len(b)
      BY ONLY <3>1, WithXSDType
    <3>4. \A i \in 1 .. Len(WithXSD(b, w)) :
            WithXSD(b, w)[i] = w \/ \E j \in 1 .. Len(b) : WithXSD(b, w)[i] = b[j]
      BY ONLY <3>1, WithXSDType
    <3>5. QED
      BY ONLY <2>2, <3>2, <3>3, <3>4, Zenon
  <2>4. QED
    BY <2>1, <2>3 DEF NumPredefined
<1>8. PrefixMap \in Seq(Seq(Str)) /\ Len(PrefixMap) = NumPredefined
  <2> DEFINE b == << << EmptyStr >>, << XMLPrefix >>, << XSIPrefix >> >>
             w == << >>
  <2>1. b \in Seq(Seq(Str)) /\ Len(b) = 3 /\ w \in Seq(Str)
    BY StringTableAssumption, EmptySeq
  <2>2. PrefixMap = WithXSD(b, w)
    BY DEF Init
  <2> HIDE DEF b, w
  <2>3. /\ PrefixMap \in Seq(Seq(Str))
        /\ Len(PrefixMap) = IF UsesSchema THEN Len(b) + 1 ELSE Len(b)
    <3>1. b \in Seq(Seq(Str)) /\ w \in Seq(Str)
      BY <2>1
    <3>2. QED
      BY ONLY <2>2, <3>1, WithXSDType
  <2>4. QED
    BY <2>1, <2>3 DEF NumPredefined
<1>9. /\ NumPredefined \in Nat /\ URICount = NumPredefined /\ LNCount = NumPredefined
      /\ GValueMap = << >> /\ GValueCount = 0 /\ LNCache = << >>
      /\ returned = NothingReturned
  BY DEF Init, NumPredefined
<1>10. TypeOK
  <2>1. returned \in [op : {"none", "uri", "prefix", "local", "global", "value"},
                      uri : Nat, local : Nat, id : Nat, gid : Nat, str : Str]
    BY <1>9, StringTableAssumption DEF NothingReturned
  <2>2. LNCache \in Seq([key : QName, value : Address]) /\ GValueMap \in Seq(Str)
    BY <1>9, EmptySeq
  <2>3. QED
    BY <1>3, <1>6, <1>7, <1>8, <1>9, <2>1, <2>2 DEF TypeOK
<1>11. PartitionsInSync
  BY <1>6, <1>7, <1>8, <1>9, EmptySeq DEF PartitionsInSync
<1>12. CountedNamesExist
  <2>1. \A u \in 1 .. Len(LNMap) : Len(LNMap[u]) \in Nat
    BY <1>6, ElementOfSeq, LenProperties
  <2>2. QED
    BY <1>6, <1>7, <2>1 DEF CountedNamesExist
<1>13. CacheAgreesWithMap
  BY <1>9, EmptySeq, StringTableAssumption DEF CacheAgreesWithMap, LRU!KeysDistinct
<1>14. QED
  BY <1>10, <1>11, <1>12, <1>13 DEF IInv

(* A step that leaves the cache alone and keeps every accepted lookup      *)
(* keeps the cache coherent.                                               *)
LEMMA CacheSurvives ==
  ASSUME IInv, LNCache' = LNCache,
         \A q \in QName : ValidQName(q) =>
           /\ q.uri < Len(URIMap') /\ q.local < At(URIMap', q.uri).lnElts
           /\ At(At(LNMap', q.uri), q.local) = At(At(LNMap, q.uri), q.local)
  PROVE  CacheAgreesWithMap'
<1>1. LRU!KeysDistinct' /\ Len(LNCache') <= CacheSize
  BY DEF IInv, CacheAgreesWithMap, LRU!KeysDistinct
<1>2. ASSUME NEW i \in 1 .. Len(LNCache)
      PROVE  LET e == LNCache[i] IN
             /\ e.key.uri < Len(URIMap') /\ e.key.local < At(URIMap', e.key.uri).lnElts
             /\ e.value = At(At(LNMap', e.key.uri), e.key.local)
  <2>1. LNCache[i] \in [key : QName, value : Address]
    BY <1>2, ElementOfSeq DEF IInv, TypeOK
  <2>2. LNCache[i].key \in QName
    BY <2>1
  <2>3. /\ ValidQName(LNCache[i].key)
        /\ LNCache[i].value = At(At(LNMap, LNCache[i].key.uri), LNCache[i].key.local)
    BY <1>2 DEF IInv, CacheAgreesWithMap
  <2>4. QED
    BY <2>2, <2>3
<1>3. QED
  BY <1>1, <1>2 DEF CacheAgreesWithMap, ValidQName, hasURI

Returned == [op : {"none", "uri", "prefix", "local", "global", "value"},
             uri : Nat, local : Nat, id : Nat, gid : Nat, str : Str]

(* addURI: all three partitions grow by one and no earlier entry moves.    *)
LEMMA AddURIStep ==
  ASSUME IInv, NEW s \in Str, addURI(s, None)
  PROVE  IInv'
<1> DEFINE x == NewURIInfo(s, None)
           n == Len(URIMap)
<1>1. x \in URIInfo /\ x.lnElts = 0 /\ << >> \in Seq(Str) /\ << >> \in Seq(Address)
      /\ PrefixesOf(None) \in Seq(Str)
  BY NewURIType, EmptySeq
<1>2. /\ URIMap' = Append(URIMap, x)
      /\ PrefixMap' = Append(PrefixMap, PrefixesOf(None))
      /\ LNMap' = Append(LNMap, << >>)
      /\ URICount' = URICount + 1 /\ LNCount' = LNCount + 1
      /\ UNCHANGED << LNHeap, GValueMap, GValueCount, LNCache >>
      /\ Address' = Address
      /\ returned' = [NothingReturned EXCEPT !.op = "uri", !.id = URICount, !.str = s]
  BY DEF addURI, createURI, Address
<1> HIDE DEF x
<1>3. /\ URIMap' \in Seq(URIInfo) /\ Len(URIMap') = n + 1
      /\ \A i \in 1 .. n : URIMap'[i] = URIMap[i]
      /\ URIMap'[n + 1] = x
  BY <1>1, <1>2, AppendProperties DEF IInv, TypeOK
<1>4. /\ PrefixMap' \in Seq(Seq(Str)) /\ Len(PrefixMap') = Len(PrefixMap) + 1
  BY <1>1, <1>2, AppendProperties DEF IInv, TypeOK
<1>5. /\ LNMap' \in Seq(Seq(Address)) /\ Len(LNMap') = Len(LNMap) + 1
      /\ \A i \in 1 .. Len(LNMap) : LNMap'[i] = LNMap[i]
      /\ LNMap'[Len(LNMap) + 1] = << >>
  BY <1>1, <1>2, AppendProperties DEF IInv, TypeOK
<1>6. n \in Nat /\ n = Len(PrefixMap) /\ n = Len(LNMap) /\ URICount = n /\ LNCount = n
  BY LenProperties DEF IInv, TypeOK, PartitionsInSync
<1> HIDE DEF n
<1>7. TypeOK'
  <2>1. returned' \in Returned
    BY <1>2, <1>6, StringTableAssumption DEF NothingReturned, Returned
  <2>2. URICount' \in Nat /\ LNCount' \in Nat
    BY <1>2, <1>6
  <2>3. QED
    BY <1>2, <1>3, <1>4, <1>5, <2>1, <2>2 DEF IInv, TypeOK, Returned
<1>8. PartitionsInSync'
  <2>1. /\ Len(URIMap') = Len(PrefixMap') /\ Len(URIMap') = Len(LNMap')
        /\ URICount' = Len(URIMap') /\ LNCount' = Len(URIMap')
    BY <1>2, <1>3, <1>4, <1>5, <1>6
  <2>2. QED
    BY <1>2, <2>1 DEF IInv, PartitionsInSync
<1>9. CountedNamesExist'
  <2>1. ASSUME NEW u \in 1 .. n + 1 PROVE URIMap'[u].lnElts <= Len(LNMap'[u])
    <3>1. CASE u = n + 1
      BY <1>1, <1>3, <1>5, <1>6, <3>1, EmptySeq
    <3>2. CASE u # n + 1
      <4>1. u \in 1 .. n
        BY <1>6, <3>2
      <4>2. URIMap[u].lnElts <= Len(LNMap[u])
        BY <4>1 DEF IInv, CountedNamesExist, n
      <4>3. QED
        BY <1>3, <1>5, <1>6, <4>1, <4>2
    <3>3. QED
      BY <3>1, <3>2
  <2>2. QED
    BY <1>3, <2>1 DEF CountedNamesExist
<1>10. CacheAgreesWithMap'
  <2>1. ASSUME NEW q \in QName, ValidQName(q)
        PROVE  /\ q.uri < Len(URIMap') /\ q.local < At(URIMap', q.uri).lnElts
               /\ At(At(LNMap', q.uri), q.local) = At(At(LNMap, q.uri), q.local)
    <3>1. q.uri \in Nat /\ q.uri < n /\ q.local < URIMap[q.uri + 1].lnElts
      BY <2>1 DEF QName, ValidQName, hasURI, At, n
    <3>2. q.uri + 1 \in 1 .. n
      BY <1>6, <3>1
    <3>3. URIMap'[q.uri + 1] = URIMap[q.uri + 1] /\ LNMap'[q.uri + 1] = LNMap[q.uri + 1]
      BY <1>3, <1>5, <1>6, <3>2
    <3>4. q.uri < Len(URIMap')
      BY <1>3, <1>6, <3>1
    <3>5. QED
      BY <3>1, <3>3, <3>4 DEF At
  <2>2. LNCache' = LNCache
    BY <1>2
  <2>3. QED
    BY <2>1, <2>2, CacheSurvives
<1>11. QED
  BY <1>7, <1>8, <1>9, <1>10 DEF IInv

(* addPrefix: one prefix partition and its count change, nothing else.     *)
LEMMA AddPrefixStep ==
  ASSUME IInv, NEW u \in 0 .. Len(URIMap) - 1, NEW s \in Str, addPrefix(u, s)
  PROVE  IInv'
<1> DEFINE k == u + 1
           n == Len(URIMap)
           x == [URIMap[k] EXCEPT !.prefixElts = @ + 1]
           b == Append(PrefixMap[k], s)
<1>1. n \in Nat /\ n = Len(PrefixMap) /\ n = Len(LNMap) /\ k \in 1 .. n /\ u \in Nat
  BY LenProperties DEF IInv, TypeOK, PartitionsInSync
<1>2. URIMap[k] \in URIInfo /\ PrefixMap[k] \in Seq(Str)
  BY <1>1, ElementOfSeq DEF IInv, TypeOK
<1>3. /\ x \in URIInfo /\ x.lnElts = URIMap[k].lnElts
  BY <1>2 DEF URIInfo
<1>4. b \in Seq(Str)
  BY <1>2, AppendProperties
<1>5. /\ URIMap' = [URIMap EXCEPT ![k] = x]
      /\ PrefixMap' = [PrefixMap EXCEPT ![k] = b]
      /\ UNCHANGED << URICount, LNMap, LNCount, LNHeap, GValueMap, GValueCount, LNCache >>
      /\ Address' = Address
      /\ returned' = [NothingReturned EXCEPT !.op = "prefix", !.uri = u,
                        !.id = URIMap[k].prefixElts, !.str = s]
  BY DEF addPrefix, At, Address
<1>6. returned' \in Returned
  BY <1>1, <1>2, <1>5, StringTableAssumption DEF NothingReturned, Returned, URIInfo
<1> HIDE DEF x, b, k, n
<1>7. /\ URIMap' \in Seq(URIInfo) /\ Len(URIMap') = n
      /\ \A i \in 1 .. n : URIMap'[i].lnElts = URIMap[i].lnElts
  <2>1. /\ URIMap' \in Seq(URIInfo) /\ Len(URIMap') = Len(URIMap)
        /\ \A i \in 1 .. Len(URIMap) : URIMap'[i] = IF i = k THEN x ELSE URIMap[i]
    <3>1. /\ URIMap \in Seq(URIInfo) /\ k \in 1 .. Len(URIMap) /\ x \in URIInfo
          /\ URIMap' = [URIMap EXCEPT ![k] = x]
      BY <1>1, <1>3, <1>5 DEF IInv, TypeOK, n
    <3>2. QED
      BY ONLY <3>1, ExceptSeq
  <2>2. QED
    BY <1>3, <2>1 DEF n
<1>8. PrefixMap' \in Seq(Seq(Str)) /\ Len(PrefixMap') = Len(PrefixMap)
  <2>1. PrefixMap \in Seq(Seq(Str)) /\ k \in 1 .. Len(PrefixMap)
    BY <1>1 DEF IInv, TypeOK
  <2>2. QED
    BY ONLY <1>4, <1>5, <2>1, ExceptSeq
<1>9. TypeOK'
  BY <1>5, <1>6, <1>7, <1>8 DEF IInv, TypeOK, Returned
<1>10. PartitionsInSync'
  BY <1>5, <1>7, <1>8 DEF IInv, PartitionsInSync, n
<1>11. CountedNamesExist'
  BY <1>5, <1>7 DEF IInv, CountedNamesExist, n
<1>12. CacheAgreesWithMap'
  <2>1. ASSUME NEW q \in QName, ValidQName(q)
        PROVE  /\ q.uri < Len(URIMap') /\ q.local < At(URIMap', q.uri).lnElts
               /\ At(At(LNMap', q.uri), q.local) = At(At(LNMap, q.uri), q.local)
    <3>1. q.uri \in Nat /\ q.uri < n /\ q.local < URIMap[q.uri + 1].lnElts
      BY <2>1 DEF QName, ValidQName, hasURI, At, n
    <3>2. q.uri + 1 \in 1 .. n
      BY <1>1, <3>1
    <3>3. QED
      BY <1>5, <1>7, <3>1, <3>2 DEF At
  <2>2. QED
    BY <1>5, <2>1, CacheSurvives
<1>13. QED
  BY <1>9, <1>10, <1>11, <1>12 DEF IInv

(* addLocalName: the new LocalName gets a fresh address, and the count     *)
(* grows only together with the partition.                                 *)
LEMMA AddLocalNameStep ==
  ASSUME IInv, NEW u \in 0 .. Len(URIMap) - 1, NEW s \in Str, addLocalName(u, s)
  PROVE  IInv'
<1> DEFINE k == u + 1
           n == Len(URIMap)
           h == Len(LNHeap)
           x == [URIMap[k] EXCEPT !.lnElts = @ + 1]
           b == Append(LNMap[k], h + 1)
<1>1. n \in Nat /\ n = Len(LNMap) /\ k \in 1 .. n /\ u \in Nat /\ h \in Nat
  BY LenProperties DEF IInv, TypeOK, PartitionsInSync
<1>2. URIMap[k] \in URIInfo /\ LNMap[k] \in Seq(Address)
  BY <1>1, ElementOfSeq DEF IInv, TypeOK
<1>3. /\ x \in URIInfo /\ x.lnElts = URIMap[k].lnElts + 1
  BY <1>2 DEF URIInfo
<1>4. /\ URIMap' = [URIMap EXCEPT ![k] = x]
      /\ LNMap' = [LNMap EXCEPT ![k] = b]
      /\ LNHeap' = Append(LNHeap, NewLocalName(s))
      /\ UNCHANGED << URICount, PrefixMap, LNCount, GValueMap, GValueCount, LNCache >>
      /\ returned' = [NothingReturned EXCEPT !.op = "local", !.uri = u,
                        !.id = URIMap[k].lnElts, !.str = s]
  BY DEF addLocalName, createLocalName, At
<1>5. returned' \in Returned
  BY <1>1, <1>2, <1>4, StringTableAssumption DEF NothingReturned, Returned, URIInfo
<1>6. LNHeap' \in Seq(LocalName) /\ Len(LNHeap') = h + 1
  <2>1. NewLocalName(s) \in LocalName
    BY EmptySeq DEF NewLocalName, LocalName
  <2>2. QED
    BY <1>4, <2>1, AppendProperties DEF IInv, TypeOK
<1>7. Address = 1 .. h /\ Address' = 1 .. h + 1 /\ Address \subseteq Address'
  <2>1. Address = 1 .. h /\ Address' = 1 .. h + 1
    BY <1>6 DEF Address
  <2> HIDE DEF h
  <2>2. QED
    BY <1>1, <2>1
<1> HIDE DEF h, x, k, n
<1>8. /\ LNMap[k] \in Seq(Address') /\ LNMap \in Seq(Seq(Address'))
  <2>1. LNMap[k] \in Seq(Address')
    BY <1>2, <1>7, SeqMonotonic
  <2>2. Seq(Address) \subseteq Seq(Address')
    BY <1>7, SeqMonotonic
  <2>3. QED
    BY <2>1, <2>2, SeqMonotonic DEF IInv, TypeOK
<1>9. /\ b \in Seq(Address') /\ Len(b) = Len(LNMap[k]) + 1
      /\ \A l \in 1 .. Len(LNMap[k]) : b[l] = LNMap[k][l]
  <2>1. h + 1 \in Address'
    BY <1>1, <1>7
  <2>2. QED
    BY <1>8, <2>1, AppendProperties
<1> HIDE DEF b
<1>10. /\ LNMap' \in Seq(Seq(Address')) /\ Len(LNMap') = Len(LNMap)
       /\ \A i \in 1 .. Len(LNMap) : LNMap'[i] = IF i = k THEN b ELSE LNMap[i]
  BY <1>1, <1>4, <1>8, <1>9, ExceptSeq
<1>11. /\ URIMap' \in Seq(URIInfo) /\ Len(URIMap') = Len(URIMap)
       /\ \A i \in 1 .. Len(URIMap) : URIMap'[i] = IF i = k THEN x ELSE URIMap[i]
  <2>1. URIMap \in Seq(URIInfo) /\ k \in 1 .. Len(URIMap)
    BY <1>1 DEF IInv, TypeOK, n
  <2>2. x \in URIInfo /\ URIMap' = [URIMap EXCEPT ![k] = x]
    BY <1>3, <1>4
  <2>3. QED
    BY ONLY <2>1, <2>2, ExceptSeq
<1>12. LNCache \in Seq([key : QName, value : Address'])
  <2>1. [key : QName, value : Address] \subseteq [key : QName, value : Address']
    BY <1>7
  <2>2. QED
    BY <2>1, SeqMonotonic DEF IInv, TypeOK
<1>13. TypeOK'
  BY <1>4, <1>5, <1>6, <1>10, <1>11, <1>12 DEF IInv, TypeOK, Returned
<1>14. PartitionsInSync'
  BY <1>4, <1>10, <1>11 DEF IInv, PartitionsInSync
<1>15. CountedNamesExist'
  <2>1. ASSUME NEW i \in 1 .. Len(URIMap) PROVE URIMap'[i].lnElts <= Len(LNMap'[i])
    <3>1. i \in 1 .. Len(LNMap) /\ URIMap[i].lnElts <= Len(LNMap[i])
      BY <1>1 DEF IInv, CountedNamesExist, n
    <3>2. CASE i = k
      <4>1. Len(LNMap[k]) \in Nat /\ URIMap[k].lnElts \in Nat
        BY <1>2, LenProperties DEF URIInfo
      <4>2. URIMap'[i].lnElts = URIMap[k].lnElts + 1 /\ Len(LNMap'[i]) = Len(LNMap[k]) + 1
        BY <1>3, <1>9, <1>10, <1>11, <3>1, <3>2
      <4>3. QED
        BY <3>1, <3>2, <4>1, <4>2
    <3>3. CASE i # k
      BY <1>10, <1>11, <3>1, <3>3
    <3>4. QED
      BY <3>2, <3>3
  <2>2. QED
    BY <1>11, <2>1 DEF CountedNamesExist
<1>16. CacheAgreesWithMap'
  <2>1. ASSUME NEW q \in QName, ValidQName(q)
        PROVE  /\ q.uri < Len(URIMap') /\ q.local < At(URIMap', q.uri).lnElts
               /\ At(At(LNMap', q.uri), q.local) = At(At(LNMap, q.uri), q.local)
    <3> DEFINE i == q.uri + 1
               l == q.local + 1
    <3>1. /\ q.uri < Len(URIMap) /\ q.local < URIMap[i].lnElts
          /\ q.uri \in Nat /\ q.local \in Nat
      BY <2>1 DEF QName, ValidQName, hasURI, At
    <3>2. i \in 1 .. Len(LNMap) /\ l \in 1 .. Len(LNMap[i]) /\ i \in 1 .. Len(URIMap)
      BY <1>1, <2>1, ValidHasAddress DEF IInv, n
    <3>3. q.local < URIMap'[i].lnElts
      <4>1. URIMap[k].lnElts \in Nat
        BY <1>2 DEF URIInfo
      <4>2. URIMap'[i].lnElts = IF i = k THEN URIMap[k].lnElts + 1 ELSE URIMap[i].lnElts
        BY <1>3, <1>11, <3>2
      <4> HIDE DEF i
      <4>3. QED
        BY <3>1, <4>1, <4>2
    <3>4. LNMap'[i][l] = LNMap[i][l]
      <4>1. CASE i = k
        BY <1>9, <1>10, <3>2, <4>1
      <4>2. CASE i # k
        BY <1>10, <3>2, <4>2
      <4>3. QED
        BY <4>1, <4>2
    <3>5. QED
      BY <1>11, <3>1, <3>3, <3>4 DEF At
  <2>2. QED
    BY <1>4, <2>1, CacheSurvives
<1>17. QED
  BY <1>13, <1>14, <1>15, <1>16 DEF IInv

(* createGlobalValue: the global partition and its counter grow together.  *)
LEMMA GlobalValueFacts ==
  ASSUME IInv, NEW s \in Str, createGlobalValue(s)
  PROVE  /\ GValueMap' \in Seq(Str)
         /\ GValueCount' = Len(GValueMap')
         /\ GValueCount' \in Nat /\ GValueCount' - 1 \in Nat
<1>1. GValueMap \in Seq(Str) /\ GValueCount = Len(GValueMap) /\ Len(GValueMap) \in Nat
  BY LenProperties DEF IInv, TypeOK, PartitionsInSync
<1>2. GValueMap' = Append(GValueMap, s) /\ GValueCount' = GValueCount + 1
  BY DEF createGlobalValue
<1>3. GValueMap' \in Seq(Str) /\ Len(GValueMap') = Len(GValueMap) + 1
  BY <1>1, <1>2, AppendProperties
<1>4. QED
  BY <1>1, <1>2, <1>3

LEMMA AddGlobalValueStep ==
  ASSUME IInv, NEW s \in Str, addGlobalValue(s)
  PROVE  IInv'
<1>1. /\ createGlobalValue(s)
      /\ UNCHANGED << URIMap, URICount, PrefixMap, LNMap, LNCount, LNHeap, LNCache >>
      /\ Address' = Address
      /\ returned' = [NothingReturned EXCEPT !.op = "global", !.gid = GValueCount, !.str = s]
  BY DEF addGlobalValue, Address
<1>2. /\ GValueMap' \in Seq(Str) /\ GValueCount' = Len(GValueMap') /\ GValueCount' \in Nat
  BY <1>1, GlobalValueFacts
<1>3. returned' \in Returned
  BY <1>1, StringTableAssumption DEF NothingReturned, Returned, IInv, TypeOK
<1>4. TypeOK'
  BY <1>1, <1>2, <1>3 DEF IInv, TypeOK, Returned
<1>5. PartitionsInSync' /\ CountedNamesExist'
  BY <1>1, <1>2 DEF IInv, PartitionsInSync, CountedNamesExist
<1>6. CacheAgreesWithMap'
  BY <1>1, CacheSurvives DEF ValidQName, hasURI, At
<1>7. QED
  BY <1>4, <1>5, <1>6 DEF IInv

(* A lookup leaves a coherent cache when the maps stay as they are.        *)
LEMMA LookupKeepsCache ==
  ASSUME IInv, NEW q \in QName, ValidQName(q), LNCache' = CacheAfterGet(q),
         UNCHANGED << URIMap, LNMap >>, Len(LNHeap') = Len(LNHeap)
  PROVE  /\ CacheAgreesWithMap'
         /\ LNCache' \in Seq([key : QName, value : Address'])
<1>1. Address' = Address
  BY DEF Address
<1>2. /\ LNCache' \in Seq([key : QName, value : Address])
      /\ Len(LNCache') <= CacheSize
      /\ \A i \in 1 .. Len(LNCache') :
           LET e == LNCache'[i] IN
             ValidQName(e.key) /\ e.value = At(At(LNMap, e.key.uri), e.key.local)
      /\ \A i, j \in 1 .. Len(LNCache') : LNCache'[i].key = LNCache'[j].key => i = j
  BY CachedLookup
<1>3. QED
  BY <1>1, <1>2 DEF CacheAgreesWithMap, LRU!KeysDistinct, ValidQName, hasURI

(* readPartition: only the cache moves.                                    *)
LEMMA ReadPartitionStep ==
  ASSUME IInv, NEW q \in QName, readPartition(q)
  PROVE  IInv'
<1>1. /\ ValidQName(q) /\ LNCache' = CacheAfterGet(q)
      /\ UNCHANGED << URIMap, URICount, PrefixMap, LNMap, LNCount, LNHeap,
                      GValueMap, GValueCount, returned >>
  BY DEF readPartition
<1>2. CacheAgreesWithMap' /\ LNCache' \in Seq([key : QName, value : Address'])
  BY <1>1, LookupKeepsCache
<1>3. Address' = Address
  BY <1>1 DEF Address
<1>4. TypeOK' /\ PartitionsInSync' /\ CountedNamesExist'
  BY <1>1, <1>2, <1>3 DEF IInv, TypeOK, PartitionsInSync, CountedNamesExist
<1>5. QED
  BY <1>2, <1>4 DEF IInv

(* addValue: the value lands at an address of the heap, so only one        *)
(* LocalName changes and no lookup does.                                   *)
LEMMA AddValueStep ==
  ASSUME IInv, NEW q \in QName, NEW s \in Str, addValue(q, s)
  PROVE  IInv'
<1> DEFINE a == LVPartition(q)
           x == [LNHeap[a] EXCEPT !.values = Append(@, s)]
<1>1. /\ ValidQName(q) /\ createGlobalValue(s) /\ LNCache' = CacheAfterGet(q)
      /\ LNHeap' = [LNHeap EXCEPT ![a] = x]
      /\ returned' = [op |-> "value", uri |-> q.uri, local |-> q.local, str |-> s,
                      id |-> Len(LNHeap[a].values), gid |-> GValueCount' - 1]
      /\ UNCHANGED << URIMap, URICount, PrefixMap, LNMap, LNCount >>
  BY DEF addValue, addLocalValue
<1>2. a \in Address
  BY <1>1, CachedLookup, ValidHasAddress DEF IInv
<1>3. LNHeap \in Seq(LocalName) /\ a \in 1 .. Len(LNHeap)
  BY <1>2 DEF IInv, TypeOK, Address
<1> HIDE DEF a
<1>4. LNHeap[a] \in LocalName
  BY <1>3, ElementOfSeq
<1>5. LNHeap[a].values \in Seq(Str) /\ Len(LNHeap[a].values) \in Nat
  BY <1>4, LenProperties DEF LocalName
<1>6. x \in LocalName
  <2>1. Append(LNHeap[a].values, s) \in Seq(Str)
    BY <1>5, AppendProperties
  <2>2. QED
    BY <1>4, <2>1 DEF LocalName
<1> HIDE DEF x
<1>7. LNHeap' \in Seq(LocalName) /\ Len(LNHeap') = Len(LNHeap)
  BY ONLY <1>1, <1>3, <1>6, ExceptSeq
<1>8. /\ GValueMap' \in Seq(Str) /\ GValueCount' = Len(GValueMap')
      /\ GValueCount' \in Nat /\ GValueCount' - 1 \in Nat
  BY <1>1, GlobalValueFacts
<1>9. returned' \in Returned
  <2>1. q.uri \in Nat /\ q.local \in Nat
    BY DEF QName
  <2>2. QED
    BY <1>1, <1>5, <1>8, <2>1 DEF Returned
<1>10. CacheAgreesWithMap' /\ LNCache' \in Seq([key : QName, value : Address'])
  BY <1>1, <1>7, LookupKeepsCache
<1>11. Address' = Address
  BY <1>7 DEF Address
<1>12. TypeOK'
  BY <1>1, <1>7, <1>8, <1>9, <1>10, <1>11 DEF IInv, TypeOK, Returned
<1>13. PartitionsInSync' /\ CountedNamesExist'
  BY <1>1, <1>8 DEF IInv, PartitionsInSync, CountedNamesExist
<1>14. QED
  BY <1>10, <1>12, <1>13 DEF IInv

LEMMA StepInvariant == IInv /\ [Next]_tableVars => IInv'
<1> SUFFICES ASSUME IInv, [Next]_tableVars PROVE IInv'
  OBVIOUS
<1>1. ASSUME NEW s \in Str, addURI(s, None) PROVE IInv'
  BY <1>1, AddURIStep
<1>2. ASSUME NEW u \in 0 .. Len(URIMap) - 1, NEW s \in Str, addPrefix(u, s) PROVE IInv'
  BY <1>2, AddPrefixStep
<1>3. ASSUME NEW u \in 0 .. Len(URIMap) - 1, NEW s \in Str, addLocalName(u, s)
      PROVE  IInv'
  BY <1>3, AddLocalNameStep
<1>4. ASSUME NEW s \in Str, addGlobalValue(s) PROVE IInv'
  BY <1>4, AddGlobalValueStep
<1>5. ASSUME NEW q \in ValidQNames, NEW s \in Str, addValue(q, s) PROVE IInv'
  BY <1>5, AddValueStep DEF ValidQNames
<1>6. ASSUME NEW q \in ValidQNames, readPartition(q) PROVE IInv'
  BY <1>6, ReadPartitionStep DEF ValidQNames
<1>7. CASE UNCHANGED tableVars
  BY <1>7 DEF tableVars, IInv, TypeOK, PartitionsInSync, CountedNamesExist,
       CacheAgreesWithMap, LRU!KeysDistinct, ValidQName, hasURI, At, Address
<1>8. QED
  BY <1>1, <1>2, <1>3, <1>4, <1>5, <1>6, <1>7 DEF Next

(***************************************************************************)
(* Safety                                                                  *)
(***************************************************************************)

(* Every reachable table is well formed, for every predefined content and  *)
(* every cache capacity (StringTable's members).                           *)
THEOREM TypeCorrect == Spec => []TypeOK
<1>1. IInv => TypeOK
  BY DEF IInv
<1>2. QED
  BY InitInvariant, StepInvariant, <1>1, PTL DEF Spec

(* assertPartitionsInSync never fires, and the counters the bit widths are *)
(* computed from are the sizes of the partitions.                          *)
THEOREM InSync == Spec => []PartitionsInSync
<1>1. IInv => PartitionsInSync
  BY DEF IInv
<1>2. QED
  BY InitInvariant, StepInvariant, <1>1, PTL DEF Spec

(* getLVPartition: no eviction, refill or growth of the tables ever makes  *)
(* the cache answer differently from LNMap.                                *)
THEOREM CacheCoherent == Spec => []CacheAgreesWithMap
<1>1. IInv => CacheAgreesWithMap
  BY DEF IInv
<1>2. QED
  BY InitInvariant, StepInvariant, <1>1, PTL DEF Spec

(***************************************************************************)
(* Local values are global                                                 *)
(***************************************************************************)

(* The predefined LocalNames have no values yet. *)
LEMMA NoInitialValues ==
  Init => \A a \in Address : LNHeap[a].values = << >>
<1> DEFINE Fresh == [name : Str, values : {<< >>}]
<1>1. ASSUME NEW ns \in Seq(Str) PROVE NewLocalNames(ns) \in Seq(Fresh)
  <2>1. Len(ns) \in Nat /\ \A l \in 1 .. Len(ns) : ns[l] \in Str
    BY LenProperties, ElementOfSeq
  <2>2. NewLocalNames(ns) \in [1 .. Len(ns) -> Fresh]
    BY <2>1 DEF NewLocalNames, NewLocalName
  <2> HIDE DEF Fresh
  <2>3. QED
    BY <2>1, <2>2, SeqDef
<1>2. /\ NewLocalNames(XMLNames) \in Seq(Fresh) /\ NewLocalNames(XSINames) \in Seq(Fresh)
      /\ NewLocalNames(XSDNames) \in Seq(Fresh)
  BY <1>1, StringTableAssumption
<1> HIDE DEF Fresh
<1>3. BaseNames \in Seq(Fresh)
  BY <1>2, ConcatProperties DEF BaseNames
<1>4. BaseNames \o NewLocalNames(XSDNames) \in Seq(Fresh)
  BY <1>2, <1>3, ConcatProperties
<1>5. Init => LNHeap \in Seq(Fresh)
  BY <1>3, <1>4 DEF Init
<1>6. Init => \A a \in Address : LNHeap[a] \in Fresh
  BY <1>5, ElementOfSeq DEF Address
<1>7. QED
  BY <1>6 DEF Fresh

(* A step never takes a string out of the global partition. *)
LEMMA GlobalsOnlyGrow ==
  ASSUME IInv, Next
  PROVE  /\ Len(GValueMap') \in Nat /\ Len(GValueMap) <= Len(GValueMap')
         /\ \A g \in 1 .. Len(GValueMap) : GValueMap'[g] = GValueMap[g]
<1>1. GValueMap \in Seq(Str) /\ Len(GValueMap) \in Nat
  BY LenProperties DEF IInv, TypeOK
<1>2. ASSUME NEW s \in Str, createGlobalValue(s)
      PROVE  /\ Len(GValueMap') = Len(GValueMap) + 1
             /\ \A g \in 1 .. Len(GValueMap) : GValueMap'[g] = GValueMap[g]
  BY <1>1, <1>2, AppendProperties DEF createGlobalValue
<1>3. UNCHANGED GValueMap \/ \E s \in Str : createGlobalValue(s)
  BY DEF Next, addURI, addPrefix, addLocalName, addGlobalValue, addValue,
         addLocalValue, readPartition
<1>4. QED
  BY <1>1, <1>2, <1>3

LEMMA LocalValuesStep ==
  IInv /\ LocalValuesAreGlobal /\ [Next]_tableVars => LocalValuesAreGlobal'
<1> SUFFICES ASSUME IInv, LocalValuesAreGlobal, [Next]_tableVars
             PROVE  LocalValuesAreGlobal'
  OBVIOUS
<1> DEFINE In(G, s) == \E g \in 1 .. Len(G) : G[g] = s
           Covered(lv) == \A i \in 1 .. Len(lv) : In(GValueMap, lv[i])
           h == Len(LNHeap)
<1>1. CASE UNCHANGED tableVars
  BY <1>1 DEF tableVars, LocalValuesAreGlobal, Address
<1>2. CASE Next
  <2>1. ASSUME NEW s, In(GValueMap, s) PROVE In(GValueMap', s)
    BY <1>2, <2>1, GlobalsOnlyGrow
  <2>2. ASSUME NEW a \in Address PROVE Covered(LNHeap[a].values)
    BY DEF LocalValuesAreGlobal
  <2>3. h \in Nat /\ LNHeap \in Seq(LocalName) /\ Address = 1 .. h
    BY LenProperties DEF IInv, TypeOK, Address
  <2>4. CASE UNCHANGED LNHeap
    BY <2>1, <2>2, <2>4 DEF LocalValuesAreGlobal, Address
  <2>5. ASSUME NEW u, NEW s \in Str, createLocalName(u, s)
        PROVE  LocalValuesAreGlobal'
    <3>1. NewLocalName(s) \in LocalName /\ NewLocalName(s).values = << >>
      BY EmptySeq DEF NewLocalName, LocalName
    <3>2. /\ Len(LNHeap') = h + 1
          /\ \A a \in 1 .. h : LNHeap'[a] = LNHeap[a]
          /\ LNHeap'[h + 1] = NewLocalName(s)
      BY <2>3, <2>5, <3>1, AppendProperties DEF createLocalName
    <3> HIDE DEF h
    <3>3. ASSUME NEW a \in 1 .. h + 1, NEW i \in 1 .. Len(LNHeap'[a].values)
          PROVE  In(GValueMap', LNHeap'[a].values[i])
      <4>1. CASE a = h + 1
        BY <3>1, <3>2, <3>3, <4>1, EmptySeq
      <4>2. CASE a # h + 1
        <5>1. a \in Address
          BY <2>3, <4>2
        <5>2. In(GValueMap, LNHeap[a].values[i])
          BY <2>2, <2>3, <3>2, <5>1
        <5>3. QED
          BY <2>1, <2>3, <3>2, <5>1, <5>2
      <4>3. QED
        BY <4>1, <4>2
    <3>4. QED
      BY <3>2, <3>3 DEF LocalValuesAreGlobal, Address
  <2>6. ASSUME NEW q \in QName, NEW s \in Str, addLocalValue(q, s)
        PROVE  LocalValuesAreGlobal'
    <3> DEFINE p == LVPartition(q)
               lv == LNHeap[p].values
               x == [LNHeap[p] EXCEPT !.values = Append(lv, s)]
    <3>1. p \in 1 .. h
      BY <2>3, <2>6, CachedLookup, ValidHasAddress DEF IInv, addLocalValue
    <3>2. LNHeap[p] \in LocalName /\ lv \in Seq(Str) /\ Len(lv) \in Nat
      <4>1. LNHeap[p] \in LocalName
        BY <2>3, <3>1, ElementOfSeq
      <4>2. QED
        BY <4>1, LenProperties DEF LocalName
    <3>3. In(GValueMap', s)
      <4>1. GValueMap' = Append(GValueMap, s) /\ GValueMap \in Seq(Str)
        BY <2>6 DEF addLocalValue, createGlobalValue, IInv, TypeOK
      <4>2. /\ Len(GValueMap) \in Nat /\ Len(GValueMap') = Len(GValueMap) + 1
            /\ GValueMap'[Len(GValueMap) + 1] = s
        BY <4>1, AppendProperties, LenProperties
      <4>3. QED
        BY <4>2
    <3>4. LNHeap' = [LNHeap EXCEPT ![p] = x]
      BY <2>6 DEF addLocalValue
    <3> HIDE DEF p, h
    <3>5. x \in LocalName /\ x.values = Append(lv, s)
      <4>1. Append(lv, s) \in Seq(Str)
        BY <3>2, AppendProperties
      <4>2. QED
        BY <3>2, <4>1 DEF LocalName
    <3> HIDE DEF lv, x
    <3>6. /\ Len(Append(lv, s)) = Len(lv) + 1
          /\ \A i \in 1 .. Len(lv) : Append(lv, s)[i] = lv[i]
          /\ Append(lv, s)[Len(lv) + 1] = s
      BY <3>2, AppendProperties
    <3>7. Len(LNHeap') = h /\ \A a \in 1 .. h : LNHeap'[a] = IF a = p THEN x ELSE LNHeap[a]
      <4>1. h = Len(LNHeap)
        BY DEF h
      <4>2. QED
        BY ONLY <2>3, <3>1, <3>4, <3>5, <4>1, ExceptSeq
    <3>8. ASSUME NEW a \in 1 .. h, NEW i \in 1 .. Len(LNHeap'[a].values)
          PROVE  In(GValueMap', LNHeap'[a].values[i])
      <4>1. CASE a = p
        <5>1. LNHeap'[a].values = Append(lv, s) /\ i \in 1 .. Len(lv) + 1
          BY <3>5, <3>6, <3>7, <4>1
        <5>2. CASE i = Len(lv) + 1
          BY <3>3, <3>6, <5>1, <5>2
        <5>3. CASE i # Len(lv) + 1
          <6>1. i \in 1 .. Len(lv)
            BY <3>2, <5>1, <5>3
          <6>2. In(GValueMap, lv[i])
            BY <2>2, <2>3, <3>1, <6>1 DEF lv
          <6>3. QED
            BY <2>1, <3>6, <5>1, <6>1, <6>2
        <5>4. QED
          BY <5>2, <5>3
      <4>2. CASE a # p
        <5>1. LNHeap'[a] = LNHeap[a]
          BY <3>7, <4>2
        <5>2. In(GValueMap, LNHeap[a].values[i])
          BY <2>2, <2>3, <5>1
        <5>3. QED
          BY <2>1, <5>1, <5>2
      <4>3. QED
        BY <4>1, <4>2
    <3>9. QED
      BY <3>7, <3>8 DEF LocalValuesAreGlobal, Address
  <2>7. \/ UNCHANGED LNHeap
        \/ \E u \in 0 .. Len(URIMap) - 1, s \in Str : createLocalName(u, s)
        \/ \E q \in QName, s \in Str : addLocalValue(q, s)
    <3>1. ASSUME NEW s \in Str, addURI(s, None) \/ addGlobalValue(s)
          PROVE  UNCHANGED LNHeap
      BY <3>1 DEF addURI, addGlobalValue
    <3>2. ASSUME NEW u, NEW s, addPrefix(u, s) PROVE UNCHANGED LNHeap
      BY <3>2 DEF addPrefix
    <3>3. ASSUME NEW q, readPartition(q) PROVE UNCHANGED LNHeap
      BY <3>3 DEF readPartition
    <3>4. ASSUME NEW u, NEW s, addLocalName(u, s) PROVE createLocalName(u, s)
      BY <3>4 DEF addLocalName
    <3>5. ASSUME NEW q, NEW s, addValue(q, s) PROVE addLocalValue(q, s)
      BY <3>5 DEF addValue
    <3>6. ValidQNames \subseteq QName
      BY DEF ValidQNames
    <3>7. QED
      BY <1>2, <3>1, <3>2, <3>3, <3>4, <3>5, <3>6 DEF Next
  <2>8. QED
    BY <2>4, <2>5, <2>6, <2>7
<1>3. QED
  BY <1>1, <1>2

(* A value in a local partition is in the global one: addLocalValue never  *)
(* leaves one partition updated and the other not.                         *)
THEOREM LocalIsGlobal == Spec => []LocalValuesAreGlobal
<1>1. Init => LocalValuesAreGlobal
  BY NoInitialValues, EmptySeq DEF LocalValuesAreGlobal
<1>2. QED
  BY InitInvariant, StepInvariant, LocalValuesStep, <1>1, PTL DEF Spec

(***************************************************************************)
(* The table implements its partitions (StringPartitions), and the         *)
(* identifiers its setters return resolve to what they were given.  The    *)
(* step that adds a local value changes one partition only because no two  *)
(* names share a LocalName, and reaches it only because the cache is       *)
(* coherent.                                                               *)
(***************************************************************************)

(* The partitions, read through the pointers.                              *)
URINames(infos) == [u \in 1 .. Len(infos) |-> infos[u].name]
NamesIn(heap, list) == [l \in 1 .. Len(list) |-> heap[list[l]].name]
ValuesIn(heap, list) == [l \in 1 .. Len(list) |-> heap[list[l]].values]
NamesOf(heap, map) == [u \in 1 .. Len(map) |-> NamesIn(heap, map[u])]
ValuesAt(heap, map) == [u \in 1 .. Len(map) |-> ValuesIn(heap, map[u])]

(* An entry more in one of the partitions, and a value more in a LocalName. *)
Grown(f, k, e) == [f EXCEPT ![k] = Append(@, e)]
GrownIn(f, k, m, e) == [f EXCEPT ![k][m] = Append(@, e)]
Pushed(heap, a, s) == [heap EXCEPT ![a].values = Append(@, s)]

(* No LocalName belongs to two entries of LNMap (createLocalName).         *)
NoSharing ==
  \A u, v \in 1 .. Len(LNMap) :
    \A l \in 1 .. Len(LNMap[u]), m \in 1 .. Len(LNMap[v]) :
      LNMap[u][l] = LNMap[v][m] => u = v /\ l = m

(***************************************************************************)
(* Sequences given as functions                                            *)
(***************************************************************************)

(* A function on 1 .. n is a sequence of length n. *)
LEMMA FcnIsSeq ==
  ASSUME NEW S, NEW n \in Nat, NEW f \in [1 .. n -> S]
  PROVE  f \in Seq(S) /\ Len(f) = n
  BY SeqDef, LenProperties

(* g is f with the entry e behind it. *)
OneMore(S, n, f, g, e) ==
  /\ n \in Nat /\ f \in [1 .. n -> S] /\ g \in [1 .. n + 1 -> S]
  /\ (\A i \in 1 .. n : g[i] = f[i]) /\ g[n + 1] = e

(* One entry more, and the others as they were, is an Append. *)
LEMMA FcnAppend ==
  ASSUME NEW S, NEW n, NEW f, NEW g, NEW e, OneMore(S, n, f, g, e)
  PROVE  g = Append(f, e)
<1>0. /\ n \in Nat /\ f \in [1 .. n -> S] /\ g \in [1 .. n + 1 -> S]
      /\ (\A i \in 1 .. n : g[i] = f[i]) /\ g[n + 1] = e
  BY DEF OneMore
<1>1. f \in Seq(S) /\ Len(f) = n /\ g \in Seq(S) /\ Len(g) = n + 1
  BY <1>0, FcnIsSeq
<1>2. e \in S
  BY <1>0
<1> DEFINE a == Append(f, e)
<1>3. e = g[n + 1]
  BY <1>0
<1>4. /\ a \in Seq(S) /\ Len(a) = n + 1 /\ a[n + 1] = e
      /\ \A i \in 1 .. n : a[i] = f[i]
  BY <1>1, <1>2, <1>3, AppendProperties
<1> HIDE DEF a
<1>5. \A i \in 1 .. n + 1 : g[i] = a[i]
  BY <1>0, <1>3, <1>4
<1>6. g = a
  BY <1>1, <1>4, <1>5, SeqEqual
<1>7. QED
  BY <1>3, <1>6 DEF a

(* What is read through the pointers has the types of the partitions. *)
LEMMA ReadTypes ==
  ASSUME NEW heap \in Seq(LocalName), NEW list \in Seq(1 .. Len(heap))
  PROVE  /\ NamesIn(heap, list) \in [1 .. Len(list) -> Str]
         /\ ValuesIn(heap, list) \in [1 .. Len(list) -> Seq(Str)]
         /\ NamesIn(heap, list) \in Seq(Str) /\ Len(NamesIn(heap, list)) = Len(list)
         /\ ValuesIn(heap, list) \in Seq(Seq(Str)) /\ Len(ValuesIn(heap, list)) = Len(list)
<1>1. \A l \in 1 .. Len(list) : list[l] \in 1 .. Len(heap) /\ heap[list[l]] \in LocalName
  BY ElementOfSeq
<1>2. \A l \in 1 .. Len(list) : heap[list[l]].name \in Str /\ heap[list[l]].values \in Seq(Str)
  BY <1>1 DEF LocalName
<1>3. /\ NamesIn(heap, list) \in [1 .. Len(list) -> Str]
      /\ ValuesIn(heap, list) \in [1 .. Len(list) -> Seq(Str)]
  BY <1>2 DEF NamesIn, ValuesIn
<1>4. Len(list) \in Nat
  BY LenProperties
<1>5. QED
  BY <1>3, <1>4, FcnIsSeq

LEMMA MapTypes ==
  ASSUME NEW heap \in Seq(LocalName), NEW map \in Seq(Seq(1 .. Len(heap)))
  PROVE  /\ Len(map) \in Nat
         /\ NamesOf(heap, map) \in [1 .. Len(map) -> Seq(Str)]
         /\ ValuesAt(heap, map) \in [1 .. Len(map) -> Seq(Seq(Str))]
<1>1. \A u \in 1 .. Len(map) : map[u] \in Seq(1 .. Len(heap))
  BY ElementOfSeq
<1>2. \A u \in 1 .. Len(map) : /\ NamesIn(heap, map[u]) \in Seq(Str)
                               /\ ValuesIn(heap, map[u]) \in Seq(Seq(Str))
  BY <1>1, ReadTypes
<1>3. QED
  BY <1>2, LenProperties DEF NamesOf, ValuesAt

(* Lists of no names. *)
LEMMA ReadEmpty ==
  ASSUME NEW heap PROVE NamesIn(heap, << >>) = << >> /\ ValuesIn(heap, << >>) = << >>
  BY DEF NamesIn, ValuesIn

(***************************************************************************)
(* No two names share a LocalName                                          *)
(***************************************************************************)

(* What the invariant says of the pointers before and after a step. *)
LEMMA Pointers ==
  ASSUME IInv
  PROVE  /\ LNHeap \in Seq(LocalName) /\ Len(LNHeap) \in Nat
         /\ LNMap \in Seq(Seq(1 .. Len(LNHeap))) /\ Len(LNMap) \in Nat
         /\ Len(LNMap) = Len(URIMap) /\ Len(PrefixMap) = Len(URIMap)
         /\ URIMap \in Seq(URIInfo) /\ PrefixMap \in Seq(Seq(Str))
         /\ \A u \in 1 .. Len(LNMap) :
              /\ LNMap[u] \in Seq(1 .. Len(LNHeap)) /\ Len(LNMap[u]) \in Nat
              /\ \A l \in 1 .. Len(LNMap[u]) : LNMap[u][l] \in 1 .. Len(LNHeap)
<1>1. /\ LNHeap \in Seq(LocalName) /\ LNMap \in Seq(Seq(1 .. Len(LNHeap)))
      /\ Len(LNMap) = Len(URIMap) /\ Len(PrefixMap) = Len(URIMap)
      /\ URIMap \in Seq(URIInfo) /\ PrefixMap \in Seq(Seq(Str))
  BY DEF IInv, TypeOK, PartitionsInSync, Address
<1>2. \A u \in 1 .. Len(LNMap) : LNMap[u] \in Seq(1 .. Len(LNHeap))
  BY <1>1, ElementOfSeq
<1>3. \A u \in 1 .. Len(LNMap) :
        /\ Len(LNMap[u]) \in Nat
        /\ \A l \in 1 .. Len(LNMap[u]) : LNMap[u][l] \in 1 .. Len(LNHeap)
  BY <1>2, ElementOfSeq, LenProperties
<1>4. Len(LNHeap) \in Nat /\ Len(LNMap) \in Nat
  BY <1>1, LenProperties
<1>5. QED
  BY <1>1, <1>2, <1>3, <1>4

(* createURI: a list without names is added. *)
LEMMA MapAfterURI ==
  ASSUME IInv, NEW s \in Str, addURI(s, None)
  PROVE  /\ Len(LNMap') = Len(LNMap) + 1
         /\ \A u \in 1 .. Len(LNMap) : LNMap'[u] = LNMap[u]
         /\ LNMap'[Len(LNMap) + 1] = << >>
<1>1. LNMap' = Append(LNMap, << >>)
  BY DEF addURI, createURI
<1>2. << >> \in Seq(1 .. Len(LNHeap))
  BY EmptySeq
<1>3. QED
  BY <1>1, <1>2, Pointers, AppendProperties

(* createLocalName: one list gets the fresh address. *)
LEMMA MapAfterName ==
  ASSUME IInv, NEW u \in 0 .. Len(URIMap) - 1, NEW s \in Str, addLocalName(u, s)
  PROVE  /\ u + 1 \in 1 .. Len(LNMap) /\ u \in Nat
         /\ Len(LNMap') = Len(LNMap)
         /\ \A v \in 1 .. Len(LNMap) : v # u + 1 => LNMap'[v] = LNMap[v]
         /\ Len(LNMap'[u + 1]) = Len(LNMap[u + 1]) + 1
         /\ \A l \in 1 .. Len(LNMap[u + 1]) : LNMap'[u + 1][l] = LNMap[u + 1][l]
         /\ LNMap'[u + 1][Len(LNMap[u + 1]) + 1] = Len(LNHeap) + 1
         /\ Len(LNHeap') = Len(LNHeap) + 1
         /\ \A a \in 1 .. Len(LNHeap) : LNHeap'[a] = LNHeap[a]
         /\ LNHeap'[Len(LNHeap) + 1] = NewLocalName(s)
<1> DEFINE k == u + 1
           h == Len(LNHeap)
           b == Append(LNMap[k], h + 1)
<1>1. k \in 1 .. Len(LNMap) /\ u \in Nat
  BY Pointers
<1>2. LNMap' = [LNMap EXCEPT ![k] = b] /\ LNHeap' = Append(LNHeap, NewLocalName(s))
  BY DEF addLocalName, createLocalName
<1>3. NewLocalName(s) \in LocalName
  BY EmptySeq DEF NewLocalName, LocalName
<1>4. /\ Len(LNHeap') = h + 1
      /\ \A a \in 1 .. h : LNHeap'[a] = LNHeap[a]
      /\ LNHeap'[h + 1] = NewLocalName(s)
  BY <1>2, <1>3, Pointers, AppendProperties
<1>5. h \in Nat /\ LNMap[k] \in Seq(1 .. h) /\ LNMap \in Seq(Seq(1 .. h))
  BY <1>1, Pointers
<1> HIDE DEF h, k
<1>6. 1 .. h \subseteq 1 .. h + 1 /\ h + 1 \in 1 .. h + 1
  BY <1>5
<1>7. LNMap[k] \in Seq(1 .. h + 1) /\ LNMap \in Seq(Seq(1 .. h + 1))
  <2>1. Seq(1 .. h) \subseteq Seq(1 .. h + 1)
    BY <1>6, SeqMonotonic
  <2>2. QED
    BY <1>5, <2>1, SeqMonotonic
<1>8. /\ b \in Seq(1 .. h + 1) /\ Len(b) = Len(LNMap[k]) + 1
      /\ \A l \in 1 .. Len(LNMap[k]) : b[l] = LNMap[k][l]
      /\ b[Len(LNMap[k]) + 1] = h + 1
  BY <1>6, <1>7, AppendProperties
<1> HIDE DEF b
<1>9. /\ Len(LNMap') = Len(LNMap)
      /\ \A v \in 1 .. Len(LNMap) : LNMap'[v] = IF v = k THEN b ELSE LNMap[v]
  BY <1>1, <1>2, <1>7, <1>8, ExceptSeq
<1>10. QED
  BY <1>1, <1>4, <1>8, <1>9 DEF h, k

(* The predefined entries, one by one. *)
LEMMA WithXSDEntries ==
  ASSUME NEW S, NEW b \in Seq(S), Len(b) = 3, NEW w \in S
  PROVE  /\ WithXSD(b, w) \in Seq(S) /\ Len(WithXSD(b, w)) = NumPredefined
         /\ \A i \in 1 .. 3 : WithXSD(b, w)[i] = b[i]
         /\ NumPredefined = 4 => WithXSD(b, w)[4] = w
         /\ NumPredefined \in {3, 4}
<1>1. /\ Append(b, w) \in Seq(S) /\ Len(Append(b, w)) = 4
      /\ \A i \in 1 .. 3 : Append(b, w)[i] = b[i]
      /\ Append(b, w)[4] = w
  <2>1. /\ Append(b, w) \in Seq(S) /\ Len(Append(b, w)) = Len(b) + 1
        /\ \A i \in 1 .. Len(b) : Append(b, w)[i] = b[i]
        /\ Append(b, w)[Len(b) + 1] = w
    BY ONLY b \in Seq(S), w \in S, AppendProperties
  <2>2. QED
    BY <2>1
<1>2. CASE UsesSchema
  BY <1>1, <1>2 DEF WithXSD, NumPredefined
<1>3. CASE ~UsesSchema
  BY <1>3 DEF WithXSD, NumPredefined
<1>4. QED
  BY <1>2, <1>3

(* The addresses of the predefined names: three runs, one after the other. *)
LEMMA InitPointers ==
  ASSUME Init, NEW x \in Nat, NEW y \in Nat, NEW z \in Nat,
         x = Len(XMLNames), y = Len(XSINames), z = Len(XSDNames)
  PROVE  /\ Len(BaseNames) = x + y
         /\ NumPredefined \in {3, 4} /\ Len(LNMap) = NumPredefined
         /\ LNMap[1] = << >> /\ LNMap[2] = Addresses(0, x) /\ LNMap[3] = Addresses(x, y)
         /\ NumPredefined = 4 => LNMap[4] = Addresses(x + y, z)
<1>1. x \in Nat /\ y \in Nat /\ z \in Nat
  OBVIOUS
<1>2. Len(BaseNames) = x + y
  <2>1. /\ NewLocalNames(XMLNames) \in Seq(LocalName) /\ NewLocalNames(XSINames) \in Seq(LocalName)
        /\ Len(NewLocalNames(XMLNames)) = x /\ Len(NewLocalNames(XSINames)) = y
    BY StringTableAssumption, NewLocalNamesType
  <2>2. BaseNames = NewLocalNames(XMLNames) \o NewLocalNames(XSINames)
    BY DEF BaseNames
  <2>3. QED
    BY ONLY <2>1, <2>2, ConcatProperties
<1> DEFINE A1 == Addresses(0, x)
           A2 == Addresses(x, y)
           A3 == Addresses(x + y, z)
           E == << >>
<1>3. E \in Seq(Nat) /\ A1 \in Seq(Nat) /\ A2 \in Seq(Nat) /\ A3 \in Seq(Nat)
  <2> DEFINE M == 1 .. x + y + z
  <2>1. /\ 0 + x <= x + y + z /\ x + y <= x + y + z /\ (x + y) + z <= x + y + z
        /\ x + y \in Nat /\ x + y + z \in Nat
    BY <1>1
  <2>2. A1 \in Seq(M)
    BY <1>1, <2>1, AddressesType
  <2>3. A2 \in Seq(M)
    BY <1>1, <2>1, AddressesType
  <2>4. A3 \in Seq(M)
    BY <1>1, <2>1, AddressesType
  <2>5. M \subseteq Nat
    OBVIOUS
  <2> HIDE DEF M
  <2>6. QED
    BY <2>2, <2>3, <2>4, <2>5, SeqMonotonic, EmptySeq
<1> DEFINE b == << E, A1, A2 >>
<1>4. LNMap = WithXSD(b, A3)
  BY <1>2 DEF Init
<1> HIDE DEF A1, A2, A3, E
<1>5. /\ NumPredefined \in {3, 4} /\ Len(LNMap) = NumPredefined
      /\ LNMap[1] = E /\ LNMap[2] = A1 /\ LNMap[3] = A2
      /\ NumPredefined = 4 => LNMap[4] = A3
  <2>1. b \in Seq(Seq(Nat)) /\ Len(b) = 3 /\ b[1] = E /\ b[2] = A1 /\ b[3] = A2
    BY <1>3
  <2> HIDE DEF b
  <2>2. A3 \in Seq(Nat)
    BY <1>3
  <2>3. /\ Len(WithXSD(b, A3)) = NumPredefined
        /\ \A i \in 1 .. 3 : WithXSD(b, A3)[i] = b[i]
        /\ NumPredefined = 4 => WithXSD(b, A3)[4] = A3
        /\ NumPredefined \in {3, 4}
    <3>1. b \in Seq(Seq(Nat)) /\ Len(b) = 3
      BY <2>1
    <3>2. /\ WithXSD(b, A3) \in Seq(Seq(Nat)) /\ Len(WithXSD(b, A3)) = NumPredefined
          /\ \A i \in 1 .. 3 : WithXSD(b, A3)[i] = b[i]
          /\ NumPredefined = 4 => WithXSD(b, A3)[4] = A3
          /\ NumPredefined \in {3, 4}
      BY ONLY <2>2, <3>1, WithXSDEntries
    <3>3. QED
      BY ONLY <3>2
  <2>4. 1 \in 1 .. 3 /\ 2 \in 1 .. 3 /\ 3 \in 1 .. 3
    OBVIOUS
  <2>5. QED
    BY ONLY <1>4, <2>1, <2>3, <2>4
<1>6. QED
  BY ONLY <1>1, <1>2, <1>5 DEF A1, A2, A3, E

(* One of n consecutive addresses. *)
LEMMA AddressAt ==
  ASSUME NEW b \in Nat, NEW n \in Nat
  PROVE  /\ Len(Addresses(b, n)) = n
         /\ \A l \in 1 .. n : Addresses(b, n)[l] = b + l
<1>1. b + n \in Nat /\ b + n <= b + n
  OBVIOUS
<1>2. Len(Addresses(b, n)) = n
  BY <1>1, AddressesType
<1>3. QED
  BY <1>2 DEF Addresses

(* The predefined addresses are disjoint (createInitialEntries). *)
LEMMA SharingInit == ASSUME Init PROVE NoSharing
<1> DEFINE x == Len(XMLNames)
           y == Len(XSINames)
           z == Len(XSDNames)
           A1 == Addresses(0, x)
           A2 == Addresses(x, y)
           A3 == Addresses(x + y, z)
<1>1. /\ x \in Nat /\ y \in Nat /\ z \in Nat
      /\ NumPredefined \in {3, 4} /\ Len(LNMap) = NumPredefined
      /\ LNMap[1] = << >> /\ LNMap[2] = A1 /\ LNMap[3] = A2
      /\ NumPredefined = 4 => LNMap[4] = A3
  <2> HIDE DEF x, y, z
  <2>1. /\ x = Len(XMLNames) /\ y = Len(XSINames) /\ z = Len(XSDNames)
        /\ x \in Nat /\ y \in Nat /\ z \in Nat
    BY StringTableAssumption, LenProperties DEF x, y, z
  <2>2. QED
    BY ONLY Init, <2>1, InitPointers
<1> HIDE DEF x, y, z
<1>2. /\ Len(A1) = x /\ Len(A2) = y /\ Len(A3) = z
      /\ \A l \in 1 .. x : A1[l] = l
      /\ \A l \in 1 .. y : A2[l] = x + l
      /\ \A l \in 1 .. z : A3[l] = (x + y) + l
  <2>1. x + y \in Nat /\ \A l \in 1 .. x : 0 + l = l
    BY <1>1
  <2>2. Len(A1) = x /\ \A l \in 1 .. x : A1[l] = 0 + l
    BY ONLY <1>1, 0 \in Nat, AddressAt
  <2>3. Len(A2) = y /\ \A l \in 1 .. y : A2[l] = x + l
    BY ONLY <1>1, AddressAt
  <2>4. Len(A3) = z /\ \A l \in 1 .. z : A3[l] = (x + y) + l
    BY ONLY <1>1, <2>1, AddressAt
  <2>5. QED
    BY <2>1, <2>2, <2>3, <2>4
<1> HIDE DEF A1, A2, A3
<1> DEFINE Entry(w, i) == \/ w = 2 /\ i \in 1 .. x /\ LNMap[w][i] = i
                          \/ w = 3 /\ i \in 1 .. y /\ LNMap[w][i] = x + i
                          \/ w = 4 /\ i \in 1 .. z /\ LNMap[w][i] = (x + y) + i
<1>3. ASSUME NEW w \in 1 .. Len(LNMap), NEW i \in 1 .. Len(LNMap[w])
      PROVE  Entry(w, i)
  <2>1. w \in {1, 2, 3} \/ (w = 4 /\ NumPredefined = 4)
    BY <1>1
  <2>2. w # 1
    BY <1>1, EmptySeq
  <2>3. QED
    BY <1>1, <1>2, <2>1, <2>2
<1>4. ASSUME NEW u \in 1 .. Len(LNMap), NEW v \in 1 .. Len(LNMap),
             NEW l \in 1 .. Len(LNMap[u]), NEW m \in 1 .. Len(LNMap[v]),
             LNMap[u][l] = LNMap[v][m]
      PROVE  u = v /\ l = m
  <2>1. Entry(u, l) /\ Entry(v, m)
    BY <1>3
  <2>2. QED
    BY <1>1, <1>4, <2>1
<1>5. QED
  BY <1>4 DEF NoSharing

LEMMA SharingStep ==
  ASSUME IInv, NoSharing, [Next]_tableVars
  PROVE  NoSharing'
<1>1. ASSUME NEW s \in Str, addURI(s, None) PROVE NoSharing'
  <2> DEFINE n == Len(LNMap)
  <2>1. /\ n \in Nat /\ Len(LNMap') = n + 1
        /\ \A u \in 1 .. n : LNMap'[u] = LNMap[u]
        /\ Len(LNMap'[n + 1]) = 0
    BY <1>1, MapAfterURI, Pointers, EmptySeq
  <2> HIDE DEF n
  <2>2. ASSUME NEW u \in 1 .. n + 1, NEW l \in 1 .. Len(LNMap'[u])
        PROVE  u \in 1 .. n
    BY <2>1, <2>2
  <2>3. QED
    BY <2>1, <2>2 DEF NoSharing, n
<1>2. ASSUME NEW k \in 0 .. Len(URIMap) - 1, NEW s \in Str, addLocalName(k, s)
      PROVE  NoSharing'
  <2> SUFFICES ASSUME NEW u \in 1 .. Len(LNMap'), NEW v \in 1 .. Len(LNMap'),
                      NEW l \in 1 .. Len(LNMap'[u]), NEW m \in 1 .. Len(LNMap'[v]),
                      LNMap'[u][l] = LNMap'[v][m]
               PROVE  u = v /\ l = m
    BY DEF NoSharing
  <2> DEFINE h == Len(LNHeap)
             Old(w, i) == w \in 1 .. Len(LNMap) /\ i \in 1 .. Len(LNMap[w])
                            /\ LNMap'[w][i] = LNMap[w][i] /\ LNMap[w][i] \in 1 .. h
             New(w, i) == w = k + 1 /\ i = Len(LNMap[k + 1]) + 1 /\ LNMap'[w][i] = h + 1
  <2>1. h \in Nat
    BY Pointers
  <2>2. ASSUME NEW w \in 1 .. Len(LNMap'), NEW i \in 1 .. Len(LNMap'[w])
        PROVE  Old(w, i) \/ New(w, i)
    <3>1. w \in 1 .. Len(LNMap) /\ Len(LNMap[w]) \in Nat
      BY <1>2, MapAfterName, Pointers
    <3>2. CASE w = k + 1 /\ i = Len(LNMap[k + 1]) + 1
      BY <1>2, <3>2, MapAfterName
    <3>3. CASE w = k + 1 /\ i # Len(LNMap[k + 1]) + 1
      <4>1. Len(LNMap'[w]) = Len(LNMap[w]) + 1
        BY <1>2, <3>3, MapAfterName
      <4>2. i \in 1 .. Len(LNMap[w])
        BY <3>1, <3>3, <4>1
      <4>3. QED
        BY <1>2, <3>1, <3>3, <4>2, MapAfterName, Pointers
    <3>4. CASE w # k + 1
      BY <1>2, <3>1, <3>4, MapAfterName, Pointers
    <3>5. QED
      BY <3>2, <3>3, <3>4
  <2>3. (Old(u, l) \/ New(u, l)) /\ (Old(v, m) \/ New(v, m))
    BY <2>2
  <2>4. CASE Old(u, l) /\ Old(v, m)
    <3>1. /\ u \in 1 .. Len(LNMap) /\ l \in 1 .. Len(LNMap[u])
          /\ v \in 1 .. Len(LNMap) /\ m \in 1 .. Len(LNMap[v])
          /\ LNMap[u][l] = LNMap[v][m]
      BY <2>4
    <3>2. QED
      BY ONLY <3>1, NoSharing DEF NoSharing
  <2>5. CASE New(u, l) /\ New(v, m)
    BY <2>5
  <2>6. ~ (Old(u, l) /\ New(v, m)) /\ ~ (New(u, l) /\ Old(v, m))
    <3> HIDE DEF h
    <3>1. ASSUME NEW a \in 1 .. h PROVE a # h + 1
      BY ONLY <2>1, <3>1
    <3>2. QED
      BY <3>1
  <2>7. QED
    BY <2>3, <2>4, <2>5, <2>6
<1>3. ASSUME UNCHANGED LNMap PROVE NoSharing'
  BY <1>3 DEF NoSharing
<1>4. \/ UNCHANGED LNMap
      \/ \E s \in Str : addURI(s, None)
      \/ \E k \in 0 .. Len(URIMap) - 1, s \in Str : addLocalName(k, s)
  BY DEF Next, addPrefix, addGlobalValue, addValue, addLocalValue, readPartition, tableVars
<1>5. QED
  BY <1>1, <1>2, <1>3, <1>4

(***************************************************************************)
(* What a step does to the partitions read through the pointers            *)
(***************************************************************************)

(* A list without names is added: partitions without entries are. *)
LEMMA ReadAfterURI ==
  ASSUME NEW heap \in Seq(LocalName), NEW map \in Seq(Seq(1 .. Len(heap))),
         NEW map2 \in Seq(Seq(1 .. Len(heap))), Len(map2) = Len(map) + 1,
         \A u \in 1 .. Len(map) : map2[u] = map[u],
         map2[Len(map) + 1] = << >>
  PROVE  /\ NamesOf(heap, map2) = Append(NamesOf(heap, map), << >>)
         /\ ValuesAt(heap, map2) = Append(ValuesAt(heap, map), << >>)
<1> DEFINE n == Len(map)
           f == NamesOf(heap, map)
           g == NamesOf(heap, map2)
           v == ValuesAt(heap, map)
           w == ValuesAt(heap, map2)
<1>1. /\ n \in Nat
      /\ f \in [1 .. n -> Seq(Str)] /\ v \in [1 .. n -> Seq(Seq(Str))]
      /\ g \in [1 .. n + 1 -> Seq(Str)] /\ w \in [1 .. n + 1 -> Seq(Seq(Str))]
  <2>1. /\ n \in Nat
        /\ f \in [1 .. n -> Seq(Str)] /\ v \in [1 .. n -> Seq(Seq(Str))]
    BY ONLY heap \in Seq(LocalName), map \in Seq(Seq(1 .. Len(heap))), MapTypes
  <2>2. /\ g \in [1 .. Len(map2) -> Seq(Str)]
        /\ w \in [1 .. Len(map2) -> Seq(Seq(Str))]
    BY ONLY heap \in Seq(LocalName), map2 \in Seq(Seq(1 .. Len(heap))), MapTypes
  <2> HIDE DEF f, g, v, w
  <2>3. QED
    BY <2>1, <2>2
<1>2. /\ \A i \in 1 .. n : i \in 1 .. n + 1 /\ g[i] = f[i]
      /\ \A i \in 1 .. n : w[i] = v[i]
  <2>1. \A i \in 1 .. n : i \in 1 .. Len(map2) /\ i \in 1 .. n + 1
    BY <1>1
  <2>2. \A i \in 1 .. n : map2[i] = map[i]
    OBVIOUS
  <2>3. QED
    BY <2>1, <2>2 DEF NamesOf, ValuesAt
<1>3. n + 1 \in 1 .. n + 1 /\ g[n + 1] = << >> /\ w[n + 1] = << >>
  <2>1. n + 1 \in 1 .. Len(map2) /\ n + 1 \in 1 .. n + 1 /\ map2[n + 1] = << >>
    BY <1>1
  <2>2. g[n + 1] = NamesIn(heap, map2[n + 1]) /\ w[n + 1] = ValuesIn(heap, map2[n + 1])
    BY ONLY <2>1 DEF NamesOf, ValuesAt
  <2>3. QED
    BY ONLY <2>1, <2>2, ReadEmpty
<1> HIDE DEF n, f, g, v, w
<1>4. g = Append(f, << >>)
  <2>1. OneMore(Seq(Str), n, f, g, << >>)
    BY ONLY <1>1, <1>2, <1>3 DEF OneMore
  <2>2. QED
    BY ONLY <2>1, FcnAppend
<1>5. w = Append(v, << >>)
  <2>1. OneMore(Seq(Seq(Str)), n, v, w, << >>)
    BY ONLY <1>1, <1>2, <1>3 DEF OneMore
  <2>2. QED
    BY ONLY <2>1, FcnAppend
<1>6. QED
  BY <1>3, <1>4, <1>5 DEF f, g, v, w

(* A LocalName is allocated and its address appended to one list. *)
LEMMA ReadAfterName ==
  ASSUME NEW s \in Str,
         NEW heap \in Seq(LocalName), NEW map \in Seq(Seq(1 .. Len(heap))),
         NEW heap2 \in Seq(LocalName), NEW map2 \in Seq(Seq(1 .. Len(heap2))),
         NEW k \in 1 .. Len(map), Len(map2) = Len(map),
         \A u \in 1 .. Len(map) : u # k => map2[u] = map[u],
         Len(map2[k]) = Len(map[k]) + 1,
         \A l \in 1 .. Len(map[k]) : map2[k][l] = map[k][l],
         map2[k][Len(map[k]) + 1] = Len(heap) + 1,
         \A a \in 1 .. Len(heap) : heap2[a] = heap[a],
         heap2[Len(heap) + 1] = NewLocalName(s)
  PROVE  /\ NamesOf(heap2, map2) = Grown(NamesOf(heap, map), k, s)
         /\ ValuesAt(heap2, map2) = Grown(ValuesAt(heap, map), k, << >>)
<1> DEFINE n == Len(map)
           c == Len(map[k])
           f == NamesIn(heap, map[k])
           g == NamesIn(heap2, map2[k])
           v == ValuesIn(heap, map[k])
           w == ValuesIn(heap2, map2[k])
<1>1. /\ \A u \in 1 .. n : map[u] \in Seq(1 .. Len(heap)) /\ map2[u] \in Seq(1 .. Len(heap2))
      /\ n \in Nat /\ c \in Nat
  BY ElementOfSeq, LenProperties
<1>2. \A u \in 1 .. n : \A l \in 1 .. Len(map[u]) : heap2[map[u][l]] = heap[map[u][l]]
  BY <1>1, ElementOfSeq
<1>3. ASSUME NEW u \in 1 .. n, u # k
      PROVE  /\ NamesIn(heap2, map2[u]) = NamesIn(heap, map[u])
             /\ ValuesIn(heap2, map2[u]) = ValuesIn(heap, map[u])
  <2>1. map2[u] = map[u] /\ \A l \in 1 .. Len(map[u]) : heap2[map[u][l]] = heap[map[u][l]]
    BY <1>2, <1>3
  <2>2. QED
    BY ONLY <2>1 DEF NamesIn, ValuesIn
<1>4. /\ f \in [1 .. c -> Str] /\ v \in [1 .. c -> Seq(Str)]
      /\ g \in [1 .. c + 1 -> Str] /\ w \in [1 .. c + 1 -> Seq(Str)]
  <2>1. map[k] \in Seq(1 .. Len(heap)) /\ map2[k] \in Seq(1 .. Len(heap2))
    BY <1>1
  <2>2. QED
    BY <2>1, ReadTypes
<1>5. ASSUME NEW i \in 1 .. c PROVE g[i] = f[i] /\ w[i] = v[i]
  <2>1. i \in 1 .. Len(map[k]) /\ i \in 1 .. Len(map2[k])
    BY <1>1
  <2>2. map2[k][i] = map[k][i] /\ heap2[map2[k][i]] = heap[map[k][i]]
    BY <1>2
  <2>3. QED
    BY <2>1, <2>2 DEF NamesIn, ValuesIn
<1>6. g[c + 1] = s /\ w[c + 1] = << >>
  <2>1. c + 1 \in 1 .. Len(map2[k]) /\ heap2[map2[k][c + 1]] = NewLocalName(s)
    BY <1>1
  <2>2. /\ g[c + 1] = heap2[map2[k][c + 1]].name
        /\ w[c + 1] = heap2[map2[k][c + 1]].values
    BY ONLY <2>1 DEF NamesIn, ValuesIn
  <2>3. QED
    BY ONLY <2>1, <2>2 DEF NewLocalName
<1>7. g = Append(f, s) /\ w = Append(v, << >>)
  <2>1. \A i \in 1 .. c : g[i] = f[i]
    BY ONLY <1>5
  <2>2. \A i \in 1 .. c : w[i] = v[i]
    BY ONLY <1>5
  <2> HIDE DEF c, f, g, v, w
  <2>3. g = Append(f, s)
    <3>1. OneMore(Str, c, f, g, s)
      BY ONLY <1>1, <1>4, <1>6, <2>1 DEF OneMore
    <3>2. QED
      BY ONLY <3>1, FcnAppend
  <2>4. w = Append(v, << >>)
    <3>1. OneMore(Seq(Str), c, v, w, << >>)
      BY ONLY <1>1, <1>4, <1>6, <2>2 DEF OneMore
    <3>2. QED
      BY ONLY <3>1, FcnAppend
  <2>5. QED
    BY ONLY <2>3, <2>4
<1> HIDE DEF f, g, v, w
<1>8. QED
  BY <1>3, <1>7 DEF NamesOf, ValuesAt, Grown, f, g, v, w

(* The k-th list holds the address of its m-th entry, and no other does. *)
Alone(map, k, m) ==
  \A u \in 1 .. Len(map) : \A l \in 1 .. Len(map[u]) :
    map[u][l] = map[k][m] => u = k /\ l = m

(* A value is pushed to one LocalName, which no other entry shares. *)
LEMMA ReadAfterValue ==
  ASSUME NEW s \in Str,
         NEW heap \in Seq(LocalName), NEW map \in Seq(Seq(1 .. Len(heap))),
         NEW k \in 1 .. Len(map), NEW m \in 1 .. Len(map[k]),
         NEW a, a = map[k][m], Alone(map, k, m)
  PROVE  /\ NamesOf(Pushed(heap, a, s), map) = NamesOf(heap, map)
         /\ ValuesAt(Pushed(heap, a, s), map) = GrownIn(ValuesAt(heap, map), k, m, s)
<1> DEFINE heap2 == Pushed(heap, a, s)
           n == Len(map)
<1>1. \A u \in 1 .. n : \A l \in 1 .. Len(map[u]) :
        map[u][l] \in 1 .. Len(heap) /\ heap[map[u][l]] \in LocalName
  BY ElementOfSeq
<1>2. DOMAIN heap = 1 .. Len(heap)
  BY LenProperties
<1>3. \A u \in 1 .. n : \A l \in 1 .. Len(map[u]) :
        /\ heap2[map[u][l]].name = heap[map[u][l]].name
        /\ heap2[map[u][l]].values =
             IF u = k /\ l = m THEN Append(heap[a].values, s) ELSE heap[map[u][l]].values
  <2>1. a \in 1 .. Len(heap) /\ heap[a] \in LocalName
    BY <1>1
  <2>2. \A c \in 1 .. Len(heap) :
          heap2[c] = IF c = a THEN [heap[a] EXCEPT !.values = Append(@, s)] ELSE heap[c]
    BY <1>2 DEF Pushed
  <2>3. /\ [heap[a] EXCEPT !.values = Append(@, s)].name = heap[a].name
        /\ [heap[a] EXCEPT !.values = Append(@, s)].values = Append(heap[a].values, s)
    BY <2>1 DEF LocalName
  <2> HIDE DEF heap2
  <2>4. \A u \in 1 .. n : \A l \in 1 .. Len(map[u]) : map[u][l] = a => u = k /\ l = m
    BY DEF Alone
  <2>5. QED
    BY <1>1, <2>2, <2>3, <2>4
<1> HIDE DEF heap2
<1>4. NamesOf(heap2, map) = NamesOf(heap, map)
  BY <1>3 DEF NamesOf, NamesIn
<1>5. ASSUME NEW u \in 1 .. n
      PROVE  ValuesIn(heap2, map[u]) =
               IF u = k THEN [ValuesIn(heap, map[u]) EXCEPT ![m] = Append(@, s)]
                        ELSE ValuesIn(heap, map[u])
  <2>1. CASE u # k
    BY <1>3, <2>1 DEF ValuesIn
  <2>2. CASE u = k
    <3>1. \A l \in 1 .. Len(map[k]) :
            heap2[map[k][l]].values =
              IF l = m THEN Append(heap[a].values, s) ELSE heap[map[k][l]].values
      BY <1>3
    <3>2. ValuesIn(heap2, map[k]) =
            [l \in 1 .. Len(map[k]) |->
               IF l = m THEN Append(heap[a].values, s) ELSE heap[map[k][l]].values]
      BY <3>1 DEF ValuesIn
    <3>3. [ValuesIn(heap, map[k]) EXCEPT ![m] = Append(@, s)] =
            [l \in 1 .. Len(map[k]) |->
               IF l = m THEN Append(heap[a].values, s) ELSE heap[map[k][l]].values]
      BY DEF ValuesIn
    <3>4. QED
      BY <2>2, <3>2, <3>3
  <2>3. QED
    BY <2>1, <2>2
<1>6. QED
  BY <1>4, <1>5 DEF ValuesAt, GrownIn, heap2

(***************************************************************************)
(* Every step maps to a step or a stutter                                  *)
(***************************************************************************)

(* addURI is NewURI: one entry more in every partition. *)
LEMMA AddURIMaps ==
  ASSUME IInv, IInv', NEW s \in Str, addURI(s, None)
  PROVE  Partitions!NewURI(s)
<1> DEFINE n == Len(URIMap)
           f == URINames(URIMap)
           g == URINames(URIMap')
<1>1. /\ URIMap' = Append(URIMap, NewURIInfo(s, None)) /\ NewURIInfo(s, None) \in URIInfo
      /\ NewURIInfo(s, None).name = s
      /\ PrefixMap' = Append(PrefixMap, << >>)
      /\ UNCHANGED << GValueMap, LNHeap >>
  BY NewURIType DEF addURI, createURI, PrefixesOf, NewURIInfo
<1>2. /\ n \in Nat /\ Len(URIMap') = n + 1
      /\ URIMap \in Seq(URIInfo) /\ URIMap' \in Seq(URIInfo)
      /\ \A u \in 1 .. n : URIMap'[u] = URIMap[u]
      /\ URIMap'[n + 1].name = s
  BY <1>1, Pointers, LenProperties, AppendProperties
<1>3. /\ \A u \in 1 .. n : URIMap[u].name \in Str
      /\ \A u \in 1 .. n + 1 : URIMap'[u].name \in Str
  <2>1. /\ \A u \in 1 .. Len(URIMap) : URIMap[u] \in URIInfo
        /\ \A u \in 1 .. Len(URIMap') : URIMap'[u] \in URIInfo
    BY ONLY <1>2, ElementOfSeq
  <2>2. QED
    BY <1>2, <2>1 DEF URIInfo
<1>4. f \in [1 .. n -> Str] /\ g \in [1 .. n + 1 -> Str] /\ n \in Nat
  BY <1>2, <1>3 DEF URINames
<1>5. g[n + 1] = s /\ \A u \in 1 .. n : g[u] = f[u]
  BY <1>2 DEF URINames
<1>6. g = Append(f, s)
  <2> HIDE DEF f, g, n
  <2>1. OneMore(Str, n, f, g, s)
    BY ONLY <1>4, <1>5 DEF OneMore
  <2>2. QED
    BY ONLY <2>1, FcnAppend
<1>7. /\ NamesOf(LNHeap, LNMap') = Append(NamesOf(LNHeap, LNMap), << >>)
      /\ ValuesAt(LNHeap, LNMap') = Append(ValuesAt(LNHeap, LNMap), << >>)
  <2>1. /\ LNHeap \in Seq(LocalName) /\ LNMap \in Seq(Seq(1 .. Len(LNHeap)))
        /\ LNMap' \in Seq(Seq(1 .. Len(LNHeap)))
    BY <1>1 DEF IInv, TypeOK, Address
  <2>2. /\ Len(LNMap') = Len(LNMap) + 1
        /\ \A u \in 1 .. Len(LNMap) : LNMap'[u] = LNMap[u]
        /\ LNMap'[Len(LNMap) + 1] = << >>
    BY MapAfterURI
  <2>3. QED
    BY ONLY <2>1, <2>2, ReadAfterURI
<1>8. QED
  BY <1>1, <1>6, <1>7 DEF Partitions!NewURI, URINames, NamesOf, NamesIn, ValuesAt, ValuesIn

(* The names of the URIs, whatever becomes of their counts. *)
LEMMA NamesKept ==
  ASSUME NEW infos, NEW infos2, Len(infos2) = Len(infos),
         \A u \in 1 .. Len(infos) : infos2[u].name = infos[u].name
  PROVE  URINames(infos2) = URINames(infos)
  BY DEF URINames

(* addPrefix is NewPrefix: a count goes up, and one partition grows. *)
LEMMA AddPrefixMaps ==
  ASSUME IInv, NEW u \in 0 .. Len(URIMap) - 1, NEW s \in Str, addPrefix(u, s)
  PROVE  u + 1 \in 1 .. Len(URIMap) /\ Partitions!NewPrefix(u + 1, s)
<1> DEFINE k == u + 1
<1>1. k \in 1 .. Len(URIMap)
  BY Pointers
<1>2. /\ URIMap' = [URIMap EXCEPT ![k].prefixElts = @ + 1]
      /\ PrefixMap' = [PrefixMap EXCEPT ![k] = Append(@, s)]
      /\ UNCHANGED << LNMap, LNHeap, GValueMap >>
  BY DEF addPrefix
<1>3. DOMAIN URIMap = 1 .. Len(URIMap) /\ URIMap \in Seq(URIInfo)
      /\ Len(URIMap) \in Nat
      /\ \A v \in 1 .. Len(URIMap) : URIMap[v] \in URIInfo
  BY Pointers, LenProperties, ElementOfSeq
<1> HIDE DEF k
<1>4. /\ Len(URIMap') = Len(URIMap)
      /\ \A v \in 1 .. Len(URIMap) : URIMap'[v].name = URIMap[v].name
  BY <1>1, <1>2, <1>3, LenProperties DEF URIInfo
<1>5. URINames(URIMap') = URINames(URIMap)
  BY <1>4, NamesKept
<1>6. QED
  BY <1>1, <1>2, <1>5 DEF k, Partitions!NewPrefix, URINames

(* addLocalName is NewLocalName: a name without values. *)
LEMMA AddLocalNameMaps ==
  ASSUME IInv, IInv', NEW u \in 0 .. Len(URIMap) - 1, NEW s \in Str, addLocalName(u, s)
  PROVE  u + 1 \in 1 .. Len(URIMap) /\ Partitions!NewLocalName(u + 1, s)
<1> DEFINE k == u + 1
<1>1. k \in 1 .. Len(URIMap) /\ k \in 1 .. Len(LNMap)
  <2>1. Len(LNMap) = Len(URIMap) /\ Len(LNMap) \in Nat
    BY Pointers
  <2>2. u + 1 \in 1 .. Len(URIMap)
    BY <2>1
  <2> QED BY <2>1, <2>2
<1>2. /\ URIMap' = [URIMap EXCEPT ![k].lnElts = @ + 1]
      /\ UNCHANGED << PrefixMap, GValueMap >>
  BY DEF addLocalName
<1>3. DOMAIN URIMap = 1 .. Len(URIMap) /\ URIMap \in Seq(URIInfo)
      /\ Len(URIMap) \in Nat
      /\ \A v \in 1 .. Len(URIMap) : URIMap[v] \in URIInfo
  BY Pointers, LenProperties, ElementOfSeq
<1>4. /\ Len(LNMap') = Len(LNMap)
      /\ \A v \in 1 .. Len(LNMap) : v # k => LNMap'[v] = LNMap[v]
      /\ Len(LNMap'[k]) = Len(LNMap[k]) + 1
      /\ \A l \in 1 .. Len(LNMap[k]) : LNMap'[k][l] = LNMap[k][l]
      /\ LNMap'[k][Len(LNMap[k]) + 1] = Len(LNHeap) + 1
      /\ \A a \in 1 .. Len(LNHeap) : LNHeap'[a] = LNHeap[a]
      /\ LNHeap'[Len(LNHeap) + 1] = NewLocalName(s)
  BY MapAfterName
<1>5. /\ LNHeap \in Seq(LocalName) /\ LNMap \in Seq(Seq(1 .. Len(LNHeap)))
      /\ LNHeap' \in Seq(LocalName) /\ LNMap' \in Seq(Seq(1 .. Len(LNHeap')))
  BY DEF IInv, TypeOK, Address
<1> HIDE DEF k
<1>6. /\ NamesOf(LNHeap', LNMap') = Grown(NamesOf(LNHeap, LNMap), k, s)
      /\ ValuesAt(LNHeap', LNMap') = Grown(ValuesAt(LNHeap, LNMap), k, << >>)
  BY ONLY s \in Str, <1>1, <1>4, <1>5, ReadAfterName
<1>7. /\ Len(URIMap') = Len(URIMap)
      /\ \A v \in 1 .. Len(URIMap) : URIMap'[v].name = URIMap[v].name
  BY <1>1, <1>2, <1>3, LenProperties DEF URIInfo
<1>8. URINames(URIMap') = URINames(URIMap)
  BY <1>7, NamesKept
<1>9. QED
  BY <1>1, <1>2, <1>6, <1>8
  DEF k, Partitions!NewLocalName, Grown, URINames, NamesOf, NamesIn, ValuesAt, ValuesIn

(* addValue is NewValue: the address the cache answers with is the one of  *)
(* the qualified name, and of no other.                                    *)
LEMMA AddValueMaps ==
  ASSUME IInv, NoSharing, NEW q \in QName, NEW s \in Str, addValue(q, s)
  PROVE  /\ q.uri + 1 \in 1 .. Len(URIMap)
         /\ q.local + 1 \in 1 .. Len(LNMap[q.uri + 1])
         /\ Partitions!NewValue(q.uri + 1, q.local + 1, s)
<1> DEFINE k == q.uri + 1
           m == q.local + 1
<1>1. /\ ValidQName(q) /\ GValueMap' = Append(GValueMap, s)
      /\ LNHeap' = [LNHeap EXCEPT ![LVPartition(q)].values = Append(@, s)]
      /\ UNCHANGED << URIMap, PrefixMap, LNMap >>
  BY DEF addValue, addLocalValue, createGlobalValue
<1>2. k \in 1 .. Len(LNMap) /\ m \in 1 .. Len(LNMap[k]) /\ k \in 1 .. Len(URIMap)
  BY <1>1, ValidHasAddress, Pointers DEF IInv
<1>3. LVPartition(q) = LNMap[k][m]
  BY <1>1, CachedLookup DEF At
<1>4. LNHeap \in Seq(LocalName) /\ LNMap \in Seq(Seq(1 .. Len(LNHeap)))
  BY Pointers
<1> HIDE DEF k, m
<1>5. Alone(LNMap, k, m)
  BY ONLY <1>2, NoSharing DEF NoSharing, Alone
<1>6. LNHeap' = Pushed(LNHeap, LNMap[k][m], s)
  BY <1>1, <1>3 DEF Pushed
<1>7. /\ NamesOf(LNHeap', LNMap) = NamesOf(LNHeap, LNMap)
      /\ ValuesAt(LNHeap', LNMap) = GrownIn(ValuesAt(LNHeap, LNMap), k, m, s)
  <2> DEFINE a == LNMap[k][m]
  <2>1. LNHeap' = Pushed(LNHeap, a, s) /\ a = LNMap[k][m]
    BY <1>6
  <2> HIDE DEF a
  <2>2. /\ NamesOf(Pushed(LNHeap, a, s), LNMap) = NamesOf(LNHeap, LNMap)
        /\ ValuesAt(Pushed(LNHeap, a, s), LNMap) = GrownIn(ValuesAt(LNHeap, LNMap), k, m, s)
    BY ONLY s \in Str, <1>2, <1>4, <1>5, <2>1, ReadAfterValue
  <2>3. QED
    BY <2>1, <2>2
<1>8. /\ NamesOf(LNHeap', LNMap') = NamesOf(LNHeap, LNMap)
      /\ ValuesAt(LNHeap', LNMap') = GrownIn(ValuesAt(LNHeap, LNMap), k, m, s)
      /\ URINames(URIMap') = URINames(URIMap) /\ PrefixMap' = PrefixMap
  BY <1>1, <1>7
<1>9. Partitions!NewValue(k, m, s)
  BY <1>1, <1>8
  DEF Partitions!NewValue, GrownIn, URINames, NamesOf, NamesIn, ValuesAt, ValuesIn
<1>10. QED
  BY <1>2, <1>9 DEF k, m

(***************************************************************************)
(* The table setup() leaves maps to the predefined partitions              *)
(***************************************************************************)

(* What has the predefined entries is the sequence of them. *)
LEMMA IsWithXSD ==
  ASSUME NEW S, NEW b \in Seq(S), Len(b) = 3, NEW w \in S, NEW f \in Seq(S),
         Len(f) = NumPredefined, \A i \in 1 .. 3 : f[i] = b[i],
         NumPredefined = 4 => f[4] = w
  PROVE  f = WithXSD(b, w)
<1> DEFINE g == WithXSD(b, w)
<1>1. /\ g \in Seq(S) /\ Len(g) = NumPredefined
      /\ \A i \in 1 .. 3 : g[i] = b[i]
      /\ NumPredefined = 4 => g[4] = w
      /\ NumPredefined \in {3, 4}
  BY WithXSDEntries
<1> HIDE DEF g
<1>2. \A i \in 1 .. Len(f) : f[i] = g[i]
  <2>1. \A i \in 1 .. Len(f) : i \in 1 .. 3 \/ (i = 4 /\ NumPredefined = 4)
    BY <1>1
  <2>2. QED
    BY <1>1, <2>1
<1>3. f = g
  BY <1>1, <1>2, SeqEqual
<1>4. QED
  BY <1>3 DEF g

(* The names read from a run of fresh LocalNames. *)
LEMMA ReadRun ==
  ASSUME NEW ns \in Seq(Str), NEW heap, NEW b \in Nat,
         \A l \in 1 .. Len(ns) : heap[b + l] = NewLocalName(ns[l])
  PROVE  NamesIn(heap, Addresses(b, Len(ns))) = ns
<1> DEFINE n == Len(ns)
           A == Addresses(b, n)
           f == NamesIn(heap, A)
<1>1. n \in Nat /\ \A l \in 1 .. n : ns[l] \in Str
  BY LenProperties, ElementOfSeq
<1>2. Len(A) = n /\ \A l \in 1 .. n : A[l] = b + l
  <2> HIDE DEF n
  <2>1. QED
    BY ONLY <1>1, b \in Nat, AddressAt
<1> HIDE DEF A
<1>3. \A l \in 1 .. n : heap[A[l]].name = ns[l]
  <2>1. \A l \in 1 .. n : heap[A[l]] = NewLocalName(ns[l])
    BY <1>2
  <2>2. \A t : NewLocalName(t).name = t
    BY DEF NewLocalName
  <2>3. QED
    BY <2>1, <2>2
<1>4. f \in [1 .. n -> Str] /\ \A l \in 1 .. n : f[l] = ns[l]
  BY <1>1, <1>2, <1>3 DEF NamesIn
<1> HIDE DEF f
<1>5. f \in Seq(Str) /\ Len(f) = n
  <2> HIDE DEF n
  <2>1. QED
    BY ONLY <1>1, <1>4, FcnIsSeq
<1>6. f = ns
  BY <1>4, <1>5, SeqEqual
<1>7. QED
  BY <1>6 DEF f, A

(* createInitialEntries fills the heap in the order of the URIs. *)
LEMMA InitHeap ==
  ASSUME Init
  PROVE  /\ \A l \in 1 .. Len(XMLNames) : LNHeap[0 + l] = NewLocalName(XMLNames[l])
         /\ \A l \in 1 .. Len(XSINames) :
              LNHeap[Len(XMLNames) + l] = NewLocalName(XSINames[l])
         /\ UsesSchema => \A l \in 1 .. Len(XSDNames) :
              LNHeap[Len(XMLNames) + Len(XSINames) + l] = NewLocalName(XSDNames[l])
<1> DEFINE x == Len(XMLNames)
           y == Len(XSINames)
           z == Len(XSDNames)
           h1 == NewLocalNames(XMLNames)
           h2 == NewLocalNames(XSINames)
           h3 == NewLocalNames(XSDNames)
<1>1. /\ x \in Nat /\ y \in Nat /\ z \in Nat
      /\ h1 \in Seq(LocalName) /\ h2 \in Seq(LocalName) /\ h3 \in Seq(LocalName)
      /\ Len(h1) = x /\ Len(h2) = y /\ Len(h3) = z
  BY StringTableAssumption, LenProperties, NewLocalNamesType
<1>2. /\ \A l \in 1 .. x : h1[l] = NewLocalName(XMLNames[l])
      /\ \A l \in 1 .. y : h2[l] = NewLocalName(XSINames[l])
      /\ \A l \in 1 .. z : h3[l] = NewLocalName(XSDNames[l])
  BY DEF NewLocalNames
<1>3. /\ BaseNames = h1 \o h2
      /\ LNHeap = IF UsesSchema THEN BaseNames \o h3 ELSE BaseNames
  BY DEF BaseNames, Init
<1> HIDE DEF x, y, z, h1, h2, h3
<1>4. /\ BaseNames \in Seq(LocalName) /\ Len(BaseNames) = x + y
      /\ \A l \in 1 .. x : BaseNames[l] = h1[l]
      /\ \A l \in 1 .. y : BaseNames[x + l] = h2[l]
  <2>1. /\ h1 \o h2 \in Seq(LocalName) /\ Len(h1 \o h2) = x + y
        /\ \A i \in 1 .. x + y :
             (h1 \o h2)[i] = IF i <= x THEN h1[i] ELSE h2[i - x]
    BY ONLY <1>1, ConcatProperties
  <2>2. \A l \in 1 .. x : l \in 1 .. x + y /\ l <= x
    BY <1>1
  <2>3. \A l \in 1 .. y : x + l \in 1 .. x + y /\ ~(x + l <= x) /\ (x + l) - x = l
    BY <1>1
  <2>4. QED
    BY <1>3, <2>1, <2>2, <2>3
<1>5. /\ \A l \in 1 .. x : LNHeap[l] = h1[l]
      /\ \A l \in 1 .. y : LNHeap[x + l] = h2[l]
      /\ UsesSchema => \A l \in 1 .. z : LNHeap[(x + y) + l] = h3[l]
  <2>1. CASE UsesSchema
    <3>1. LNHeap = BaseNames \o h3
      BY <1>3, <2>1
    <3>2. \A i \in 1 .. (x + y) + z :
            (BaseNames \o h3)[i] = IF i <= x + y THEN BaseNames[i] ELSE h3[i - (x + y)]
      <4>1. BaseNames \in Seq(LocalName) /\ h3 \in Seq(LocalName)
        BY <1>1, <1>4
      <4>2. \A i \in 1 .. Len(BaseNames) + Len(h3) :
              (BaseNames \o h3)[i] =
                IF i <= Len(BaseNames) THEN BaseNames[i] ELSE h3[i - Len(BaseNames)]
        BY ONLY <4>1, ConcatProperties
      <4>3. Len(BaseNames) = x + y /\ Len(h3) = z
        BY <1>1, <1>4
      <4>4. QED
        BY ONLY <4>2, <4>3
    <3>3. /\ \A l \in 1 .. x : l \in 1 .. (x + y) + z /\ l <= x + y
          /\ \A l \in 1 .. y : x + l \in 1 .. (x + y) + z /\ x + l <= x + y
          /\ \A l \in 1 .. z : /\ (x + y) + l \in 1 .. (x + y) + z
                              /\ ~((x + y) + l <= x + y) /\ ((x + y) + l) - (x + y) = l
      BY <1>1
    <3>4. QED
      BY <1>4, <3>1, <3>2, <3>3
  <2>2. CASE ~UsesSchema
    BY <1>3, <1>4, <2>2
  <2>3. QED
    BY <2>1, <2>2
<1>6. \A l \in 1 .. x : 0 + l = l
  BY <1>1
<1>7. QED
  BY <1>2, <1>5, <1>6 DEF x, y, z

(* The names of the predefined URIs. *)
LEMMA PredefinedURIs ==
  ASSUME Init
  PROVE  URINames(URIMap) = WithXSD(<< EmptyStr, XML, XSI >>, XSD)
<1> DEFINE i1 == NewURIInfo(EmptyStr, EmptyStr)
           i2 == NewURIInfo(XML, XMLPrefix)
           i3 == NewURIInfo(XSI, XSIPrefix)
           i4 == NewURIInfo(XSD, None)
           c == << i1, i2, i3 >>
           b == << EmptyStr, XML, XSI >>
           f == URINames(URIMap)
<1>1. /\ i1 \in URIInfo /\ i2 \in URIInfo /\ i3 \in URIInfo /\ i4 \in URIInfo
      /\ i1.name = EmptyStr /\ i2.name = XML /\ i3.name = XSI /\ i4.name = XSD
  BY StringTableAssumption, NewURIType DEF NewURIInfo
<1>2. URIMap = WithXSD(c, i4)
  BY DEF Init
<1> HIDE DEF i1, i2, i3, i4
<1>3. c \in Seq(URIInfo) /\ Len(c) = 3 /\ c[1] = i1 /\ c[2] = i2 /\ c[3] = i3
  BY <1>1
<1> HIDE DEF c
<1>4. /\ URIMap \in Seq(URIInfo) /\ Len(URIMap) = NumPredefined
      /\ \A i \in 1 .. 3 : URIMap[i] = c[i]
      /\ NumPredefined = 4 => URIMap[4] = i4
      /\ NumPredefined \in {3, 4}
  <2>1. i4 \in URIInfo
    BY <1>1
  <2>2. QED
    BY ONLY <1>2, <1>3, <2>1, WithXSDEntries
<1>5. \A u \in 1 .. NumPredefined : URIMap[u] \in URIInfo /\ URIMap[u].name \in Str
  <2>1. \A u \in 1 .. NumPredefined : URIMap[u] \in URIInfo
    BY ONLY <1>4, ElementOfSeq
  <2>2. QED
    BY ONLY <2>1 DEF URIInfo
<1>6. f \in Seq(Str) /\ Len(f) = NumPredefined
  <2>1. f \in [1 .. NumPredefined -> Str] /\ NumPredefined \in Nat
    BY <1>4, <1>5 DEF URINames
  <2>2. QED
    BY ONLY <2>1, FcnIsSeq
<1>7. b \in Seq(Str) /\ Len(b) = 3 /\ b[1] = EmptyStr /\ b[2] = XML /\ b[3] = XSI
  BY StringTableAssumption
<1>8. /\ \A i \in 1 .. 3 : f[i] = b[i]
      /\ NumPredefined = 4 => f[4] = XSD
  <2>1. \A i \in 1 .. NumPredefined : f[i] = URIMap[i].name
    BY <1>4 DEF URINames
  <2> HIDE DEF f, b
  <2>2. f[1] = b[1] /\ f[2] = b[2] /\ f[3] = b[3]
    BY <1>1, <1>3, <1>4, <1>7, <2>1
  <2>3. QED
    BY <1>1, <1>4, <2>1, <2>2
<1> HIDE DEF f, b
<1>9. f = WithXSD(b, XSD)
  <2>1. XSD \in Str
    BY StringTableAssumption
  <2>2. QED
    BY ONLY <1>6, <1>7, <1>8, <2>1, IsWithXSD
<1>10. QED
  BY <1>9 DEF f, b

(* Their local names. *)
LEMMA PredefinedNames ==
  ASSUME Init
  PROVE  NamesOf(LNHeap, LNMap) = WithXSD(<< << >>, XMLNames, XSINames >>, XSDNames)
<1> DEFINE x == Len(XMLNames)
           y == Len(XSINames)
           z == Len(XSDNames)
           A1 == Addresses(0, x)
           A2 == Addresses(x, y)
           A3 == Addresses(x + y, z)
           b == << << >>, XMLNames, XSINames >>
           f == NamesOf(LNHeap, LNMap)
<1>1. /\ NumPredefined \in {3, 4} /\ Len(LNMap) = NumPredefined
      /\ LNMap[1] = << >> /\ LNMap[2] = A1 /\ LNMap[3] = A2
      /\ NumPredefined = 4 => LNMap[4] = A3
  <2> HIDE DEF x, y, z
  <2>1. /\ x = Len(XMLNames) /\ y = Len(XSINames) /\ z = Len(XSDNames)
        /\ x \in Nat /\ y \in Nat /\ z \in Nat
    BY StringTableAssumption, LenProperties DEF x, y, z
  <2>2. QED
    BY ONLY Init, <2>1, InitPointers
<1>2. x \in Nat /\ y \in Nat /\ x + y \in Nat
  <2>1. x \in Nat /\ y \in Nat
    BY StringTableAssumption, LenProperties
  <2> HIDE DEF x, y
  <2>2. QED
    BY <2>1
<1>3. NamesIn(LNHeap, A1) = XMLNames
  <2>1. 0 \in Nat /\ XMLNames \in Seq(Str)
    BY StringTableAssumption
  <2>2. \A l \in 1 .. Len(XMLNames) : LNHeap[0 + l] = NewLocalName(XMLNames[l])
    BY InitHeap
  <2>3. QED
    BY ONLY <2>1, <2>2, ReadRun
<1>4. NamesIn(LNHeap, A2) = XSINames
  <2>1. x \in Nat /\ XSINames \in Seq(Str)
    BY <1>2, StringTableAssumption
  <2>2. \A l \in 1 .. Len(XSINames) : LNHeap[x + l] = NewLocalName(XSINames[l])
    BY InitHeap
  <2> HIDE DEF x
  <2>3. QED
    BY ONLY <2>1, <2>2, ReadRun
<1>5. NumPredefined = 4 => NamesIn(LNHeap, A3) = XSDNames
  <2> SUFFICES ASSUME NumPredefined = 4 PROVE NamesIn(LNHeap, A3) = XSDNames
    OBVIOUS
  <2>1. x + y \in Nat /\ XSDNames \in Seq(Str) /\ UsesSchema
    BY <1>2, StringTableAssumption DEF NumPredefined
  <2>2. \A l \in 1 .. Len(XSDNames) : LNHeap[(x + y) + l] = NewLocalName(XSDNames[l])
    BY <2>1, InitHeap
  <2> HIDE DEF x, y
  <2>3. QED
    BY ONLY <2>1, <2>2, ReadRun
<1> HIDE DEF x, y, z, A1, A2, A3
<1>6. /\ f \in Seq(Seq(Str)) /\ Len(f) = NumPredefined
      /\ \A u \in 1 .. NumPredefined : f[u] = NamesIn(LNHeap, LNMap[u])
  <2>1. /\ LNHeap \in Seq(LocalName) /\ LNMap \in Seq(Seq(1 .. Len(LNHeap)))
    BY InitInvariant, Pointers
  <2>2. f \in [1 .. NumPredefined -> Seq(Str)] /\ NumPredefined \in Nat
    BY <1>1, <2>1, MapTypes
  <2>3. f \in Seq(Seq(Str)) /\ Len(f) = NumPredefined
    <3> HIDE DEF f
    <3>1. QED
      BY ONLY <2>2, FcnIsSeq
  <2>4. QED
    BY <1>1, <2>3 DEF NamesOf
<1>7. b \in Seq(Seq(Str)) /\ Len(b) = 3 /\ b[1] = << >> /\ b[2] = XMLNames /\ b[3] = XSINames
  BY StringTableAssumption, EmptySeq
<1> HIDE DEF f, b
<1>8. /\ \A i \in 1 .. 3 : f[i] = b[i]
      /\ NumPredefined = 4 => f[4] = XSDNames
  <2>1. f[1] = b[1] /\ f[2] = b[2] /\ f[3] = b[3]
    BY <1>1, <1>3, <1>4, <1>6, <1>7, ReadEmpty
  <2>2. QED
    BY <1>1, <1>5, <1>6, <2>1
<1>9. f = WithXSD(b, XSDNames)
  <2>1. XSDNames \in Seq(Str)
    BY StringTableAssumption
  <2>2. QED
    BY ONLY <1>6, <1>7, <1>8, <2>1, IsWithXSD
<1>10. QED
  BY <1>9 DEF f, b

(* setup() leaves the predefined partitions. *)
LEMMA InitMaps == Init => Partitions!Init
<1> SUFFICES ASSUME Init PROVE Partitions!Init
  OBVIOUS
<1> DEFINE N == WithXSD(<< << >>, XMLNames, XSINames >>, XSDNames)
<1>1. NamesOf(LNHeap, LNMap) = N
  BY PredefinedNames
<1>2. /\ DOMAIN N = 1 .. Len(LNMap)
      /\ \A u \in 1 .. Len(LNMap) : DOMAIN N[u] = 1 .. Len(LNMap[u])
  BY <1>1 DEF NamesOf, NamesIn
<1> HIDE DEF N
<1>3. ValuesAt(LNHeap, LNMap) = [u \in DOMAIN N |-> [l \in DOMAIN N[u] |-> << >>]]
  <2>1. \A u \in 1 .. Len(LNMap) : \A l \in 1 .. Len(LNMap[u]) :
          LNHeap[LNMap[u][l]].values = << >>
    BY InitInvariant, Pointers, NoInitialValues DEF Address
  <2>2. \A u \in 1 .. Len(LNMap) :
          ValuesIn(LNHeap, LNMap[u]) = [l \in DOMAIN N[u] |-> << >>]
    BY <1>2, <2>1 DEF ValuesIn
  <2>3. QED
    BY <1>2, <2>2 DEF ValuesAt
<1>4. /\ PrefixMap = WithXSD(<< << EmptyStr >>, << XMLPrefix >>, << XSIPrefix >> >>, << >>)
      /\ GValueMap = << >>
  BY DEF Init
<1>5. URINames(URIMap) = WithXSD(<< EmptyStr, XML, XSI >>, XSD)
  BY PredefinedURIs
<1>6. QED
  BY <1>1, <1>3, <1>4, <1>5
  DEF Partitions!Init, N, URINames, NamesOf, NamesIn, ValuesAt, ValuesIn

(* Every call is one step of the partitions, and a lookup is none. *)
LEMMA StepMaps ==
  ASSUME IInv, IInv', NoSharing, [Next]_tableVars
  PROVE  [Partitions!Next]_(Partitions!partVars)
<1>1. ASSUME NEW s \in Str, addURI(s, None) PROVE Partitions!Next
  BY <1>1, AddURIMaps DEF Partitions!Next
<1>2. ASSUME NEW u \in 0 .. Len(URIMap) - 1, NEW s \in Str, addPrefix(u, s)
      PROVE  Partitions!Next
  BY <1>2, AddPrefixMaps DEF Partitions!Next
<1>3. ASSUME NEW u \in 0 .. Len(URIMap) - 1, NEW s \in Str, addLocalName(u, s)
      PROVE  Partitions!Next
  BY <1>3, AddLocalNameMaps DEF Partitions!Next
<1>4. ASSUME NEW s \in Str, addGlobalValue(s) PROVE Partitions!Next
  <2>1. Partitions!NewGlobal(s)
    BY <1>4 DEF addGlobalValue, createGlobalValue, Partitions!NewGlobal
  <2>2. QED
    BY <2>1 DEF Partitions!Next
<1>5. ASSUME NEW q \in QName, NEW s \in Str, addValue(q, s) PROVE Partitions!Next
  <2>1. /\ q.uri + 1 \in 1 .. Len(URIMap)
        /\ q.local + 1 \in 1 .. Len(LNMap[q.uri + 1])
        /\ Partitions!NewValue(q.uri + 1, q.local + 1, s)
    BY <1>5, AddValueMaps
  <2>2. Len(LNMap) = Len(URIMap)
    BY Pointers
  <2>3. QED
    BY <2>1, <2>2 DEF Partitions!Next
<1>6. ASSUME NEW q \in QName, readPartition(q) PROVE UNCHANGED Partitions!partVars
  BY <1>6 DEF readPartition, Partitions!partVars
<1>7. CASE UNCHANGED tableVars
  BY <1>7 DEF tableVars, Partitions!partVars
<1>8. ValidQNames \subseteq QName
  BY DEF ValidQNames
<1>9. QED
  BY <1>1, <1>2, <1>3, <1>4, <1>5, <1>6, <1>7, <1>8 DEF Next

(* Whatever is evicted from the cache and looked up again, the table is a  *)
(* set of append-only partitions: an identifier means one string for ever. *)
THEOREM TableImplementsPartitions == Spec => ImplementsPartitions
<1>1. Spec => []IInv
  BY InitInvariant, StepInvariant, PTL DEF Spec
<1>2. IInv /\ NoSharing /\ [Next]_tableVars => NoSharing'
  BY SharingStep
<1>3. Init => NoSharing
  BY SharingInit
<1>4. IInv /\ IInv' /\ NoSharing /\ [Next]_tableVars
        => [Partitions!Next]_(Partitions!partVars)
  BY StepMaps
<1>5. QED
  BY <1>1, <1>2, <1>3, <1>4, InitMaps, PTL DEF Spec, ImplementsPartitions, Partitions!Spec

(***************************************************************************)
(* The identifiers the setters return                                      *)
(***************************************************************************)

(* The counts createInitialEntries leaves right: all but the prefix counts *)
(* of the first three URIs and the local-name counts of the predefined.    *)
CountsExact ==
  \A u \in 1 .. Len(URIMap) :
    /\ u > 3 => URIMap[u].prefixElts = Len(PrefixMap[u])
    /\ u > NumPredefined => URIMap[u].lnElts = Len(LNMap[u])

(* ReturnedIDsResolve, with the local partition reached through LNMap.     *)
IDsResolveInMap ==
  LET r == returned IN
  /\ r.op = "uri" => Resolves(URIMap, r.id, NewURIInfo(r.str, None))
  /\ r.op = "prefix" /\ r.uri >= 3 => Resolves(At(PrefixMap, r.uri), r.id, r.str)
  /\ r.op = "local" /\ r.uri >= NumPredefined =>
       /\ ValidQName(MkQName(r.uri, r.id))
       /\ getLocalName(MkQName(r.uri, r.id)) = r.str
  /\ r.op \in {"global", "value"} => Resolves(GValueMap, r.gid, r.str)
  /\ r.op = "value" =>
       /\ ValidQName(MkQName(r.uri, r.local))
       /\ Resolves(LNHeap[At(At(LNMap, r.uri), r.local)].values, r.id, r.str)

(* The last entry is the one at the old length. *)
LEMMA AppendResolves ==
  ASSUME NEW S, NEW p \in Seq(S), NEW e \in S
  PROVE  Resolves(Append(p, e), Len(p), e)
<1>1. Len(p) \in Nat
  BY LenProperties
<1>2. Len(Append(p, e)) = Len(p) + 1 /\ Append(p, e)[Len(p) + 1] = e
  BY ONLY p \in Seq(S), e \in S, AppendProperties
<1>3. QED
  BY <1>1, <1>2 DEF Resolves, At

(* addURI: the id is the count, which is the length of the partition. *)
LEMMA URIResolves ==
  ASSUME IInv, CountsExact, NEW s \in Str, addURI(s, None)
  PROVE  CountsExact' /\ IDsResolveInMap'
<1> DEFINE n == Len(URIMap)
           x == NewURIInfo(s, None)
<1>1. /\ URIMap' = Append(URIMap, x) /\ PrefixMap' = Append(PrefixMap, << >>)
      /\ returned' = [NothingReturned EXCEPT !.op = "uri", !.id = n, !.str = s]
  BY DEF addURI, createURI, PrefixesOf, IInv, PartitionsInSync
<1>2. x \in URIInfo /\ << >> \in Seq(Str) /\ x.prefixElts = 0 /\ x.lnElts = 0
  BY NewURIType, EmptySeq DEF NewURIInfo
<1> HIDE DEF x
<1>3. /\ n \in Nat /\ Len(LNMap) = n /\ Len(PrefixMap) = n
      /\ URIMap \in Seq(URIInfo) /\ PrefixMap \in Seq(Seq(Str))
  BY Pointers, LenProperties
<1>4. /\ Len(URIMap') = n + 1 /\ URIMap'[n + 1] = x
      /\ \A u \in 1 .. n : URIMap'[u] = URIMap[u]
  BY ONLY <1>1, <1>2, <1>3, AppendProperties
<1>5. /\ PrefixMap'[n + 1] = << >>
      /\ \A u \in 1 .. n : PrefixMap'[u] = PrefixMap[u]
  BY ONLY <1>1, <1>2, <1>3, AppendProperties
<1>6. LNMap'[n + 1] = << >> /\ \A u \in 1 .. n : LNMap'[u] = LNMap[u]
  BY <1>3, MapAfterURI
<1>7. CountsExact'
  <2>1. \A u \in 1 .. n + 1 : u \in 1 .. n \/ u = n + 1
    BY <1>3
  <2>2. Len(<< >>) = 0
    BY EmptySeq
  <2> HIDE DEF n
  <2>3. \A u \in 1 .. n :
          /\ u > 3 => URIMap[u].prefixElts = Len(PrefixMap[u])
          /\ u > NumPredefined => URIMap[u].lnElts = Len(LNMap[u])
    BY DEF CountsExact, n
  <2>4. QED
    BY <1>2, <1>4, <1>5, <1>6, <2>1, <2>2, <2>3 DEF CountsExact, NumPredefined
<1>8. Resolves(URIMap', n, x)
  BY ONLY <1>1, <1>2, <1>3, AppendResolves
<1>9. returned'.op = "uri" /\ returned'.id = n /\ returned'.str = s
  BY <1>1 DEF NothingReturned
<1>10. IDsResolveInMap'
  BY <1>8, <1>9 DEF IDsResolveInMap, x, Resolves, At, NewURIInfo
<1>11. QED
  BY <1>7, <1>10

(* A longer entry of a sequence of sequences. *)
LEMMA GrownEntry ==
  ASSUME NEW S, NEW m \in Seq(Seq(S)), NEW k \in 1 .. Len(m), NEW e \in S
  PROVE  /\ Len(Grown(m, k, e)) = Len(m)
         /\ \A u \in 1 .. Len(m) :
              Grown(m, k, e)[u] = IF u = k THEN Append(m[k], e) ELSE m[u]
         /\ Len(Append(m[k], e)) = Len(m[k]) + 1
         /\ Resolves(Append(m[k], e), Len(m[k]), e)
<1>1. m[k] \in Seq(S)
  BY ElementOfSeq
<1>2. Append(m[k], e) \in Seq(S) /\ Len(Append(m[k], e)) = Len(m[k]) + 1
  BY <1>1, AppendProperties
<1>3. /\ Len(Grown(m, k, e)) = Len(m)
      /\ \A u \in 1 .. Len(m) :
           Grown(m, k, e)[u] = IF u = k THEN Append(m[k], e) ELSE m[u]
  BY <1>2, ExceptSeq DEF Grown
<1>4. Resolves(Append(m[k], e), Len(m[k]), e)
  BY <1>1, AppendResolves
<1>5. QED
  BY <1>2, <1>3, <1>4

(* addPrefix: the id is the count of the URI, right from the fourth on. *)
LEMMA PrefixResolves ==
  ASSUME IInv, CountsExact, NEW u \in 0 .. Len(URIMap) - 1, NEW s \in Str, addPrefix(u, s)
  PROVE  CountsExact' /\ IDsResolveInMap'
<1> DEFINE n == Len(URIMap)
           k == u + 1
<1>1. n \in Nat /\ u \in Nat /\ k \in 1 .. n /\ k \in 1 .. Len(PrefixMap)
  BY Pointers, LenProperties
<1>2. /\ URIMap' = [URIMap EXCEPT ![k].prefixElts = @ + 1]
      /\ PrefixMap' = Grown(PrefixMap, k, s)
      /\ UNCHANGED LNMap
      /\ returned' = [NothingReturned EXCEPT !.op = "prefix", !.uri = u,
                        !.id = URIMap[k].prefixElts, !.str = s]
  BY DEF addPrefix, At, Grown
<1>3. PrefixMap \in Seq(Seq(Str)) /\ Len(PrefixMap) = n
      /\ DOMAIN URIMap = 1 .. n /\ \A v \in 1 .. n : URIMap[v] \in URIInfo
  BY Pointers, ElementOfSeq, LenProperties
<1> HIDE DEF n, k
<1>4. /\ PrefixMap'[k] = Append(PrefixMap[k], s)
      /\ Len(PrefixMap'[k]) = Len(PrefixMap[k]) + 1
      /\ \A v \in 1 .. n : v # k => PrefixMap'[v] = PrefixMap[v]
      /\ Resolves(PrefixMap'[k], Len(PrefixMap[k]), s)
  <2>1. k \in 1 .. Len(PrefixMap) /\ PrefixMap \in Seq(Seq(Str)) /\ Len(PrefixMap) = n
        /\ PrefixMap' = Grown(PrefixMap, k, s)
    BY <1>1, <1>2, <1>3
  <2>2. /\ \A v \in 1 .. Len(PrefixMap) :
             Grown(PrefixMap, k, s)[v] = IF v = k THEN Append(PrefixMap[k], s) ELSE PrefixMap[v]
        /\ Len(Append(PrefixMap[k], s)) = Len(PrefixMap[k]) + 1
        /\ Resolves(Append(PrefixMap[k], s), Len(PrefixMap[k]), s)
    BY ONLY s \in Str, <2>1, GrownEntry
  <2>3. QED
    BY ONLY <2>1, <2>2
<1>5. /\ DOMAIN URIMap' = 1 .. n /\ Len(URIMap') = n
      /\ \A v \in 1 .. n :
           /\ URIMap'[v].lnElts = URIMap[v].lnElts
           /\ URIMap'[v].prefixElts =
                IF v = k THEN URIMap[k].prefixElts + 1 ELSE URIMap[v].prefixElts
  BY <1>1, <1>2, <1>3, LenProperties DEF URIInfo
<1>6. \A v \in 1 .. n :
        /\ v > 3 => URIMap[v].prefixElts = Len(PrefixMap[v])
        /\ v > NumPredefined => URIMap[v].lnElts = Len(LNMap[v])
  BY DEF CountsExact, n
<1>7. CountsExact'
  BY <1>2, <1>4, <1>5, <1>6 DEF CountsExact, NumPredefined
<1>8. /\ returned'.op = "prefix" /\ returned'.uri = u
      /\ returned'.id = URIMap[k].prefixElts /\ returned'.str = s
  BY <1>2 DEF NothingReturned
<1>9. u >= 3 => Resolves(PrefixMap'[k], URIMap[k].prefixElts, s)
  <2>1. u >= 3 => k > 3
    BY <1>1 DEF k
  <2>2. QED
    BY <1>1, <1>4, <1>6, <2>1
<1>10. IDsResolveInMap'
  BY <1>8, <1>9 DEF IDsResolveInMap, Resolves, At, k
<1>11. QED
  BY <1>7, <1>10

(* addLocalName: the id is the count of the URI, right after the predefined. *)
LEMMA NameResolves ==
  ASSUME IInv, CountsExact, NEW u \in 0 .. Len(URIMap) - 1, NEW s \in Str, addLocalName(u, s)
  PROVE  CountsExact' /\ IDsResolveInMap'
<1> DEFINE n == Len(URIMap)
           k == u + 1
           c == URIMap[k].lnElts
<1>1. n \in Nat /\ u \in Nat /\ k \in 1 .. n /\ k \in 1 .. Len(LNMap) /\ Len(LNMap) = n
  BY Pointers, LenProperties
<1>2. /\ URIMap' = [URIMap EXCEPT ![k].lnElts = @ + 1]
      /\ UNCHANGED PrefixMap
      /\ returned' = [NothingReturned EXCEPT !.op = "local", !.uri = u, !.id = c, !.str = s]
  BY DEF addLocalName, At
<1>3. DOMAIN URIMap = 1 .. n /\ \A v \in 1 .. n : URIMap[v] \in URIInfo
  BY Pointers, ElementOfSeq, LenProperties
<1>4. /\ \A v \in 1 .. n : v # k => LNMap'[v] = LNMap[v]
      /\ Len(LNMap'[k]) = Len(LNMap[k]) + 1
      /\ LNMap'[k][Len(LNMap[k]) + 1] = Len(LNHeap) + 1
      /\ LNHeap'[Len(LNHeap) + 1] = NewLocalName(s)
  BY <1>1, MapAfterName
<1> HIDE DEF n, k
<1>5. /\ DOMAIN URIMap' = 1 .. n /\ Len(URIMap') = n
      /\ \A v \in 1 .. n :
           /\ URIMap'[v].prefixElts = URIMap[v].prefixElts
           /\ URIMap'[v].lnElts = IF v = k THEN c + 1 ELSE URIMap[v].lnElts
  BY <1>1, <1>2, <1>3, LenProperties DEF URIInfo
<1>6. \A v \in 1 .. n :
        /\ v > 3 => URIMap[v].prefixElts = Len(PrefixMap[v])
        /\ v > NumPredefined => URIMap[v].lnElts = Len(LNMap[v])
  BY DEF CountsExact, n
<1>7. CountsExact'
  BY <1>2, <1>4, <1>5, <1>6 DEF CountsExact, NumPredefined
<1>8. /\ returned'.op = "local" /\ returned'.uri = u
      /\ returned'.id = c /\ returned'.str = s
  BY <1>2 DEF NothingReturned
<1>9. c \in Nat /\ c < c + 1
  BY <1>1, <1>3 DEF URIInfo
<1>10. u >= NumPredefined => c = Len(LNMap[k])
  <2>1. u >= NumPredefined => k > NumPredefined
    BY <1>1 DEF k, NumPredefined
  <2>2. QED
    BY <1>1, <1>6, <2>1
<1>11. u < Len(URIMap') /\ c < URIMap'[k].lnElts
  BY <1>1, <1>5, <1>9 DEF k
<1>12. ASSUME u >= NumPredefined PROVE LNHeap'[LNMap'[k][c + 1]].name = s
  <2>1. c = Len(LNMap[k])
    BY <1>10, <1>12
  <2>2. LNHeap'[LNMap'[k][c + 1]] = NewLocalName(s)
    BY ONLY <1>4, <2>1
  <2>3. QED
    BY ONLY <2>2 DEF NewLocalName
<1> HIDE DEF c
<1>13. IDsResolveInMap'
  BY <1>8, <1>11, <1>12
  DEF IDsResolveInMap, ValidQName, hasURI, getLocalName, MkQName, At, k, NumPredefined
<1>14. QED
  BY <1>7, <1>13

(* createGlobalValue: the new value is the last one. *)
LEMMA GlobalResolves ==
  ASSUME IInv, NEW s \in Str, createGlobalValue(s)
  PROVE  Resolves(GValueMap', GValueCount, s) /\ GValueCount' - 1 = GValueCount
<1>1. /\ GValueMap \in Seq(Str) /\ GValueCount \in Nat /\ GValueCount = Len(GValueMap)
      /\ GValueMap' = Append(GValueMap, s) /\ GValueCount' = GValueCount + 1
  BY DEF IInv, TypeOK, PartitionsInSync, createGlobalValue
<1>2. Resolves(Append(GValueMap, s), Len(GValueMap), s)
  BY <1>1, AppendResolves
<1>3. QED
  BY <1>1, <1>2

(* addValue: both ids point at the value. *)
LEMMA ValueResolves ==
  ASSUME IInv, CountsExact, NEW q \in QName, NEW s \in Str, addValue(q, s)
  PROVE  CountsExact' /\ IDsResolveInMap'
<1> DEFINE a == LVPartition(q)
           lv == LNHeap[a].values
<1>1. /\ ValidQName(q) /\ createGlobalValue(s)
      /\ LNHeap' = [LNHeap EXCEPT ![a].values = Append(@, s)]
      /\ UNCHANGED << URIMap, PrefixMap, LNMap >>
      /\ returned' = [op |-> "value", uri |-> q.uri, local |-> q.local, str |-> s,
                      id |-> Len(lv), gid |-> GValueCount' - 1]
  BY DEF addValue, addLocalValue
<1>2. a = At(At(LNMap, q.uri), q.local)
  BY <1>1, CachedLookup
<1>3. a \in 1 .. Len(LNHeap) /\ DOMAIN LNHeap = 1 .. Len(LNHeap) /\ LNHeap[a] \in LocalName
  BY <1>1, <1>2, ValidHasAddress, Pointers, LenProperties, ElementOfSeq DEF IInv, Address
<1> HIDE DEF a
<1>4. lv \in Seq(Str) /\ LNHeap'[a].values = Append(lv, s)
  BY <1>1, <1>3 DEF LocalName
<1> HIDE DEF lv
<1>5. Resolves(LNHeap'[a].values, Len(lv), s)
  BY <1>4, AppendResolves
<1>6. CountsExact'
  BY <1>1 DEF CountsExact, NumPredefined
<1>7. Resolves(GValueMap', GValueCount' - 1, s)
  BY <1>1, GlobalResolves
<1>8. /\ returned'.op = "value" /\ returned'.uri = q.uri /\ returned'.local = q.local
      /\ returned'.str = s /\ returned'.id = Len(lv) /\ returned'.gid = GValueCount' - 1
  BY <1>1
<1>9. MkQName(q.uri, q.local) = q
  BY DEF MkQName, QName
<1>10. At(At(LNMap', q.uri), q.local) = a
  BY <1>1, <1>2 DEF At
<1>11. /\ q.uri < Len(URIMap') /\ q.local < At(URIMap', q.uri).lnElts
  BY <1>1 DEF ValidQName, hasURI
<1>12. IDsResolveInMap'
  BY <1>5, <1>7, <1>8, <1>10, <1>11 DEF IDsResolveInMap, ValidQName, hasURI, MkQName, Resolves, At
<1>13. QED
  BY <1>6, <1>12

(* Nothing was returned, and the counts that matter are right. *)
LEMMA ResolveInit == Init => CountsExact /\ IDsResolveInMap
<1> SUFFICES ASSUME Init PROVE CountsExact /\ IDsResolveInMap
  OBVIOUS
<1> DEFINE i1 == NewURIInfo(EmptyStr, EmptyStr)
           i2 == NewURIInfo(XML, XMLPrefix)
           i3 == NewURIInfo(XSI, XSIPrefix)
           i4 == NewURIInfo(XSD, None)
           c == << i1, i2, i3 >>
           P == << << EmptyStr >>, << XMLPrefix >>, << XSIPrefix >> >>
           E == << >>
<1>1. c \in Seq(URIInfo) /\ Len(c) = 3 /\ i4 \in URIInfo /\ i4.prefixElts = 0
  <2>1. /\ i1 \in URIInfo /\ i2 \in URIInfo /\ i3 \in URIInfo /\ i4 \in URIInfo
        /\ i4.prefixElts = 0
    BY StringTableAssumption, NewURIType DEF NewURIInfo
  <2> HIDE DEF i1, i2, i3, i4
  <2>2. QED
    BY <2>1
<1>2. P \in Seq(Seq(Str)) /\ Len(P) = 3 /\ E \in Seq(Str) /\ Len(E) = 0
  BY StringTableAssumption, EmptySeq
<1>3. URIMap = WithXSD(c, i4) /\ PrefixMap = WithXSD(P, E)
  BY DEF Init
<1> HIDE DEF c, i4, P, E
<1>4. /\ Len(URIMap) = NumPredefined /\ NumPredefined \in {3, 4}
      /\ NumPredefined = 4 => URIMap[4] = i4
  BY ONLY <1>1, <1>3, WithXSDEntries
<1>5. NumPredefined = 4 => PrefixMap[4] = E
  <2>1. P \in Seq(Seq(Str)) /\ Len(P) = 3 /\ E \in Seq(Str)
    BY <1>2
  <2>2. /\ WithXSD(P, E) \in Seq(Seq(Str)) /\ Len(WithXSD(P, E)) = NumPredefined
        /\ NumPredefined = 4 => WithXSD(P, E)[4] = E
    BY ONLY <2>1, WithXSDEntries, SMTT(30)
  <2>3. QED
    BY <1>3, <2>2
<1>6. CountsExact
  <2>1. \A u \in 1 .. Len(URIMap) :
          /\ ~(u > NumPredefined)
          /\ u > 3 => u = 4 /\ NumPredefined = 4
    BY <1>4
  <2>2. QED
    BY <1>1, <1>2, <1>4, <1>5, <2>1 DEF CountsExact
<1>7. IDsResolveInMap
  BY DEF Init, NothingReturned, IDsResolveInMap
<1>8. QED
  BY <1>6, <1>7

(* No call makes an earlier answer wrong, or returns a wrong one. *)
LEMMA ResolveStep ==
  ASSUME IInv, CountsExact, IDsResolveInMap, [Next]_tableVars
  PROVE  CountsExact' /\ IDsResolveInMap'
<1>1. ASSUME NEW s \in Str, addGlobalValue(s) PROVE CountsExact' /\ IDsResolveInMap'
  <2>1. /\ createGlobalValue(s) /\ UNCHANGED << URIMap, PrefixMap, LNMap >>
        /\ returned' = [NothingReturned EXCEPT !.op = "global", !.gid = GValueCount,
                          !.str = s]
    BY <1>1 DEF addGlobalValue
  <2>2. returned'.op = "global" /\ returned'.gid = GValueCount /\ returned'.str = s
    BY <2>1 DEF NothingReturned
  <2>3. Resolves(GValueMap', GValueCount, s)
    BY <2>1, GlobalResolves
  <2>4. IDsResolveInMap'
    BY <2>2, <2>3 DEF IDsResolveInMap, Resolves, At
  <2>5. QED
    BY <2>1, <2>4 DEF CountsExact, NumPredefined
<1>2. ASSUME UNCHANGED << URIMap, PrefixMap, LNMap, LNHeap, GValueMap, returned >>
      PROVE  CountsExact' /\ IDsResolveInMap'
  BY <1>2 DEF CountsExact, IDsResolveInMap, NumPredefined, Resolves, ValidQName, hasURI,
              getLocalName, MkQName, NewURIInfo, At
<1>3. ASSUME NEW q, readPartition(q) \/ UNCHANGED tableVars
      PROVE  UNCHANGED << URIMap, PrefixMap, LNMap, LNHeap, GValueMap, returned >>
  BY <1>3 DEF readPartition, tableVars
<1>4. ValidQNames \subseteq QName
  BY DEF ValidQNames
<1>5. QED
  BY <1>1, <1>2, <1>3, <1>4, URIResolves, PrefixResolves, NameResolves, ValueResolves
  DEF Next

(* A lookup answers what the map holds, in every state. *)
LookupAnswers ==
  \A q \in QName : ValidQName(q) => LVPartition(q) = At(At(LNMap, q.uri), q.local)

(* ReturnedIDsResolve: between the caches, counts and pointers of the four *)
(* partitions, an identifier a setter returns is the one its string has.   *)
THEOREM IDsResolve == Spec => []ReturnedIDsResolve
<1>1. IInv => LookupAnswers
  BY CachedLookup DEF LookupAnswers
<1>2. IInv /\ LookupAnswers /\ IDsResolveInMap => ReturnedIDsResolve
  <2> SUFFICES ASSUME IInv, LookupAnswers, IDsResolveInMap PROVE ReturnedIDsResolve
    OBVIOUS
  <2>1. MkQName(returned.uri, returned.local) \in QName
    BY DEF IInv, TypeOK, MkQName, QName
  <2>2. returned.op = "value" =>
          LVPartition(MkQName(returned.uri, returned.local)) =
            At(At(LNMap, returned.uri), returned.local)
    <3>1. /\ MkQName(returned.uri, returned.local).uri = returned.uri
          /\ MkQName(returned.uri, returned.local).local = returned.local
      BY DEF MkQName
    <3>2. QED
      BY <2>1, <3>1 DEF LookupAnswers, IDsResolveInMap
  <2>3. QED
    BY <2>2 DEF IDsResolveInMap, ReturnedIDsResolve
<1>3. Init => CountsExact /\ IDsResolveInMap
  BY ResolveInit
<1>4. IInv /\ CountsExact /\ IDsResolveInMap /\ [Next]_tableVars
        => CountsExact' /\ IDsResolveInMap'
  BY ResolveStep
<1>5. QED
  BY InitInvariant, StepInvariant, <1>1, <1>2, <1>3, <1>4, PTL DEF Spec

-----------------------------------------------------------------------------
(***************************************************************************)
(* The two ends of a stream: the table and the encoder's partitions.       *)
(***************************************************************************)

(***************************************************************************)
(* The documents for which that holds.                                     *)
(***************************************************************************)

(* The predefined URIs are different ones, as in the specification (D.1).  *)
DistinctURIs ==
  /\ EmptyStr # XML /\ EmptyStr # XSI /\ XML # XSI
  /\ UsesSchema => XSD \notin {EmptyStr, XML, XSI}

(* No name is in a namespace with predefined names: the table does not     *)
(* count those.                                                            *)
OwnNamesOnly ==
  \A n \in Names : n[1] \notin {XML, XSI} /\ (UsesSchema => n[1] # XSD)

(* A URI is declared with one prefix only, a predefined one with its own,  *)
(* and none twice: the table leaves no room for a second prefix.           *)
OnePrefixPerURI ==
  /\ ~Redeclares
  /\ \A d \in Declarations :
       /\ d[1] # EmptyStr
       /\ d[1] = XML => d[2] = XMLPrefix
       /\ d[1] = XSI => d[2] = XSIPrefix
       /\ \A e \in Declarations : e[1] = d[1] => e[2] = d[2]

OrdinaryDocuments == DistinctURIs /\ OwnNamesOnly /\ OnePrefixPerURI

(***************************************************************************)
(* The invariant.                                                          *)
(***************************************************************************)

(* The encoder's local-value partitions: functions of qualified names.     *)
ValueMaps == UNION {[D -> Seq(Str)] : D \in SUBSET QName}

PeerOK ==
  /\ peer \in [uris : Seq(Str), prefixes : Seq(Seq(Str)), names : Seq(Seq(Str)),
               values : ValueMaps, globals : Seq(Str)]
  /\ Len(peer.prefixes) = Len(peer.uris) /\ Len(peer.names) = Len(peer.uris)

(* The table, read through its pointers, is what the encoder has. *)
Mirrored ==
  /\ URINames(URIMap) = peer.uris
  /\ PrefixMap = peer.prefixes
  /\ NamesOf(LNHeap, LNMap) = peer.names
  /\ GValueMap = peer.globals

(* The local values of every name, too. *)
ValuesMirrored ==
  /\ \A q \in DOMAIN peer.values :
       q.uri + 1 \in 1 .. Len(peer.names) /\ q.local + 1 \in 1 .. Len(peer.names[q.uri + 1])
  /\ \A u \in 1 .. Len(peer.names) : \A l \in 1 .. Len(peer.names[u]) :
       ValuesAt(LNHeap, LNMap)[u][l] = ValuesOf(MkQName(u - 1, l - 1))

(* The counts of the table: one prefix too many for the first three URIs,  *)
(* none of the predefined names.                                           *)
CountsOf ==
  \A u \in 1 .. Len(peer.uris) :
    /\ URIMap[u].prefixElts = Len(peer.prefixes[u]) + (IF u <= 3 THEN 1 ELSE 0)
    /\ u \notin 2 .. NumPredefined => URIMap[u].lnElts = Len(peer.names[u])

(* The predefined URIs stay where they are, and so do their prefixes; any  *)
(* other URI has the prefix it was declared with, if any.                  *)
PrefixesKnown ==
  /\ 3 <= NumPredefined /\ NumPredefined <= Len(peer.uris)
  /\ peer.uris[1] = EmptyStr /\ peer.uris[2] = XML /\ peer.uris[3] = XSI
  /\ UsesSchema => peer.uris[4] = XSD
  /\ peer.prefixes[1] = << EmptyStr >> /\ peer.prefixes[2] = << XMLPrefix >>
  /\ peer.prefixes[3] = << XSIPrefix >>
  /\ \A u \in 4 .. Len(peer.uris) :
       /\ peer.uris[u] \notin {EmptyStr, XML, XSI}
       /\ \/ peer.prefixes[u] = << >>
          \/ \E p \in Str : peer.prefixes[u] = << p >> /\ << peer.uris[u], p >> \in Declarations

(* The item under way is about the URI the encoder means. *)
ItemOK ==
  /\ item \in [next : {"event", "name", "pfxq", "pfx", "ns"}, uri : Nat, pos : Nat,
               pfx : Nat, str : Str \union {None}]
  /\ item.next # "event" => item.pos \in 1 .. Len(peer.uris) /\ item.pos = item.uri + 1
  /\ item.next = "ns" => /\ item.pfx + 1 \in 1 .. Len(peer.prefixes[item.pos])
                         /\ peer.prefixes[item.pos][item.pfx + 1] = item.str

(* Nothing went wrong so far.  (A stream that ends in kInvalidEXIInput or  *)
(* kUnimplemented says so.)                                                *)
SoFar == status \in {"running", "failed"} /\ text.sent = text.got

(* What holds between two calls, and with the item under way.             *)
BothInv ==
  /\ IInv /\ NoSharing
  /\ PeerOK /\ Mirrored /\ ValuesMirrored /\ CountsOf /\ PrefixesKnown

CodecInv == BothInv /\ ItemOK /\ SoFar

(***************************************************************************)
(* Fields and widths.                                                      *)
(***************************************************************************)

(* A field that is read with the width it was written with is read as what *)
(* was written.                                                            *)
LEMMA ReadsField ==
  ASSUME NEW w \in Nat, NEW val \in Nat, NEW n, n = w
  PROVE  readBits64(Field(w, val), n) = {val} /\ InStep(Field(w, val), n) = "running"
<1>1. Field(w, val).width = w /\ Field(w, val).val = val
  BY DEF Field
<1>2. w - n = 0 /\ n <= w /\ val \div 1 = val
  OBVIOUS
<1>3. Pow2[w - n] = 1
  BY <1>2, SmallPowers
<1> QED BY <1>1, <1>2, <1>3 DEF readBits64, InStep

(* Widths are numbers. *)
LEMMA WidthType == ASSUME NEW n \in Nat PROVE CeilLog2(n) \in Nat
<1>1. CeilLog2(n) \in 0 .. n
  BY CeilLog2Value
<1> QED BY <1>1

(* A string that is found has a position, where it stands.                 *)
LEMMA PositionIs ==
  ASSUME NEW S, NEW part \in Seq(S), NEW s, Found(part, s)
  PROVE  Position(part, s) \in 1 .. Len(part) /\ part[Position(part, s)] = s
<1>1. DOMAIN part = 1 .. Len(part)
  BY LenProperties
<1>2. PositionsOf(part, s) # {}
  BY DEF Found, PositionsOf
<1>3. Position(part, s) \in PositionsOf(part, s)
  BY <1>2 DEF Position
<1> QED BY <1>1, <1>3 DEF PositionsOf

(***************************************************************************)
(* What the two ends have in common.                                       *)
(***************************************************************************)

(* The partitions of the encoder have the sizes of the table's. *)
LEMMA Sizes ==
  ASSUME BothInv
  PROVE  /\ Len(peer.uris) \in Nat /\ Len(URIMap) = Len(peer.uris)
         /\ Len(PrefixMap) = Len(peer.uris) /\ Len(LNMap) = Len(peer.uris)
         /\ Len(peer.prefixes) = Len(peer.uris) /\ Len(peer.names) = Len(peer.uris)
         /\ URICount = Len(peer.uris) /\ GValueCount = Len(peer.globals)
         /\ Len(peer.globals) \in Nat
<1>1. /\ IInv /\ peer.globals = GValueMap /\ peer.prefixes = PrefixMap
      /\ Len(peer.prefixes) = Len(peer.uris) /\ Len(peer.names) = Len(peer.uris)
  BY DEF BothInv, Mirrored, PeerOK
<1>2. Len(LNMap) = Len(URIMap) /\ Len(PrefixMap) = Len(URIMap) /\ Len(LNMap) \in Nat
  BY <1>1, Pointers
<1>3. URICount = Len(URIMap) /\ GValueCount = Len(GValueMap) /\ GValueCount \in Nat
  BY <1>1 DEF IInv, PartitionsInSync, TypeOK
<1> QED BY <1>1, <1>2, <1>3

(* The partitions of the encoder hold strings. *)
LEMMA PeerTypes ==
  ASSUME BothInv
  PROVE  /\ peer.uris \in Seq(Str) /\ peer.prefixes \in Seq(Seq(Str))
         /\ peer.names \in Seq(Seq(Str)) /\ peer.globals \in Seq(Str)
         /\ peer.values \in ValueMaps
         /\ \A u \in 1 .. Len(peer.uris) :
              /\ peer.uris[u] \in Str
              /\ peer.prefixes[u] \in Seq(Str) /\ Len(peer.prefixes[u]) \in Nat
              /\ peer.names[u] \in Seq(Str) /\ Len(peer.names[u]) \in Nat
<1>1. /\ peer.uris \in Seq(Str) /\ peer.prefixes \in Seq(Seq(Str))
      /\ peer.names \in Seq(Seq(Str)) /\ peer.globals \in Seq(Str)
      /\ peer.values \in ValueMaps
      /\ Len(peer.prefixes) = Len(peer.uris) /\ Len(peer.names) = Len(peer.uris)
  <2> HIDE DEF ValueMaps
  <2> QED BY DEF BothInv, PeerOK
<1>2. ASSUME NEW u \in 1 .. Len(peer.uris)
      PROVE  /\ peer.uris[u] \in Str
             /\ peer.prefixes[u] \in Seq(Str) /\ peer.names[u] \in Seq(Str)
  <2>1. u \in 1 .. Len(peer.prefixes) /\ u \in 1 .. Len(peer.names)
    BY <1>1
  <2>2. peer.uris[u] \in Str
    BY <1>1, ElementOfSeq
  <2>3. peer.prefixes[u] \in Seq(Str)
    BY <1>1, <2>1, ElementOfSeq
  <2>4. peer.names[u] \in Seq(Str)
    BY <1>1, <2>1, ElementOfSeq
  <2> QED BY <2>2, <2>3, <2>4
<1>3. ASSUME NEW u \in 1 .. Len(peer.uris)
      PROVE  Len(peer.prefixes[u]) \in Nat /\ Len(peer.names[u]) \in Nat
  BY <1>2, LenProperties
<1> QED BY <1>1, <1>2, <1>3

(* What the table answers is what the encoder has. *)
LEMMA SameStrings ==
  ASSUME BothInv, NEW u \in 1 .. Len(peer.uris)
  PROVE  /\ URIMap[u].name = peer.uris[u] /\ PrefixMap[u] = peer.prefixes[u]
         /\ Len(LNMap[u]) = Len(peer.names[u])
         /\ \A l \in 1 .. Len(peer.names[u]) :
              /\ LNHeap[LNMap[u][l]].name = peer.names[u][l]
              /\ LNHeap[LNMap[u][l]].values = ValuesOf(MkQName(u - 1, l - 1))
<1>1. /\ URINames(URIMap) = peer.uris /\ PrefixMap = peer.prefixes
      /\ NamesOf(LNHeap, LNMap) = peer.names
  BY DEF BothInv, Mirrored
<1>2. u \in 1 .. Len(URIMap) /\ u \in 1 .. Len(LNMap)
  BY Sizes
<1>3. URIMap[u].name = peer.uris[u]
  BY <1>1, <1>2 DEF URINames
<1>4. peer.names[u] = NamesIn(LNHeap, LNMap[u])
  BY <1>1, <1>2 DEF NamesOf
<1>5. ValuesAt(LNHeap, LNMap)[u] = ValuesIn(LNHeap, LNMap[u])
  BY <1>2 DEF ValuesAt
<1>6. LNHeap \in Seq(LocalName) /\ LNMap[u] \in Seq(1 .. Len(LNHeap))
  BY <1>2, Pointers DEF BothInv
<1>7. Len(peer.names[u]) = Len(LNMap[u])
  BY <1>4, <1>6, ReadTypes
<1>8. u \in 1 .. Len(peer.names)
  BY Sizes
<1>9. ASSUME NEW l \in 1 .. Len(peer.names[u])
      PROVE  /\ LNHeap[LNMap[u][l]].name = peer.names[u][l]
             /\ LNHeap[LNMap[u][l]].values = ValuesOf(MkQName(u - 1, l - 1))
  <2>1. ValuesAt(LNHeap, LNMap)[u][l] = ValuesOf(MkQName(u - 1, l - 1))
    BY ONLY <1>8, <1>9, BothInv DEF BothInv, ValuesMirrored
  <2>2. l \in 1 .. Len(LNMap[u])
    BY <1>7
  <2>3. peer.names[u][l] = LNHeap[LNMap[u][l]].name
    BY ONLY <2>2, <1>4 DEF NamesIn
  <2>4. ValuesAt(LNHeap, LNMap)[u][l] = LNHeap[LNMap[u][l]].values
    BY ONLY <2>2, <1>5 DEF ValuesIn
  <2> QED BY ONLY <2>1, <2>3, <2>4
<1> QED BY <1>1, <1>3, <1>7, <1>9

(***************************************************************************)
(* Each item that enters a string does so on both ends.                    *)
(***************************************************************************)

(* What a call of the table leaves in order. *)
LEMMA TableKept ==
  ASSUME IInv, NoSharing, [Next]_tableVars
  PROVE  IInv' /\ NoSharing'
BY StepInvariant, SharingStep

(* A sequence with an entry more. *)
LEMMA Appended ==
  ASSUME NEW S, NEW p \in Seq(S), NEW e \in S
  PROVE  /\ Append(p, e) \in Seq(S) /\ Len(Append(p, e)) = Len(p) + 1 /\ Len(p) \in Nat
         /\ Append(p, e)[Len(p) + 1] = e
         /\ \A i \in 1 .. Len(p) : Append(p, e)[i] = p[i]
BY AppendProperties, LenProperties

(* A URI enters on the side of the table. *)
LEMMA URIView ==
  ASSUME BothInv, NEW s \in Str, addURI(s, None)
  PROVE  /\ IInv' /\ NoSharing'
         /\ URINames(URIMap') = Append(URINames(URIMap), s)
         /\ PrefixMap' = Append(PrefixMap, << >>)
         /\ NamesOf(LNHeap', LNMap') = Append(NamesOf(LNHeap, LNMap), << >>)
         /\ ValuesAt(LNHeap', LNMap') = Append(ValuesAt(LNHeap, LNMap), << >>)
         /\ GValueMap' = GValueMap
         /\ URIMap' = Append(URIMap, NewURIInfo(s, None))
<1>1. Next
  BY DEF Next
<1>2. IInv /\ NoSharing
  BY DEF BothInv
<1>3. IInv' /\ NoSharing'
  BY <1>1, <1>2, TableKept
<1>4. Partitions!NewURI(s)
  BY <1>2, <1>3, AddURIMaps
<1>5. URIMap' = Append(URIMap, NewURIInfo(s, None))
  BY DEF addURI, createURI
<1>6. /\ URINames(URIMap') = Append(URINames(URIMap), s)
      /\ PrefixMap' = Append(PrefixMap, << >>)
      /\ NamesOf(LNHeap', LNMap') = Append(NamesOf(LNHeap, LNMap), << >>)
      /\ ValuesAt(LNHeap', LNMap') = Append(ValuesAt(LNHeap, LNMap), << >>)
      /\ GValueMap' = GValueMap
  BY <1>4 DEF Partitions!NewURI, URINames, NamesOf, NamesIn, ValuesAt, ValuesIn
<1> QED BY <1>3, <1>5, <1>6

(* A URI enters on both sides. *)
LEMMA URIEntered ==
  ASSUME BothInv, NEW s \in Str, addURI(s, None), s \notin {EmptyStr, XML, XSI},
         peer' = [peer EXCEPT !.uris = Append(@, s), !.prefixes = Append(@, << >>),
                              !.names = Append(@, << >>)]
  PROVE  /\ BothInv'
         /\ Len(peer'.uris) = Len(peer.uris) + 1
         /\ peer'.uris[Len(peer.uris) + 1] = s
<1> DEFINE n == Len(peer.uris)
<1>1. /\ n \in Nat /\ Len(URIMap) = n /\ Len(LNMap) = n
      /\ Len(peer.prefixes) = n /\ Len(peer.names) = n
  BY Sizes
<1>2. /\ peer.uris \in Seq(Str) /\ peer.prefixes \in Seq(Seq(Str))
      /\ peer.names \in Seq(Seq(Str)) /\ << >> \in Seq(Str)
  BY PeerTypes
<1>3. /\ peer'.uris = Append(peer.uris, s) /\ peer'.prefixes = Append(peer.prefixes, << >>)
      /\ peer'.names = Append(peer.names, << >>)
      /\ peer'.values = peer.values /\ peer'.globals = peer.globals
      /\ peer' = [uris |-> peer'.uris, prefixes |-> peer'.prefixes, names |-> peer'.names,
                  values |-> peer'.values, globals |-> peer'.globals]
  <2> HIDE DEF ValueMaps
  <2> QED BY DEF BothInv, PeerOK
<1>4. /\ peer'.uris \in Seq(Str) /\ Len(peer'.uris) = n + 1 /\ peer'.uris[n + 1] = s
      /\ \A u \in 1 .. n : peer'.uris[u] = peer.uris[u]
  BY ONLY <1>2, <1>3, s \in Str, Appended
<1>5. /\ peer'.prefixes \in Seq(Seq(Str)) /\ Len(peer'.prefixes) = n + 1
      /\ peer'.prefixes[n + 1] = << >>
      /\ \A u \in 1 .. n : peer'.prefixes[u] = peer.prefixes[u]
  <2>1. /\ peer'.prefixes \in Seq(Seq(Str)) /\ Len(peer'.prefixes) = Len(peer.prefixes) + 1
        /\ peer'.prefixes[Len(peer.prefixes) + 1] = << >>
        /\ \A u \in 1 .. Len(peer.prefixes) : peer'.prefixes[u] = peer.prefixes[u]
    BY ONLY <1>2, <1>3, Appended
  <2> QED BY ONLY <1>1, <2>1
<1>6. /\ peer'.names \in Seq(Seq(Str)) /\ Len(peer'.names) = n + 1
      /\ peer'.names[n + 1] = << >>
      /\ \A u \in 1 .. n : peer'.names[u] = peer.names[u]
  <2>1. /\ peer'.names \in Seq(Seq(Str)) /\ Len(peer'.names) = Len(peer.names) + 1
        /\ peer'.names[Len(peer.names) + 1] = << >>
        /\ \A u \in 1 .. Len(peer.names) : peer'.names[u] = peer.names[u]
    BY ONLY <1>2, <1>3, Appended
  <2> QED BY ONLY <1>1, <2>1
<1>7. /\ URIMap'[n + 1] = NewURIInfo(s, None)
      /\ \A u \in 1 .. n : URIMap'[u] = URIMap[u]
  <2>1. URIMap \in Seq(URIInfo) /\ NewURIInfo(s, None) \in URIInfo
    BY Pointers, NewURIType DEF BothInv
  <2>2. URIMap' = Append(URIMap, NewURIInfo(s, None))
    BY URIView
  <2>3. /\ URIMap'[Len(URIMap) + 1] = NewURIInfo(s, None)
        /\ \A u \in 1 .. Len(URIMap) : URIMap'[u] = URIMap[u]
    BY ONLY <2>1, <2>2, Appended
  <2> QED BY ONLY <1>1, <2>3
<1>8. IInv' /\ NoSharing'
  BY URIView
<1>9. PeerOK'
  <2>1. peer.values \in ValueMaps /\ peer.globals \in Seq(Str)
    BY PeerTypes
  <2> HIDE DEF ValueMaps, n
  <2> QED BY <1>3, <1>4, <1>5, <1>6, <2>1 DEF PeerOK
<1>10. Mirrored'
  BY ONLY URIView, BothInv, s \in Str, addURI(s, None), <1>3 DEF BothInv, Mirrored
<1>11. NumPredefined \in 3 .. n /\ NumPredefined \in 3 .. 4
  BY <1>1 DEF BothInv, PrefixesKnown, NumPredefined
<1> HIDE DEF n
<1>12. CountsOf'
  <2>1. /\ NewURIInfo(s, None).prefixElts = 0 /\ NewURIInfo(s, None).lnElts = 0
        /\ Len(peer'.prefixes[n + 1]) = 0 /\ Len(peer'.names[n + 1]) = 0
    BY <1>5, <1>6 DEF NewURIInfo
  <2>2. \A u \in 1 .. n :
          /\ URIMap[u].prefixElts = Len(peer.prefixes[u]) + (IF u <= 3 THEN 1 ELSE 0)
          /\ u \notin 2 .. NumPredefined => URIMap[u].lnElts = Len(peer.names[u])
    BY DEF BothInv, CountsOf, n
  <2>3. NumPredefined' = NumPredefined
    BY DEF NumPredefined
  <2> SUFFICES ASSUME NEW u \in 1 .. n + 1
               PROVE  /\ URIMap'[u].prefixElts
                            = Len(peer'.prefixes[u]) + (IF u <= 3 THEN 1 ELSE 0)
                      /\ u \notin 2 .. NumPredefined => URIMap'[u].lnElts = Len(peer'.names[u])
    BY <1>4, <2>3 DEF CountsOf
  <2>4. CASE u \in 1 .. n
    BY ONLY <2>4, <2>2, <1>5, <1>6, <1>7
  <2>5. CASE u = n + 1
    <3>1. ~ (u <= 3) /\ 0 + 0 = 0
      BY <2>5, <1>1, <1>11
    <3> QED BY ONLY <3>1, <2>5, <2>1, <1>7
  <2>6. u \in 1 .. n \/ u = n + 1
    BY <1>1
  <2> QED BY ONLY <2>4, <2>5, <2>6
<1>13. PrefixesKnown'
  <2>1. /\ 3 <= NumPredefined /\ NumPredefined <= n
        /\ peer.uris[1] = EmptyStr /\ peer.uris[2] = XML /\ peer.uris[3] = XSI
        /\ UsesSchema => peer.uris[4] = XSD
        /\ peer.prefixes[1] = << EmptyStr >> /\ peer.prefixes[2] = << XMLPrefix >>
        /\ peer.prefixes[3] = << XSIPrefix >>
        /\ \A u \in 4 .. n :
             /\ peer.uris[u] \notin {EmptyStr, XML, XSI}
             /\ \/ peer.prefixes[u] = << >>
                \/ \E p \in Str : /\ peer.prefixes[u] = << p >>
                                  /\ << peer.uris[u], p >> \in Declarations
    BY DEF BothInv, PrefixesKnown, n
  <2>2. 1 \in 1 .. n /\ 2 \in 1 .. n /\ 3 \in 1 .. n /\ (UsesSchema => 4 \in 1 .. n)
    BY <1>1, <1>11 DEF NumPredefined
  <2>3. ASSUME NEW u \in 4 .. n + 1
        PROVE  /\ peer'.uris[u] \notin {EmptyStr, XML, XSI}
               /\ \/ peer'.prefixes[u] = << >>
                  \/ \E p \in Str : /\ peer'.prefixes[u] = << p >>
                                    /\ << peer'.uris[u], p >> \in Declarations
    <3>1. CASE u = n + 1
      BY <3>1, <1>4, <1>5
    <3>2. CASE u # n + 1
      <4>1. u \in 4 .. n /\ u \in 1 .. n
        BY <1>1, <3>2
      <4>2. peer'.uris[u] = peer.uris[u] /\ peer'.prefixes[u] = peer.prefixes[u]
        BY ONLY <4>1, <1>4, <1>5
      <4> QED BY ONLY <2>1, <4>1, <4>2
    <3> QED BY <3>1, <3>2
  <2>4. 3 <= NumPredefined' /\ NumPredefined' <= n + 1
    BY <1>1, <1>11 DEF NumPredefined
  <2>5. /\ peer'.uris[1] = EmptyStr /\ peer'.uris[2] = XML /\ peer'.uris[3] = XSI
        /\ UsesSchema => peer'.uris[4] = XSD
        /\ peer'.prefixes[1] = << EmptyStr >> /\ peer'.prefixes[2] = << XMLPrefix >>
        /\ peer'.prefixes[3] = << XSIPrefix >>
    BY ONLY <2>1, <2>2, <1>4, <1>5
  <2>6. 4 .. Len(peer'.uris) = 4 .. n + 1 /\ Len(peer'.uris) = n + 1
    BY <1>4
  <2> QED BY <2>3, <2>4, <2>5, <2>6 DEF PrefixesKnown
<1>14. ValuesMirrored'
  <2>1. ValuesAt(LNHeap', LNMap') = Append(ValuesAt(LNHeap, LNMap), << >>)
    BY URIView
  <2>2. \A u \in 1 .. n : ValuesAt(LNHeap', LNMap')[u] = ValuesAt(LNHeap, LNMap)[u]
    <3>1. LNHeap \in Seq(LocalName) /\ LNMap \in Seq(Seq(1 .. Len(LNHeap)))
      BY Pointers DEF BothInv
    <3>2. ValuesAt(LNHeap, LNMap) \in [1 .. Len(LNMap) -> Seq(Seq(Str))] /\ Len(LNMap) \in Nat
      BY <3>1, MapTypes
    <3>3. /\ ValuesAt(LNHeap, LNMap) \in Seq(Seq(Seq(Str)))
          /\ Len(ValuesAt(LNHeap, LNMap)) = n /\ << >> \in Seq(Seq(Str))
      BY <3>2, <1>1, FcnIsSeq
    <3>4. \A u \in 1 .. Len(ValuesAt(LNHeap, LNMap)) :
            Append(ValuesAt(LNHeap, LNMap), << >>)[u] = ValuesAt(LNHeap, LNMap)[u]
      BY ONLY <3>3, Appended
    <3> QED BY ONLY <3>3, <3>4, <2>1
  <2>3. /\ \A q \in DOMAIN peer.values :
            q.uri + 1 \in 1 .. n /\ q.local + 1 \in 1 .. Len(peer.names[q.uri + 1])
        /\ \A u \in 1 .. n : \A l \in 1 .. Len(peer.names[u]) :
             ValuesAt(LNHeap, LNMap)[u][l] = ValuesOf(MkQName(u - 1, l - 1))
    BY <1>1 DEF BothInv, ValuesMirrored
  <2>4. \A q : ValuesOf(q)' = ValuesOf(q)
    BY <1>3 DEF ValuesOf
  <2>5. ASSUME NEW q \in DOMAIN peer'.values
        PROVE  /\ q.uri + 1 \in 1 .. Len(peer'.names)
               /\ q.local + 1 \in 1 .. Len(peer'.names[q.uri + 1])
    <3>1. q.uri + 1 \in 1 .. n /\ q.local + 1 \in 1 .. Len(peer.names[q.uri + 1])
      BY <1>3, <2>3
    <3>2. peer'.names[q.uri + 1] = peer.names[q.uri + 1] /\ q.uri + 1 \in 1 .. n + 1
      BY ONLY <1>6, <1>1, <3>1
    <3> QED BY ONLY <1>6, <3>1, <3>2
  <2>6. ASSUME NEW u \in 1 .. Len(peer'.names), NEW l \in 1 .. Len(peer'.names[u])
        PROVE  ValuesAt(LNHeap', LNMap')[u][l] = ValuesOf(MkQName(u - 1, l - 1))'
    <3>1. u # n + 1
      BY <1>6
    <3>2. u \in 1 .. n
      BY ONLY <3>1, <1>1, <1>6, u \in 1 .. Len(peer'.names)
    <3>3. l \in 1 .. Len(peer.names[u])
      BY <3>2, <1>6
    <3> QED BY <2>2, <2>3, <2>4, <3>2, <3>3
  <2> QED BY <2>5, <2>6 DEF ValuesMirrored
<1>15. BothInv'
  BY <1>8, <1>9, <1>10, <1>12, <1>13, <1>14 DEF BothInv
<1> QED BY <1>4, <1>15 DEF n

(* g is m with e behind its k-th entry. *)
Longer(S, m, k, e, g) ==
  /\ g \in Seq(Seq(S)) /\ Len(g) = Len(m)
  /\ \A u \in 1 .. Len(m) : u # k => g[u] = m[u]
  /\ Len(m[k]) \in Nat /\ Len(g[k]) = Len(m[k]) + 1
  /\ g[k] = Append(m[k], e)
  /\ g[k][Len(m[k]) + 1] = e
  /\ \A l \in 1 .. Len(m[k]) : g[k][l] = m[k][l]

(* A longer entry of a sequence of sequences, and the other entries. *)
LEMMA GrownSeq ==
  ASSUME NEW S, NEW m \in Seq(Seq(S)), NEW k \in 1 .. Len(m), NEW e \in S
  PROVE  Longer(S, m, k, e, Grown(m, k, e))
<1>1. m[k] \in Seq(S)
  BY ElementOfSeq
<1>2. /\ Append(m[k], e) \in Seq(S) /\ Len(Append(m[k], e)) = Len(m[k]) + 1
      /\ Len(m[k]) \in Nat /\ Append(m[k], e)[Len(m[k]) + 1] = e
      /\ \A l \in 1 .. Len(m[k]) : Append(m[k], e)[l] = m[k][l]
  BY ONLY <1>1, e \in S, Appended
<1> DEFINE a == Append(m[k], e)
<1>3. a \in Seq(S)
  BY <1>2
<1>4. Grown(m, k, e) = [m EXCEPT ![k] = a]
  BY DEF Grown
<1> HIDE DEF a
<1>5. /\ Grown(m, k, e) \in Seq(Seq(S)) /\ Len(Grown(m, k, e)) = Len(m)
      /\ \A u \in 1 .. Len(m) : Grown(m, k, e)[u] = IF u = k THEN a ELSE m[u]
  BY <1>3, <1>4, ExceptSeq
<1>6. Grown(m, k, e)[k] = a
  BY <1>5
<1>7. Len(a) = Len(m[k]) + 1 /\ a[Len(m[k]) + 1] = e /\ a = Append(m[k], e)
      /\ \A l \in 1 .. Len(m[k]) : a[l] = m[k][l]
  BY <1>2 DEF a
<1> QED BY ONLY <1>2, <1>5, <1>6, <1>7 DEF Longer

(* Values stay where they are when no name and no value enters. *)
LEMMA ValuesKept ==
  ASSUME ValuesMirrored, peer'.values = peer.values, peer'.names = peer.names,
         ValuesAt(LNHeap', LNMap') = ValuesAt(LNHeap, LNMap)
  PROVE  ValuesMirrored'
<1>1. \A q : ValuesOf(q)' = ValuesOf(q)
  BY DEF ValuesOf
<1> QED BY <1>1 DEF ValuesMirrored

(* A call that only touches the cache, or none, disturbs nothing. *)
LEMMA NothingEntered ==
  ASSUME BothInv, [Next]_tableVars, UNCHANGED peer,
         UNCHANGED << URIMap, PrefixMap, LNMap, LNHeap, GValueMap >>
  PROVE  BothInv'
<1>1. IInv' /\ NoSharing'
  BY TableKept DEF BothInv
<1>2. PeerOK'
  BY DEF BothInv, PeerOK
<1>3. Mirrored'
  BY DEF BothInv, Mirrored
<1>4. ValuesMirrored'
  BY ValuesKept DEF BothInv
<1>5. CountsOf'
  BY DEF BothInv, CountsOf, NumPredefined
<1>6. PrefixesKnown'
  BY DEF BothInv, PrefixesKnown, NumPredefined
<1> QED BY <1>1, <1>2, <1>3, <1>4, <1>5, <1>6 DEF BothInv

(* The prefix of a URI enters on both sides. *)
LEMMA PrefixEntered ==
  ASSUME BothInv, NEW u \in 3 .. Len(peer.uris) - 1, NEW s \in Str, addPrefix(u, s),
         peer.prefixes[u + 1] = << >>, << peer.uris[u + 1], s >> \in Declarations,
         peer' = [peer EXCEPT !.prefixes[u + 1] = Append(@, s)]
  PROVE  /\ BothInv' /\ peer'.uris = peer.uris
         /\ Len(peer'.prefixes[u + 1]) = 1 /\ peer'.prefixes[u + 1][1] = s
<1> DEFINE k == u + 1  n == Len(peer.uris)
<1>1. /\ n \in Nat /\ Len(URIMap) = n /\ Len(peer.prefixes) = n /\ Len(peer.names) = n
  BY Sizes
<1>2. k \in 4 .. n /\ k \in 1 .. n /\ u \in 0 .. Len(URIMap) - 1
  BY <1>1
<1>3. /\ peer.prefixes \in Seq(Seq(Str)) /\ peer.uris \in Seq(Str)
      /\ peer.names \in Seq(Seq(Str)) /\ peer.globals \in Seq(Str)
      /\ peer.values \in ValueMaps
  BY PeerTypes
<1>4. /\ peer'.uris = peer.uris /\ peer'.names = peer.names
      /\ peer'.values = peer.values /\ peer'.globals = peer.globals
      /\ peer'.prefixes = Grown(peer.prefixes, k, s)
      /\ peer' = [uris |-> peer'.uris, prefixes |-> peer'.prefixes, names |-> peer'.names,
                  values |-> peer'.values, globals |-> peer'.globals]
  <2> HIDE DEF ValueMaps
  <2> QED BY DEF BothInv, PeerOK, Grown
<1>5. k \in 1 .. Len(peer.prefixes)
  BY <1>1, <1>2
<1> HIDE DEF k, n
<1>6. /\ peer'.prefixes \in Seq(Seq(Str)) /\ Len(peer'.prefixes) = Len(peer.prefixes)
      /\ \A v \in 1 .. Len(peer.prefixes) : v # k => peer'.prefixes[v] = peer.prefixes[v]
      /\ peer'.prefixes[k] = Append(peer.prefixes[k], s)
  <2>1. Longer(Str, peer.prefixes, k, s, Grown(peer.prefixes, k, s))
    BY ONLY <1>3, <1>5, s \in Str, GrownSeq
  <2> QED BY ONLY <1>4, <2>1 DEF Longer
<1>7. peer'.prefixes[k] = << s >> /\ peer.prefixes[k] = << >>
  <2>1. peer.prefixes[k] = << >>
    BY DEF k
  <2>2. Append(<< >>, s) = << s >>
    OBVIOUS
  <2> QED BY ONLY <1>6, <2>1, <2>2
<1>8. Next
  BY <1>2 DEF Next
<1>9. IInv' /\ NoSharing'
  BY <1>8, TableKept DEF BothInv
<1>10. /\ PrefixMap' = Grown(PrefixMap, k, s)
       /\ URINames(URIMap') = URINames(URIMap)
       /\ UNCHANGED << LNMap, LNHeap, GValueMap >>
  <2>1. Partitions!NewPrefix(k, s)
    BY <1>2, AddPrefixMaps DEF BothInv, k
  <2> QED BY <2>1 DEF addPrefix, Partitions!NewPrefix, URINames, Grown, k
<1>11. PeerOK'
  <2>1. /\ peer'.uris \in Seq(Str) /\ peer'.prefixes \in Seq(Seq(Str))
        /\ peer'.names \in Seq(Seq(Str)) /\ peer'.values \in ValueMaps
        /\ peer'.globals \in Seq(Str)
        /\ Len(peer'.prefixes) = Len(peer'.uris) /\ Len(peer'.names) = Len(peer'.uris)
    BY ONLY <1>1, <1>3, <1>4, <1>6 DEF n
  <2> QED BY ONLY <1>4, <2>1 DEF PeerOK
<1>12. Mirrored'
  BY <1>4, <1>10 DEF BothInv, Mirrored
<1>13. ValuesMirrored'
  BY <1>4, <1>10, ValuesKept DEF BothInv
<1>14. CountsOf'
  <2>1. \A v \in 1 .. n :
          /\ URIMap[v].prefixElts = Len(peer.prefixes[v]) + (IF v <= 3 THEN 1 ELSE 0)
          /\ v \notin 2 .. NumPredefined => URIMap[v].lnElts = Len(peer.names[v])
    BY DEF BothInv, CountsOf, n
  <2>2. URIMap \in Seq(URIInfo) /\ DOMAIN URIMap = 1 .. n /\ URIMap[k] \in URIInfo
    BY <1>1, <1>2, Pointers, LenProperties, ElementOfSeq DEF BothInv
  <2>3. URIMap' = [URIMap EXCEPT ![k].prefixElts = @ + 1]
    BY DEF addPrefix, k
  <2>4. /\ \A v \in 1 .. n : v # k => URIMap'[v] = URIMap[v]
        /\ URIMap'[k].prefixElts = URIMap[k].prefixElts + 1
        /\ URIMap'[k].lnElts = URIMap[k].lnElts
    BY <1>2, <2>2, <2>3 DEF URIInfo
  <2>5. Len(peer'.prefixes[k]) = 1 /\ Len(peer.prefixes[k]) = 0
    BY <1>7
  <2> SUFFICES ASSUME NEW v \in 1 .. n
               PROVE  /\ URIMap'[v].prefixElts
                            = Len(peer'.prefixes[v]) + (IF v <= 3 THEN 1 ELSE 0)
                      /\ v \notin 2 .. NumPredefined => URIMap'[v].lnElts = Len(peer'.names[v])
    BY <1>4 DEF CountsOf, NumPredefined, n
  <2>6. CASE v # k
    <3>1. peer'.prefixes[v] = peer.prefixes[v]
      BY <1>1, <1>6, <2>6
    <3> QED BY ONLY <3>1, <2>6, <2>1, <2>4, <1>4, v \in 1 .. n
  <2>7. CASE v = k
    <3>1. ~ (v <= 3) /\ 0 + 0 = 0 /\ 0 + 1 = 1 + 0
      BY <1>2, <2>7
    <3> QED BY ONLY <3>1, <2>7, <2>1, <2>4, <2>5, <1>4, v \in 1 .. n
  <2> QED BY <2>6, <2>7
<1>15. PrefixesKnown'
  <2>1. /\ 3 <= NumPredefined /\ NumPredefined <= n
        /\ peer.uris[1] = EmptyStr /\ peer.uris[2] = XML /\ peer.uris[3] = XSI
        /\ UsesSchema => peer.uris[4] = XSD
        /\ peer.prefixes[1] = << EmptyStr >> /\ peer.prefixes[2] = << XMLPrefix >>
        /\ peer.prefixes[3] = << XSIPrefix >>
        /\ \A v \in 4 .. n :
             /\ peer.uris[v] \notin {EmptyStr, XML, XSI}
             /\ \/ peer.prefixes[v] = << >>
                \/ \E p \in Str : /\ peer.prefixes[v] = << p >>
                                  /\ << peer.uris[v], p >> \in Declarations
    BY DEF BothInv, PrefixesKnown, n
  <2>2. /\ 1 \in 1 .. n /\ 2 \in 1 .. n /\ 3 \in 1 .. n
        /\ k # 1 /\ k # 2 /\ k # 3 /\ 4 .. n \subseteq 1 .. n
    BY <1>1, <1>2
  <2>3. /\ peer'.prefixes[1] = peer.prefixes[1] /\ peer'.prefixes[2] = peer.prefixes[2]
        /\ peer'.prefixes[3] = peer.prefixes[3]
        /\ \A v \in 4 .. n : v # k => peer'.prefixes[v] = peer.prefixes[v]
    BY ONLY <1>1, <1>6, <2>2
  <2>4. ASSUME NEW v \in 4 .. n
        PROVE  /\ peer'.uris[v] \notin {EmptyStr, XML, XSI}
               /\ \/ peer'.prefixes[v] = << >>
                  \/ \E p \in Str : /\ peer'.prefixes[v] = << p >>
                                    /\ << peer'.uris[v], p >> \in Declarations
    <3>1. CASE v = k
      <4>1. peer'.prefixes[v] = << s >> /\ << peer'.uris[v], s >> \in Declarations
        BY <1>4, <1>7, <3>1 DEF k
      <4> QED BY ONLY <4>1, s \in Str, <2>1, <1>4, v \in 4 .. n
    <3>2. CASE v # k
      BY ONLY <3>2, <1>4, <2>1, <2>3, v \in 4 .. n
    <3> QED BY <3>1, <3>2
  <2>5. NumPredefined' = NumPredefined /\ 4 .. Len(peer'.uris) = 4 .. n
    BY <1>4 DEF NumPredefined, n
  <2> QED BY <1>4, <2>1, <2>3, <2>4, <2>5 DEF PrefixesKnown, n
<1>16. BothInv'
  BY <1>9, <1>11, <1>12, <1>13, <1>14, <1>15 DEF BothInv
<1> QED BY <1>4, <1>7, <1>16 DEF k

(* A name enters on both sides: no predefined namespace is concerned.      *)
LEMMA NameEntered ==
  ASSUME BothInv, NEW u \in 0 .. Len(peer.uris) - 1, u + 1 \notin 2 .. NumPredefined,
         NEW s \in Str, addLocalName(u, s),
         peer' = [peer EXCEPT !.names[u + 1] = Append(@, s)]
  PROVE  /\ BothInv' /\ peer'.uris = peer.uris /\ peer'.prefixes = peer.prefixes
         /\ LNHeap'[At(At(LNMap', u), returned'.id)].name = s
<1> DEFINE k == u + 1  n == Len(peer.uris)
<1>1. /\ n \in Nat /\ Len(URIMap) = n /\ Len(LNMap) = n
      /\ Len(peer.prefixes) = n /\ Len(peer.names) = n
  BY Sizes
<1>2. k \in 1 .. n /\ u \in 0 .. Len(URIMap) - 1 /\ u \in Nat
  BY <1>1
<1>3. /\ peer.prefixes \in Seq(Seq(Str)) /\ peer.uris \in Seq(Str)
      /\ peer.names \in Seq(Seq(Str)) /\ peer.globals \in Seq(Str)
      /\ peer.values \in ValueMaps
  BY PeerTypes
<1>4. /\ peer'.uris = peer.uris /\ peer'.prefixes = peer.prefixes
      /\ peer'.values = peer.values /\ peer'.globals = peer.globals
      /\ peer'.names = Grown(peer.names, k, s)
      /\ peer' = [uris |-> peer'.uris, prefixes |-> peer'.prefixes, names |-> peer'.names,
                  values |-> peer'.values, globals |-> peer'.globals]
  <2> HIDE DEF ValueMaps
  <2> QED BY DEF BothInv, PeerOK, Grown
<1>5. k \in 1 .. Len(peer.names) /\ k \in 1 .. Len(LNMap)
  BY <1>1, <1>2
<1>0. k \notin 2 .. NumPredefined
  OBVIOUS
<1>a. Next
  BY <1>2 DEF Next
<1>b. IInv' /\ NoSharing'
  BY <1>a, TableKept DEF BothInv
<1>c. /\ PrefixMap' = PrefixMap /\ URINames(URIMap') = URINames(URIMap)
      /\ NamesOf(LNHeap', LNMap') = Grown(NamesOf(LNHeap, LNMap), k, s)
      /\ ValuesAt(LNHeap', LNMap') = Grown(ValuesAt(LNHeap, LNMap), k, << >>)
      /\ GValueMap' = GValueMap
  <2>1. Partitions!NewLocalName(k, s)
    BY <1>b, <1>2, AddLocalNameMaps DEF BothInv
  <2> QED BY <2>1
        DEF Partitions!NewLocalName, URINames, NamesOf, NamesIn, ValuesAt, ValuesIn, Grown
<1> HIDE DEF k, n
<1>6. Longer(Str, peer.names, k, s, peer'.names)
  <2>1. Longer(Str, peer.names, k, s, Grown(peer.names, k, s))
    BY ONLY <1>3, <1>5, s \in Str, GrownSeq
  <2> QED BY ONLY <1>4, <2>1
<1>7. /\ peer'.names \in Seq(Seq(Str)) /\ Len(peer'.names) = n
      /\ \A v \in 1 .. n : v # k => peer'.names[v] = peer.names[v]
      /\ Len(peer.names[k]) \in Nat /\ Len(peer'.names[k]) = Len(peer.names[k]) + 1
  BY ONLY <1>1, <1>6 DEF Longer
<1>8. PeerOK'
  <2>1. /\ peer'.uris \in Seq(Str) /\ peer'.prefixes \in Seq(Seq(Str))
        /\ peer'.names \in Seq(Seq(Str)) /\ peer'.values \in ValueMaps
        /\ peer'.globals \in Seq(Str)
        /\ Len(peer'.prefixes) = Len(peer'.uris) /\ Len(peer'.names) = Len(peer'.uris)
    BY ONLY <1>1, <1>3, <1>4, <1>7 DEF n
  <2> QED BY ONLY <1>4, <2>1 DEF PeerOK
<1>9. Mirrored'
  BY <1>4, <1>c DEF BothInv, Mirrored
<1>10. CountsOf'
  <2>1. \A v \in 1 .. n :
          /\ URIMap[v].prefixElts = Len(peer.prefixes[v]) + (IF v <= 3 THEN 1 ELSE 0)
          /\ v \notin 2 .. NumPredefined => URIMap[v].lnElts = Len(peer.names[v])
    BY DEF BothInv, CountsOf, n
  <2>2. URIMap \in Seq(URIInfo) /\ DOMAIN URIMap = 1 .. n /\ URIMap[k] \in URIInfo
    BY <1>1, <1>2, Pointers, LenProperties, ElementOfSeq DEF BothInv, k
  <2>3. URIMap' = [URIMap EXCEPT ![k].lnElts = @ + 1]
    BY DEF addLocalName, k
  <2>4. k \in 1 .. n
    BY <1>2
  <2>5. /\ \A v \in 1 .. n : v # k => URIMap'[v] = URIMap[v]
        /\ URIMap'[k].prefixElts = URIMap[k].prefixElts
        /\ URIMap'[k].lnElts = URIMap[k].lnElts + 1
    BY <2>2, <2>3, <2>4 DEF URIInfo
  <2> SUFFICES ASSUME NEW v \in 1 .. n
               PROVE  /\ URIMap'[v].prefixElts
                            = Len(peer'.prefixes[v]) + (IF v <= 3 THEN 1 ELSE 0)
                      /\ v \notin 2 .. NumPredefined => URIMap'[v].lnElts = Len(peer'.names[v])
    BY <1>4 DEF CountsOf, NumPredefined, n
  <2>6. CASE v # k
    BY ONLY <2>6, <2>1, <2>5, <1>4, <1>7, v \in 1 .. n
  <2>7. CASE v = k
    BY ONLY <2>7, <2>1, <2>5, <1>4, <1>7, <1>0, v \in 1 .. n
  <2> QED BY <2>6, <2>7
<1>11. PrefixesKnown'
  <2>1. PrefixesKnown
    BY DEF BothInv
  <2> QED BY ONLY <1>4, <2>1 DEF PrefixesKnown, NumPredefined
<1>12. ValuesMirrored'
  <2>1. /\ \A r \in DOMAIN peer.values :
             r.uri + 1 \in 1 .. n /\ r.local + 1 \in 1 .. Len(peer.names[r.uri + 1])
        /\ \A v \in 1 .. n : \A l \in 1 .. Len(peer.names[v]) :
             ValuesAt(LNHeap, LNMap)[v][l] = ValuesOf(MkQName(v - 1, l - 1))
    BY <1>1 DEF BothInv, ValuesMirrored
  <2>2. \A q : ValuesOf(q)' = ValuesOf(q)
    BY <1>4 DEF ValuesOf
  <2>3. ASSUME NEW r \in DOMAIN peer'.values
        PROVE  /\ r.uri + 1 \in 1 .. Len(peer'.names)
               /\ r.local + 1 \in 1 .. Len(peer'.names[r.uri + 1])
    <3>1. r.uri + 1 \in 1 .. n /\ r.local + 1 \in 1 .. Len(peer.names[r.uri + 1])
      BY <1>4, <2>1
    <3> DEFINE v == r.uri + 1  l == r.local + 1
    <3>2. v \in 1 .. n /\ l \in 1 .. Len(peer.names[v])
      BY <3>1
    <3> HIDE DEF v, l
    <3>3. l \in 1 .. Len(peer'.names[v])
      <4>1. CASE v = k
        BY ONLY <4>1, <1>7, <3>2
      <4>2. CASE v # k
        BY ONLY <4>2, <1>7, <3>2
      <4> QED BY <4>1, <4>2
    <3> QED BY ONLY <1>7, <3>2, <3>3 DEF v, l
  <2>4. LET w == ValuesAt(LNHeap, LNMap)
        IN  /\ \A v \in 1 .. n : v # k => Grown(w, k, << >>)[v] = w[v]
            /\ \A l \in 1 .. Len(peer.names[k]) : Grown(w, k, << >>)[k][l] = w[k][l]
            /\ Grown(w, k, << >>)[k][Len(peer.names[k]) + 1] = << >>
    <3> DEFINE w == ValuesAt(LNHeap, LNMap)
    <3>1. LNHeap \in Seq(LocalName) /\ LNMap \in Seq(Seq(1 .. Len(LNHeap)))
      BY Pointers DEF BothInv
    <3>2. w \in [1 .. Len(LNMap) -> Seq(Seq(Str))] /\ Len(LNMap) \in Nat
      BY <3>1, MapTypes
    <3>3. w \in Seq(Seq(Seq(Str))) /\ Len(w) = n /\ << >> \in Seq(Str)
      BY <3>2, <1>1, FcnIsSeq
    <3>4. k \in 1 .. Len(w)
      BY <3>3, <1>2
    <3>5. Len(w[k]) = Len(peer.names[k])
      <4>1. w[k] = ValuesIn(LNHeap, LNMap[k])
        BY <1>5 DEF ValuesAt
      <4>2. LNMap[k] \in Seq(1 .. Len(LNHeap))
        BY <1>5, Pointers DEF BothInv
      <4>3. Len(w[k]) = Len(LNMap[k])
        BY <3>1, <4>1, <4>2, ReadTypes
      <4> QED BY <4>3, <1>2, SameStrings DEF n
    <3> HIDE DEF w
    <3>6. Longer(Seq(Str), w, k, << >>, Grown(w, k, << >>))
      BY ONLY <3>3, <3>4, GrownSeq
    <3>7. /\ \A v \in 1 .. n : v # k => Grown(w, k, << >>)[v] = w[v]
          /\ \A l \in 1 .. Len(peer.names[k]) : Grown(w, k, << >>)[k][l] = w[k][l]
          /\ Grown(w, k, << >>)[k][Len(peer.names[k]) + 1] = << >>
      BY ONLY <3>3, <3>5, <3>6 DEF Longer
    <3> QED BY <3>7 DEF w
  <2>5. /\ \A v \in 1 .. n : v # k => ValuesAt(LNHeap', LNMap')[v] = ValuesAt(LNHeap, LNMap)[v]
        /\ \A l \in 1 .. Len(peer.names[k]) :
             ValuesAt(LNHeap', LNMap')[k][l] = ValuesAt(LNHeap, LNMap)[k][l]
        /\ ValuesAt(LNHeap', LNMap')[k][Len(peer.names[k]) + 1] = << >>
    BY ONLY <1>c, <2>4
  <2>6. ASSUME NEW v \in 1 .. n, NEW l \in 1 .. Len(peer'.names[v])
        PROVE  ValuesAt(LNHeap', LNMap')[v][l] = ValuesOf(MkQName(v - 1, l - 1))
    <3>1. CASE v # k
      <4>1. peer'.names[v] = peer.names[v]
        BY ONLY <3>1, <1>7, v \in 1 .. n
      <4>2. ValuesAt(LNHeap', LNMap')[v] = ValuesAt(LNHeap, LNMap)[v]
        BY ONLY <3>1, <2>5, v \in 1 .. n
      <4>3. l \in 1 .. Len(peer.names[v])
        BY ONLY <4>1, l \in 1 .. Len(peer'.names[v])
      <4> QED BY ONLY <4>2, <4>3, <2>1, v \in 1 .. n
    <3>2. CASE v = k /\ l # Len(peer.names[k]) + 1
      <4>1. l \in 1 .. Len(peer.names[k])
        BY ONLY <3>2, <1>7, l \in 1 .. Len(peer'.names[v])
      <4>2. ValuesAt(LNHeap', LNMap')[k][l] = ValuesAt(LNHeap, LNMap)[k][l]
        BY ONLY <4>1, <2>5
      <4>3. ValuesAt(LNHeap, LNMap)[v][l] = ValuesOf(MkQName(v - 1, l - 1))
        BY ONLY <3>2, <4>1, <2>1, v \in 1 .. n
      <4> QED BY ONLY <3>2, <4>2, <4>3
    <3>3. CASE v = k /\ l = Len(peer.names[k]) + 1
      <4>1. MkQName(v - 1, l - 1).uri = v - 1 /\ MkQName(v - 1, l - 1).local = l - 1
        BY DEF MkQName
      <4>2. v - 1 + 1 = k /\ l - 1 + 1 = Len(peer.names[k]) + 1
        BY ONLY <3>3, <1>7, <1>2, v \in 1 .. n
      <4>3. MkQName(v - 1, l - 1) \notin DOMAIN peer.values
        <5> DEFINE r == MkQName(v - 1, l - 1)
        <5> SUFFICES ASSUME r \in DOMAIN peer.values PROVE FALSE
          OBVIOUS
        <5>1. r.uri + 1 = k /\ r.local + 1 = Len(peer.names[k]) + 1
          BY ONLY <4>1, <4>2
        <5>2. r.local + 1 \in 1 .. Len(peer.names[r.uri + 1])
          BY <2>1
        <5> HIDE DEF r
        <5> QED BY ONLY <5>1, <5>2, <1>7
      <4> QED BY ONLY <3>3, <4>3, <2>5 DEF ValuesOf
    <3> QED BY <3>1, <3>2, <3>3
  <2> QED BY <1>7, <2>2, <2>3, <2>6 DEF ValuesMirrored
<1>13. BothInv'
  BY <1>b, <1>8, <1>9, <1>10, <1>11, <1>12 DEF BothInv
<1>14. LNHeap'[At(At(LNMap', u), returned'.id)].name = s
  <2>1. returned'.id = At(URIMap, u).lnElts
    BY DEF addLocalName, NothingReturned
  <2>2. At(URIMap, u).lnElts = Len(peer.names[k]) /\ Len(peer.names[k]) = Len(LNMap[k])
    BY <1>0, <1>2, SameStrings DEF BothInv, CountsOf, At, k, n
  <2>3. LNMap'[k][Len(LNMap[k]) + 1] = Len(LNHeap) + 1
    BY <1>2, MapAfterName DEF BothInv, k
  <2>4. LNHeap'[Len(LNHeap) + 1] = NewLocalName(s)
    BY <1>2, MapAfterName DEF BothInv
  <2> QED BY <2>1, <2>2, <2>3, <2>4 DEF At, k, NewLocalName
<1> QED BY <1>4, <1>13, <1>14

(* What the partition of a name holds, and what it is made into. *)
LEMMA ValuesTypes ==
  ASSUME peer.values \in ValueMaps, NEW q \in QName, NEW s \in Str
  PROVE  /\ ValuesOf(q) \in Seq(Str) /\ Append(ValuesOf(q), s) \in Seq(Str)
         /\ WithValue(q, s) \in ValueMaps
         /\ DOMAIN WithValue(q, s) = DOMAIN peer.values \union {q}
<1>1. PICK D \in SUBSET QName : peer.values \in [D -> Seq(Str)]
  BY DEF ValueMaps
<1>2. ValuesOf(q) \in Seq(Str)
  BY <1>1, EmptySeq DEF ValuesOf
<1>3. Append(ValuesOf(q), s) \in Seq(Str)
  BY <1>2, AppendProperties
<1>4. WithValue(q, s) \in [D \union {q} -> Seq(Str)] /\ D \union {q} \in SUBSET QName
  BY <1>1, <1>3 DEF WithValue
<1>5. WithValue(q, s) \in ValueMaps
  BY <1>4 DEF ValueMaps
<1>6. DOMAIN WithValue(q, s) = DOMAIN peer.values \union {q}
  BY DEF WithValue
<1> QED BY <1>2, <1>3, <1>5, <1>6

(* A value enters on both sides, under the name it belongs to and in the   *)
(* global partition.                                                       *)
LEMMA ValueEntered ==
  ASSUME BothInv, NEW q \in ValidQNames, NEW s \in Str, addValue(q, s),
         peer' = [peer EXCEPT !.globals = Append(@, s), !.values = WithValue(q, s)]
  PROVE  /\ BothInv' /\ peer'.uris = peer.uris /\ peer'.prefixes = peer.prefixes
         /\ LNHeap'[LVPartition(q)].values[returned'.id + 1] = s
<1> DEFINE k == q.uri + 1  m == q.local + 1  n == Len(peer.uris)
           w == ValuesAt(LNHeap, LNMap)
<1>1. q \in QName /\ ValidQName(q) /\ q = MkQName(q.uri, q.local)
      /\ q.uri \in Nat /\ q.local \in Nat
  BY DEF ValidQNames, QName, MkQName
<1>2. /\ n \in Nat /\ Len(URIMap) = n /\ Len(LNMap) = n
      /\ Len(peer.prefixes) = n /\ Len(peer.names) = n
  BY Sizes
<1>3. /\ peer.prefixes \in Seq(Seq(Str)) /\ peer.uris \in Seq(Str)
      /\ peer.names \in Seq(Seq(Str)) /\ peer.globals \in Seq(Str)
      /\ peer.values \in ValueMaps
  BY PeerTypes
<1>4. /\ peer'.uris = peer.uris /\ peer'.prefixes = peer.prefixes /\ peer'.names = peer.names
      /\ peer'.values = WithValue(q, s) /\ peer'.globals = Append(peer.globals, s)
      /\ peer' = [uris |-> peer'.uris, prefixes |-> peer'.prefixes, names |-> peer'.names,
                  values |-> peer'.values, globals |-> peer'.globals]
  <2> HIDE DEF ValueMaps
  <2> QED BY DEF BothInv, PeerOK
<1>5. IInv' /\ NoSharing'
  BY TableKept DEF BothInv, Next
<1>6. /\ k \in 1 .. n /\ m \in 1 .. Len(LNMap[k]) /\ k \in 1 .. Len(LNMap)
      /\ URINames(URIMap') = URINames(URIMap) /\ PrefixMap' = PrefixMap
      /\ NamesOf(LNHeap', LNMap') = NamesOf(LNHeap, LNMap)
      /\ ValuesAt(LNHeap', LNMap') = GrownIn(ValuesAt(LNHeap, LNMap), k, m, s)
      /\ GValueMap' = Append(GValueMap, s)
  <2>1. /\ q.uri + 1 \in 1 .. Len(URIMap) /\ q.local + 1 \in 1 .. Len(LNMap[q.uri + 1])
        /\ Partitions!NewValue(q.uri + 1, q.local + 1, s)
    BY <1>1, AddValueMaps DEF BothInv
  <2> QED BY <2>1, <1>2
        DEF Partitions!NewValue, URINames, NamesOf, NamesIn, ValuesAt, ValuesIn, GrownIn
<1>7. Len(peer.names[k]) = Len(LNMap[k])
  BY <1>6, SameStrings
<1>8. PeerOK'
  <2>1. WithValue(q, s) \in ValueMaps
    BY <1>1, <1>3, ValuesTypes
  <2>2. Append(peer.globals, s) \in Seq(Str)
    BY <1>3, AppendProperties
  <2>3. /\ peer'.uris \in Seq(Str) /\ peer'.prefixes \in Seq(Seq(Str))
        /\ peer'.names \in Seq(Seq(Str)) /\ peer'.values \in ValueMaps
        /\ peer'.globals \in Seq(Str)
        /\ Len(peer'.prefixes) = Len(peer'.uris) /\ Len(peer'.names) = Len(peer'.uris)
    BY ONLY <1>2, <1>3, <1>4, <2>1, <2>2
  <2> QED BY ONLY <1>4, <2>3 DEF PeerOK
<1>9. Mirrored'
  BY <1>4, <1>6 DEF BothInv, Mirrored
<1>10. CountsOf'
  <2>1. URIMap' = URIMap
    BY DEF addValue, addLocalValue
  <2> QED BY <1>4, <2>1 DEF BothInv, CountsOf, NumPredefined
<1>11. PrefixesKnown'
  <2>1. PrefixesKnown
    BY DEF BothInv
  <2> QED BY ONLY <1>4, <2>1 DEF PrefixesKnown, NumPredefined
<1>12. ValuesMirrored'
  <2>1. /\ \A r \in DOMAIN peer.values :
             r.uri + 1 \in 1 .. n /\ r.local + 1 \in 1 .. Len(peer.names[r.uri + 1])
        /\ \A v \in 1 .. n : \A l \in 1 .. Len(peer.names[v]) :
             w[v][l] = ValuesOf(MkQName(v - 1, l - 1))
    BY <1>2 DEF BothInv, ValuesMirrored
  <2>2. DOMAIN peer'.values = DOMAIN peer.values \union {q}
    BY <1>1, <1>3, <1>4, ValuesTypes
  <2>3. \A r : ValuesOf(r)' = IF r = q THEN Append(ValuesOf(q), s) ELSE ValuesOf(r)
    BY <1>4 DEF ValuesOf, WithValue
  <2>4. ASSUME NEW r \in DOMAIN peer'.values
        PROVE  /\ r.uri + 1 \in 1 .. Len(peer'.names)
               /\ r.local + 1 \in 1 .. Len(peer'.names[r.uri + 1])
    BY <1>2, <1>4, <1>6, <1>7, <2>1, <2>2
  <2>5. /\ w \in [1 .. n -> Seq(Seq(Str))] /\ DOMAIN w = 1 .. n
        /\ \A v \in 1 .. n : DOMAIN w[v] = 1 .. Len(w[v]) /\ Len(w[v]) = Len(peer.names[v])
    <3>1. LNHeap \in Seq(LocalName) /\ LNMap \in Seq(Seq(1 .. Len(LNHeap)))
      BY Pointers DEF BothInv
    <3>2. w \in [1 .. n -> Seq(Seq(Str))]
      BY <3>1, <1>2, MapTypes
    <3>3. ASSUME NEW v \in 1 .. n
          PROVE  DOMAIN w[v] = 1 .. Len(w[v]) /\ Len(w[v]) = Len(peer.names[v])
      <4>1. w[v] = ValuesIn(LNHeap, LNMap[v])
        BY <1>2 DEF ValuesAt
      <4>2. LNMap[v] \in Seq(1 .. Len(LNHeap))
        BY <1>2, Pointers DEF BothInv
      <4>3. Len(w[v]) = Len(LNMap[v]) /\ w[v] \in Seq(Seq(Str))
        BY <3>1, <4>1, <4>2, ReadTypes
      <4>4. Len(LNMap[v]) = Len(peer.names[v])
        BY SameStrings
      <4> QED BY <4>3, <4>4, LenProperties
    <3> QED BY <3>2, <3>3
  <2>6. k \in 1 .. n /\ m \in 1 .. Len(w[k])
    BY <1>6, <1>7, <2>5
  <2> HIDE DEF w, k, m, n
  <2>7. \A v \in 1 .. n : \A l \in 1 .. Len(peer.names[v]) :
          GrownIn(w, k, m, s)[v][l] = IF v = k /\ l = m THEN Append(w[k][m], s) ELSE w[v][l]
    BY ONLY <2>5, <2>6 DEF GrownIn
  <2>8. ASSUME NEW v \in 1 .. n, NEW l \in 1 .. Len(peer.names[v])
        PROVE  ValuesAt(LNHeap', LNMap')[v][l] = ValuesOf(MkQName(v - 1, l - 1))'
    <3>1. v = k /\ l = m <=> MkQName(v - 1, l - 1) = q
      <4>1. MkQName(v - 1, l - 1).uri = v - 1 /\ MkQName(v - 1, l - 1).local = l - 1
        BY DEF MkQName
      <4>2. v \in Int /\ l \in Int
        OBVIOUS
      <4>3. v = k /\ l = m => v - 1 = q.uri /\ l - 1 = q.local
        BY ONLY <1>1 DEF k, m
      <4>4. v - 1 = q.uri /\ l - 1 = q.local => v = k /\ l = m
        BY ONLY <1>1, <4>2 DEF k, m
      <4> QED BY ONLY <1>1, <4>1, <4>3, <4>4
    <3>2. ValuesAt(LNHeap', LNMap')[v][l]
            = IF v = k /\ l = m THEN Append(w[k][m], s) ELSE w[v][l]
      BY <1>6, <2>7 DEF w
    <3>3. ValuesOf(MkQName(v - 1, l - 1))'
            = IF MkQName(v - 1, l - 1) = q THEN Append(ValuesOf(q), s)
              ELSE ValuesOf(MkQName(v - 1, l - 1))
      BY <2>3
    <3>4. w[v][l] = ValuesOf(MkQName(v - 1, l - 1))
      BY ONLY <2>1, v \in 1 .. n, l \in 1 .. Len(peer.names[v])
    <3> QED BY ONLY <3>1, <3>2, <3>3, <3>4
  <2>9. Len(peer'.names) = n /\ peer'.names = peer.names
    BY <1>2, <1>4
  <2> QED BY <2>4, <2>8, <2>9 DEF ValuesMirrored
<1>13. BothInv'
  BY <1>5, <1>8, <1>9, <1>10, <1>11, <1>12 DEF BothInv
<1>14. LNHeap'[LVPartition(q)].values[returned'.id + 1] = s
  <2> DEFINE a == LVPartition(q)
  <2>1. a = LNMap[k][m]
    BY <1>1, CachedLookup DEF BothInv, At
  <2>2. a \in 1 .. Len(LNHeap) /\ LNHeap \in Seq(LocalName)
    BY <1>6, <2>1, Pointers DEF BothInv
  <2>3. /\ LNHeap[a] \in LocalName /\ DOMAIN LNHeap = 1 .. Len(LNHeap)
    BY <2>2, ElementOfSeq, LenProperties
  <2>4. LNHeap' = [LNHeap EXCEPT ![a].values = Append(@, s)]
        /\ returned'.id = Len(LNHeap[a].values)
    BY DEF addValue, addLocalValue
  <2> HIDE DEF a
  <2>5. LNHeap[a].values \in Seq(Str) /\ LNHeap'[a].values = Append(LNHeap[a].values, s)
    BY <2>2, <2>3, <2>4 DEF LocalName
  <2> QED BY <2>4, <2>5, Appended DEF a
<1> QED BY <1>4, <1>13, <1>14

(***************************************************************************)
(* Every item is read as it was written.                                   *)
(***************************************************************************)

(* Where an item under way stands. *)
LEMMA ItemAt ==
  ASSUME CodecInv, item.next # "event"
  PROVE  /\ item.uri \in 0 .. Len(peer.uris) - 1 /\ item.pos = item.uri + 1
         /\ item.pos \in 1 .. Len(peer.uris) /\ item.uri \in 0 .. Len(URIMap) - 1
<1>1. item.uri \in Nat /\ item.pos \in 1 .. Len(peer.uris) /\ item.pos = item.uri + 1
  BY DEF CodecInv, ItemOK
<1>2. Len(peer.uris) \in Nat /\ Len(URIMap) = Len(peer.uris)
  BY Sizes DEF CodecInv
<1> QED BY ONLY <1>1, <1>2

(* An item that is over leaves nothing behind. *)
LEMMA Idle == ASSUME item' = Between PROVE ItemOK'
BY DEF ItemOK, Between

(* A URI, known or new, that a name or a declaration follows.              *)
LEMMA URIRead ==
  ASSUME CodecInv, status = "running", NEW s \in Str, NEW next \in {"name", "pfx"},
         decodeURI(s, next)
  PROVE  CodecInv'
<1> DEFINE f == URIField(s)
           n == Len(peer.uris)
           Continue(id) ==
             item' = [Between EXCEPT !.next = next, !.uri = id,
                                     !.pos = IF f.val = 0 THEN n + 1 ELSE f.val]
<1>1. /\ BothInv /\ peer.uris \in Seq(Str) /\ n \in Nat /\ Len(URIMap) = n /\ URICount = n
  BY Sizes, PeerTypes DEF CodecInv
<1>2. /\ f.val \in 0 .. n
      /\ f.val # 0 => peer.uris[f.val] = s
      /\ f.val = 0 => ~Found(peer.uris, s)
  <2>1. f.val = IF Found(peer.uris, s) THEN Position(peer.uris, s) ELSE 0
    BY DEF URIField, Field
  <2>2. ASSUME Found(peer.uris, s)
        PROVE  Position(peer.uris, s) \in 1 .. n /\ peer.uris[Position(peer.uris, s)] = s
    BY <1>1, <2>2, PositionIs
  <2> QED BY <1>1, <2>1, <2>2
<1>3. readBits64(f, getURILog) = {f.val} /\ InStep(f, getURILog) = "running"
  <2>1. getURILog = CeilLog2(n + 1) /\ CeilLog2(n + 1) \in Nat
    BY <1>1, WidthType DEF getURILog
  <2>2. f = Field(CeilLog2(n + 1), f.val) /\ f.val \in Nat
    BY <1>1, <1>2 DEF URIField, Field
  <2> HIDE DEF f, n
  <2> QED BY <2>1, <2>2, ReadsField
<1>4. /\ peer' = IF f.val # 0 THEN peer
                 ELSE [peer EXCEPT !.uris = Append(@, s), !.prefixes = Append(@, << >>),
                                   !.names = Append(@, << >>)]
      /\ \/ /\ f.val = 0 /\ addURI(s, None) /\ Continue(returned'.id) /\ Read(s, s)
         \/ /\ f.val # 0 /\ Keep /\ Continue(f.val - 1) /\ Read(s, getURI(f.val - 1))
         \/ /\ f.val # 0 /\ ~hasURI(f.val - 1)
      /\ f.val = 0 \/ hasURI(f.val - 1) => status' = "running"
  BY <1>3 DEF decodeURI
<1> HIDE DEF f
<1>5. CASE f.val = 0
  <2>1. addURI(s, None) /\ Continue(returned'.id) /\ Read(s, s) /\ status' = "running"
    BY <1>4, <1>5
  <2>2. s \notin {EmptyStr, XML, XSI}
    <3>1. /\ peer.uris[1] = EmptyStr /\ peer.uris[2] = XML /\ peer.uris[3] = XSI
          /\ 3 <= NumPredefined /\ NumPredefined <= n /\ NumPredefined \in Nat
      BY <1>1 DEF BothInv, PrefixesKnown, NumPredefined
    <3>2. DOMAIN peer.uris = 1 .. n /\ 1 \in 1 .. n /\ 2 \in 1 .. n /\ 3 \in 1 .. n
      BY <1>1, <3>1, LenProperties
    <3> QED BY <1>2, <1>5, <3>1, <3>2 DEF Found
  <2>3. BothInv' /\ Len(peer'.uris) = n + 1
    BY <1>1, <1>4, <1>5, <2>1, <2>2, URIEntered
  <2>4. returned'.id = n
    BY <1>1, <2>1 DEF addURI, NothingReturned
  <2>5. item' = [next |-> next, uri |-> n, pos |-> n + 1, pfx |-> 0, str |-> None]
    BY <1>5, <2>1, <2>4 DEF Between
  <2>6. ItemOK'
    BY <1>1, <2>3, <2>5 DEF ItemOK
  <2>7. SoFar'
    BY <2>1 DEF SoFar, Read
  <2> QED BY <2>3, <2>6, <2>7 DEF CodecInv
<1>6. CASE f.val # 0
  <2>1. f.val \in 1 .. n /\ hasURI(f.val - 1)
    BY <1>1, <1>2, <1>6 DEF hasURI
  <2>2. /\ Keep /\ Continue(f.val - 1) /\ Read(s, getURI(f.val - 1)) /\ status' = "running"
        /\ peer' = peer
    BY <1>4, <1>6, <2>1
  <2>3. BothInv'
    BY <1>1, <2>2, NothingEntered DEF Keep, tableVars
  <2>4. item' = [next |-> next, uri |-> f.val - 1, pos |-> f.val, pfx |-> 0, str |-> None]
    BY <1>6, <2>2 DEF Between
  <2>5. ItemOK'
    <3>1. f.val - 1 \in Nat /\ f.val \in Nat /\ f.val - 1 + 1 = f.val
      BY <1>1, <2>1
    <3>2. f.val \in 1 .. Len(peer'.uris)
      BY <2>1, <2>2
    <3> QED BY ONLY <2>4, <3>1, <3>2, next \in {"name", "pfx"} DEF ItemOK
  <2>6. getURI(f.val - 1) = s
    <3>1. f.val - 1 + 1 = f.val
      BY <2>1
    <3> QED BY <1>1, <1>2, <1>6, <2>1, <3>1, SameStrings DEF getURI, At
  <2>7. SoFar'
    BY <2>2, <2>6 DEF SoFar, Read
  <2> QED BY <2>3, <2>5, <2>7 DEF CodecInv
<1> QED BY <1>5, <1>6

(* A local name both ends know. *)
LEMMA NameHitRead ==
  ASSUME CodecInv, status = "running", NEW s \in Str, item.pos \notin 2 .. NumPredefined,
         decodeNameHit(s)
  PROVE  CodecInv'
<1> DEFINE u == item.uri
           part == peer.names[u + 1]
           p == Position(part, s)
           q == MkQName(u, p - 1)
           f == Field(CeilLog2(Len(part)), p - 1)
<1>1. /\ BothInv /\ item.next = "name" /\ peer' = peer
      /\ u \in 0 .. Len(peer.uris) - 1 /\ item.pos = u + 1
      /\ u + 1 \in 1 .. Len(peer.uris) /\ u \in 0 .. Len(URIMap) - 1
      /\ Found(part, s)
  <2>1. item.next = "name" /\ peer' = peer /\ Found(peer.names[item.pos], s)
    BY DEF decodeNameHit
  <2> QED BY <2>1, ItemAt DEF CodecInv
<1>2. part \in Seq(Str) /\ Len(part) \in Nat /\ p \in 1 .. Len(part) /\ part[p] = s
  <2>1. part \in Seq(Str) /\ Len(part) \in Nat
    BY <1>1, PeerTypes
  <2> QED BY <1>1, <2>1, PositionIs
<1>3. URIMap[u + 1].lnElts = Len(part)
  BY <1>1 DEF BothInv, CountsOf
<1>4. readBits64(f, getLocalNameLog(u)) = {p - 1} /\ InStep(f, getLocalNameLog(u)) = "running"
  <2>1. getLocalNameLog(u) = CeilLog2(Len(part)) /\ CeilLog2(Len(part)) \in Nat
    BY <1>2, <1>3, WidthType DEF getLocalNameLog, At
  <2>2. p - 1 \in Nat
    BY <1>2
  <2> HIDE DEF part, p, u
  <2> QED BY <2>1, <2>2, ReadsField
<1>5. ValidQName(q)
  <2>1. q.uri = u /\ q.local = p - 1
    BY DEF MkQName
  <2>2. u < Len(URIMap) /\ p - 1 < Len(part)
    <3>1. Len(URIMap) \in Nat
      BY <1>1, Sizes
    <3> QED BY ONLY <3>1, <1>1, <1>2
  <2> HIDE DEF q, p, u
  <2> QED BY <1>3, <2>1, <2>2 DEF ValidQName, hasURI, At
<1>6. /\ Keep /\ item' = [item EXCEPT !.next = "pfxq"]
      /\ Read(s, getLocalName(q)) /\ status' = "running"
  BY <1>1, <1>4, <1>5 DEF decodeNameHit
<1>7. getLocalName(q) = s
  <2>1. q.uri = u /\ q.local = p - 1 /\ p - 1 + 1 = p
    BY <1>2 DEF MkQName
  <2>2. LNHeap[LNMap[u + 1][p]].name = part[p]
    BY <1>1, <1>2, SameStrings
  <2> HIDE DEF q, p, u
  <2> QED BY <1>2, <2>1, <2>2 DEF getLocalName, At
<1>8. BothInv'
  BY <1>1, <1>6, NothingEntered DEF Keep, tableVars
<1>9. ItemOK'
  BY <1>1, <1>6 DEF CodecInv, ItemOK
<1> QED BY <1>6, <1>7, <1>8, <1>9 DEF CodecInv, SoFar, Read

(* A local name that is new to both. *)
LEMMA NameMissRead ==
  ASSUME CodecInv, status = "running", NEW s \in Str, item.pos \notin 2 .. NumPredefined,
         decodeNameMiss(s)
  PROVE  CodecInv'
<1> DEFINE u == item.uri
<1>1. /\ item.next = "name" /\ addLocalName(u, s)
      /\ peer' = [peer EXCEPT !.names[item.pos] = Append(@, s)]
      /\ item' = [item EXCEPT !.next = "pfxq"] /\ status' = status
      /\ Read(s, LNHeap'[At(At(LNMap', u), returned'.id)].name)
  BY DEF decodeNameMiss
<1>2. u \in 0 .. Len(peer.uris) - 1 /\ item.pos = u + 1
  BY <1>1, ItemAt
<1>3. /\ BothInv' /\ peer'.uris = peer.uris
      /\ LNHeap'[At(At(LNMap', u), returned'.id)].name = s
  BY <1>1, <1>2, NameEntered DEF CodecInv
<1>4. ItemOK'
  BY <1>1, <1>3 DEF CodecInv, ItemOK
<1> QED BY <1>1, <1>3, <1>4 DEF CodecInv, SoFar, Read

(* The prefix of a name is not looked for, *)
LEMMA NoPfxQRead ==
  ASSUME CodecInv, status = "running", NoPfxQ
  PROVE  CodecInv'
<1>1. Keep /\ item' = Between /\ UNCHANGED << peer, status, text >>
  BY DEF NoPfxQ
<1>2. BothInv'
  BY <1>1, NothingEntered DEF Keep, tableVars, CodecInv
<1> QED BY <1>1, <1>2, Idle DEF CodecInv, SoFar

(* Which prefixes a URI has: at most one, its own or a declared one.       *)
LEMMA OnePrefix ==
  ASSUME BothInv, NEW k \in 1 .. Len(peer.uris), peer.prefixes[k] # << >>
  PROVE  /\ Len(peer.prefixes[k]) = 1
         /\ k > 3 => << peer.uris[k], peer.prefixes[k][1] >> \in Declarations
<1>1. /\ peer.prefixes[1] = << EmptyStr >> /\ peer.prefixes[2] = << XMLPrefix >>
      /\ peer.prefixes[3] = << XSIPrefix >>
      /\ k \in 4 .. Len(peer.uris) =>
           \E p \in Str : peer.prefixes[k] = << p >> /\ << peer.uris[k], p >> \in Declarations
  BY DEF BothInv, PrefixesKnown
<1>2. k \in 1 .. 3 \/ k \in 4 .. Len(peer.uris)
  BY Sizes
<1>3. CASE k \in 1 .. 3
  <2>1. k = 1 \/ k = 2 \/ k = 3
    BY <1>3
  <2>2. PICK p : peer.prefixes[k] = << p >>
    BY ONLY <1>1, <2>1
  <2>3. Len(peer.prefixes[k]) = 1
    BY ONLY <2>2
  <2> QED BY <1>3, <2>3
<1>4. CASE k \in 4 .. Len(peer.uris)
  <2>1. PICK p \in Str :
          peer.prefixes[k] = << p >> /\ << peer.uris[k], p >> \in Declarations
    BY <1>1, <1>4
  <2> QED BY <2>1
<1> QED BY <1>2, <1>3, <1>4

(* or costs no bit.                                                        *)
LEMMA PfxQRead ==
  ASSUME CodecInv, status = "running", NEW i \in DOMAIN peer.prefixes[item.pos],
         decodePfxQ(i)
  PROVE  CodecInv'
<1> DEFINE u == item.uri
           part == peer.prefixes[u + 1]
           f == Field(CeilLog2(Len(part)), i - 1)
           width == getPrefixLogQ(u)
<1>1. /\ BothInv /\ item.next = "pfxq" /\ peer' = peer
      /\ item.pos = u + 1 /\ u + 1 \in 1 .. Len(peer.uris) /\ u \in Nat
  <2>1. item.next = "pfxq" /\ peer' = peer
    BY DEF decodePfxQ
  <2> QED BY <2>1, ItemAt DEF CodecInv
<1>2. /\ part \in Seq(Str) /\ part # << >> /\ Len(part) = 1 /\ i = 1
      /\ PrefixMap[u + 1] = part
  <2>1. part \in Seq(Str) /\ i \in DOMAIN part
    BY <1>1, PeerTypes
  <2>2. part # << >> /\ DOMAIN part = 1 .. Len(part)
    BY <2>1, LenProperties
  <2>3. Len(part) = 1
    BY <1>1, <2>2, OnePrefix
  <2>4. PrefixMap[u + 1] = part
    BY <1>1, SameStrings
  <2> QED BY <2>1, <2>2, <2>3, <2>4
<1>3. URIMap[u + 1].prefixElts \in 1 .. 2
  <2>1. URIMap[u + 1].prefixElts = Len(part) + (IF u + 1 <= 3 THEN 1 ELSE 0)
    BY <1>1 DEF BothInv, CountsOf
  <2>2. Len(part) = 1
    BY <1>2
  <2> HIDE DEF part
  <2> QED BY ONLY <2>1, <2>2
<1>4. readBits64(f, width) = {0} /\ InStep(f, width) = "running"
  <2>1. width = 0
    BY <1>3, SmallLogs DEF getPrefixLogQ, At
  <2>2. f = Field(0, 0)
    BY <1>2, SmallLogs
  <2> HIDE DEF width, f
  <2> QED BY <2>1, <2>2, ReadsField
<1>5. /\ Keep /\ item' = Between /\ status' = "running"
      /\ Read(part[1], getPrefix(u, 0))
  <2>1. /\ Keep /\ item' = Between /\ Read(part[i], getPrefix(u, 0))
        /\ status' = InStep(f, width)
    <3>1. Len(At(PrefixMap, u)) = 1
      BY <1>2 DEF At
    <3> HIDE DEF f, width
    <3> QED BY <1>1, <1>4, <3>1 DEF decodePfxQ, f, width
  <2> QED BY <1>2, <1>4, <2>1
<1>6. getPrefix(u, 0) = part[1]
  BY <1>2 DEF getPrefix, At
<1>7. BothInv'
  BY <1>1, <1>5, NothingEntered DEF Keep, tableVars
<1> QED BY <1>5, <1>6, <1>7, Idle DEF CodecInv, SoFar, Read

(* The prefix of a declaration: the predefined one, or the first one.      *)
LEMMA PfxRead ==
  ASSUME OnePrefixPerURI, CodecInv, status = "running", NEW s \in Str,
         << peer.uris[item.pos], s >> \in Declarations, MayDeclare(peer.uris[item.pos], s),
         decodePfx(s)
  PROVE  CodecInv'
<1> DEFINE u == item.uri
           k == u + 1
           part == peer.prefixes[k]
           hit == Found(part, s)
           width == getPrefixLog(u)
           f == Field(CeilLog2(Len(part) + 1), IF hit THEN Position(part, s) ELSE 0)
           Continue(id) == item' = [item EXCEPT !.next = "ns", !.pfx = id, !.str = s]
<1>1. /\ BothInv /\ item.next = "pfx" /\ u \in Nat
      /\ item.pos = k /\ k \in 1 .. Len(peer.uris) /\ u \in 0 .. Len(peer.uris) - 1
  <2>1. item.next = "pfx"
    BY DEF decodePfx
  <2> QED BY <2>1, ItemAt DEF CodecInv
<1>2. /\ part \in Seq(Str) /\ Len(part) \in Nat /\ DOMAIN part = 1 .. Len(part)
  BY <1>1, PeerTypes, LenProperties
<1>3. /\ peer' = IF hit THEN peer ELSE [peer EXCEPT !.prefixes[k] = Append(@, s)]
      /\ UNCHANGED text
      /\ \E v \in readBits64(f, width) :
           \/ v = 0 /\ addPrefix(u, s) /\ Continue(returned'.id) /\ status' = InStep(f, width)
           \/ v # 0 /\ hasPrefixID(u, v - 1) /\ Keep /\ Continue(v - 1)
                /\ status' = InStep(f, width)
           \/ v # 0 /\ ~hasPrefixID(u, v - 1) /\ Keep
                /\ status' = "failed" /\ UNCHANGED item
  BY <1>1 DEF decodePfx
<1>4. /\ peer.uris[1] = EmptyStr /\ peer.uris[2] = XML /\ peer.uris[3] = XSI
      /\ peer.prefixes[1] = << EmptyStr >> /\ peer.prefixes[2] = << XMLPrefix >>
      /\ peer.prefixes[3] = << XSIPrefix >>
      /\ \A v \in 4 .. Len(peer.uris) : peer.uris[v] \notin {EmptyStr, XML, XSI}
  BY <1>1 DEF BothInv, PrefixesKnown
<1>5. URIMap[k].prefixElts = Len(part) + (IF k <= 3 THEN 1 ELSE 0)
  BY <1>1 DEF BothInv, CountsOf
<1>6. << peer.uris[k], s >> \in Declarations
  BY <1>1
<1>7. MayDeclare(peer.uris[k], s)
  BY <1>1
<1>8. CASE k <= 3
  <2>1. part = << s >>
    <3>1. k = 1 \/ k = 2 \/ k = 3
      BY <1>1, <1>8
    <3>2. peer.uris[k] # EmptyStr
          /\ (peer.uris[k] = XML => s = XMLPrefix) /\ (peer.uris[k] = XSI => s = XSIPrefix)
      BY <1>6 DEF OnePrefixPerURI
    <3> QED BY <1>4, <3>1, <3>2
  <2>2. hit /\ Position(part, s) = 1
    <3>1. part[1] = s /\ 1 \in DOMAIN part /\ Len(part) = 1
      BY <2>1
    <3>2. hit
      BY <3>1 DEF Found
    <3>3. Position(part, s) \in 1 .. 1
      BY <1>2, <3>1, <3>2, PositionIs
    <3> QED BY <3>2, <3>3
  <2>3. URIMap[k].prefixElts = 2 /\ Len(part) + 1 = 2
    BY <1>5, <1>8, <2>1
  <2>4. width = 1 /\ f = Field(1, 1)
    BY <2>2, <2>3, SmallLogs DEF getPrefixLog, At
  <2>5. readBits64(f, width) = {1} /\ InStep(f, width) = "running"
    <3> HIDE DEF width, f
    <3> QED BY <2>4, ReadsField
  <2>6. hasPrefixID(u, 0)
    <3>1. u < Len(URIMap)
      BY <1>1, Sizes
    <3> QED BY <2>3, <3>1 DEF hasPrefixID, hasPrefix, hasURI, At
  <2>7. Keep /\ Continue(0) /\ status' = "running" /\ peer' = peer /\ text' = text
    <3> HIDE DEF width, f
    <3> QED BY <1>3, <2>2, <2>5, <2>6
  <2>8. BothInv'
    BY <1>1, <2>7, NothingEntered DEF Keep, tableVars
  <2>9. ItemOK'
    <3>1. 0 + 1 \in 1 .. Len(part) /\ part[0 + 1] = s
      BY <2>1
    <3> QED BY <1>1, <2>7, <3>1 DEF CodecInv, ItemOK
  <2> QED BY <2>7, <2>8, <2>9 DEF CodecInv, SoFar
<1>9. CASE k \in 4 .. Len(peer.uris)
  <2>1. part = << >>
    <3> SUFFICES ASSUME part # << >> PROVE FALSE
      OBVIOUS
    <3>1. Len(part) = 1 /\ << peer.uris[k], part[1] >> \in Declarations
      <4> HIDE DEF k
      <4> QED BY <1>1, <1>9, OnePrefix DEF part
    <3>2. part[1] = s
      <4>1. \A d \in Declarations : \A e \in Declarations : e[1] = d[1] => e[2] = d[2]
        BY DEF OnePrefixPerURI
      <4> HIDE DEF part, k
      <4> QED BY <1>6, <3>1, <4>1
    <3>3. Found(part, s)
      BY <1>2, <3>1, <3>2 DEF Found
    <3>4. ~ Found(part, s)
      <4>1. ~Redeclares /\ peer.uris[k] \notin {XML, XSI}
        BY <1>4, <1>9 DEF OnePrefixPerURI
      <4>2. k \in DOMAIN peer.uris
        BY <1>1, PeerTypes, LenProperties
      <4> HIDE DEF k, hit
      <4> QED BY <1>7, <4>1, <4>2 DEF MayDeclare
    <3> QED BY <3>3, <3>4
  <2>2. ~hit
    BY <2>1 DEF Found
  <2>3. URIMap[k].prefixElts = 0 /\ Len(part) + 1 = 1
    BY <1>5, <1>9, <2>1
  <2>4. width = 0 /\ f = Field(0, 0)
    BY <2>2, <2>3, SmallLogs DEF getPrefixLog, At
  <2>5. readBits64(f, width) = {0} /\ InStep(f, width) = "running"
    <3> HIDE DEF width, f
    <3> QED BY <2>4, ReadsField
  <2>6. /\ addPrefix(u, s) /\ Continue(returned'.id) /\ status' = "running"
        /\ peer' = [peer EXCEPT !.prefixes[k] = Append(@, s)] /\ text' = text
    <3> HIDE DEF width, f
    <3> QED BY <1>3, <2>2, <2>5
  <2>7. /\ BothInv' /\ peer'.uris = peer.uris
        /\ Len(peer'.prefixes[k]) = 1 /\ peer'.prefixes[k][1] = s
    <3>1. u \in 3 .. Len(peer.uris) - 1
      BY <1>1, <1>9
    <3> QED BY <1>1, <1>6, <2>1, <2>6, <3>1, PrefixEntered
  <2>8. returned'.id = 0
    BY <2>3, <2>6 DEF addPrefix, NothingReturned, At
  <2>9. ItemOK'
    <3>1. 0 + 1 \in 1 .. Len(peer'.prefixes[k]) /\ peer'.prefixes[k][0 + 1] = s
      BY <2>7
    <3>2. item' = [item EXCEPT !.next = "ns", !.pfx = 0, !.str = s]
      BY <2>6, <2>8
    <3>3. /\ item'.next = "ns" /\ item'.pos = k /\ item'.uri = u
          /\ item'.pfx = 0 /\ item'.str = s
          /\ item' \in [next : {"event", "name", "pfxq", "pfx", "ns"}, uri : Nat, pos : Nat,
                        pfx : Nat, str : Str \union {None}]
      BY <1>1, <3>2 DEF CodecInv, ItemOK
    <3> QED BY <1>1, <2>7, <3>1, <3>3 DEF ItemOK
  <2> QED BY <2>6, <2>7, <2>9 DEF CodecInv, SoFar
<1> QED BY <1>1, <1>8, <1>9

(* The prefix of a declaration resolves to the string it came as.          *)
LEMMA NSRead ==
  ASSUME CodecInv, status = "running", NEW isLocal \in BOOLEAN, decodeNS(isLocal)
  PROVE  CodecInv'
<1> DEFINE k == item.uri + 1
<1>1. BothInv /\ item.next = "ns" /\ peer' = peer
  BY DEF decodeNS, CodecInv
<1>2. /\ item.pos = k /\ k \in 1 .. Len(peer.uris) /\ item.uri \in Nat
      /\ item.pfx + 1 \in 1 .. Len(peer.prefixes[k]) /\ item.pfx \in Nat
      /\ peer.prefixes[k][item.pfx + 1] = item.str
  BY <1>1, ItemAt DEF CodecInv, ItemOK
<1>3. /\ Len(At(PrefixMap, item.uri)) = Len(peer.prefixes[k])
      /\ getPrefix(item.uri, item.pfx) = item.str
  <2>1. PrefixMap[k] = peer.prefixes[k]
    BY <1>1, <1>2, SameStrings
  <2> QED BY <1>2, <2>1 DEF getPrefix, At
<1>4. item.pfx < Len(At(PrefixMap, item.uri))
  <2>1. Len(peer.prefixes[k]) \in Nat
    BY <1>1, <1>2, PeerTypes
  <2> QED BY ONLY <1>2, <1>3, <2>1
<1>5. Keep
  BY DEF decodeNS, Trap
<1>6. BothInv'
  BY <1>1, <1>5, NothingEntered DEF Keep, tableVars
<1>7. \/ /\ status' = "failed" /\ UNCHANGED << item, text >>
      \/ /\ item' = Between /\ status' = status /\ Read(item.str, item.str)
  <2>1. ~ (item.pfx >= Len(At(PrefixMap, item.uri)))
    <3>1. Len(At(PrefixMap, item.uri)) \in Nat
      BY <1>1, <1>2, <1>3, PeerTypes
    <3> QED BY ONLY <1>2, <1>4, <3>1
  <2> QED BY <1>3, <2>1 DEF decodeNS
<1>8. CASE status' = "failed" /\ UNCHANGED << item, text >>
  <2>1. ItemOK'
    BY <1>1, <1>8 DEF CodecInv, ItemOK
  <2> QED BY <1>6, <1>8, <2>1 DEF CodecInv, SoFar
<1>9. CASE item' = Between /\ status' = status /\ Read(item.str, item.str)
  BY <1>6, <1>9, Idle DEF CodecInv, SoFar, Read
<1> QED BY <1>7, <1>8, <1>9

(* Where a name both ends know has its values. *)
LEMMA KnownValues ==
  ASSUME BothInv, NEW q \in KnownNames
  PROVE  /\ q \in ValidQNames /\ q \in QName /\ ValidQName(q)
         /\ LNHeap[LVPartition(q)].values = ValuesOf(q)
         /\ LNHeap[At(At(LNMap, q.uri), q.local)].values = ValuesOf(q)
         /\ ValuesOf(q) \in Seq(Str)
<1>1. /\ q \in ValidQNames /\ q \in QName /\ ValidQName(q) /\ q = MkQName(q.uri, q.local)
      /\ q.uri \in Nat /\ q.local \in Nat
      /\ q.uri < Len(peer.names) /\ q.local < Len(peer.names[q.uri + 1])
  BY DEF KnownNames, ValidQNames, QName, MkQName, At
<1>2. LVPartition(q) = LNMap[q.uri + 1][q.local + 1]
  BY <1>1, CachedLookup DEF BothInv, At
<1>3. q.uri + 1 \in 1 .. Len(peer.uris)
  BY <1>1, Sizes
<1>4. q.local + 1 \in 1 .. Len(peer.names[q.uri + 1])
  <2>1. Len(peer.names[q.uri + 1]) \in Nat
    BY <1>3, PeerTypes
  <2> QED BY ONLY <1>1, <2>1
<1>5. LNHeap[LNMap[q.uri + 1][q.local + 1]].values
        = ValuesOf(MkQName((q.uri + 1) - 1, (q.local + 1) - 1))
  <2> DEFINE k == q.uri + 1  m == q.local + 1
  <2>1. k \in 1 .. Len(peer.uris) /\ m \in 1 .. Len(peer.names[k])
    BY <1>3, <1>4
  <2> HIDE DEF k, m
  <2>2. \A l \in 1 .. Len(peer.names[k]) :
          LNHeap[LNMap[k][l]].values = ValuesOf(MkQName(k - 1, l - 1))
    BY ONLY BothInv, <2>1, SameStrings
  <2>3. LNHeap[LNMap[k][m]].values = ValuesOf(MkQName(k - 1, m - 1))
    BY ONLY <2>1, <2>2
  <2> QED BY ONLY <2>3 DEF k, m
<1>6. (q.uri + 1) - 1 = q.uri /\ (q.local + 1) - 1 = q.local
  BY <1>1
<1>7. /\ LNHeap[LVPartition(q)].values = ValuesOf(q)
      /\ LNHeap[At(At(LNMap, q.uri), q.local)].values = ValuesOf(q)
  BY ONLY <1>1, <1>2, <1>5, <1>6 DEF At
<1>8. ValuesOf(q) \in Seq(Str)
  <2>1. EmptyStr \in Str
    BY StringTableAssumption
  <2> QED BY <1>1, <2>1, PeerTypes, ValuesTypes
<1> QED BY <1>1, <1>7, <1>8

(* A value of the name's own partition. *)
LEMMA LocalValueRead ==
  ASSUME CodecInv, status = "running", NEW q \in KnownNames, NEW s \in Str,
         decodeLocalValue(q, s)
  PROVE  CodecInv'
<1> DEFINE part == ValuesOf(q)
           width == getLocalValueLog(q)
<1>1. /\ BothInv /\ q \in ValidQNames /\ q \in QName /\ ValidQName(q)
      /\ LNHeap[LVPartition(q)].values = part /\ part \in Seq(Str)
  BY KnownValues DEF CodecInv
<1>2. /\ peer' = peer
      /\ \E i \in PositionsOf(part, s) :
           LET f == Field(CeilLog2(Len(part)), i - 1) IN
           \E v \in readBits64(f, width) :
             \/ /\ v < Len(LNHeap[LVPartition(q)].values)
                /\ readPartition(q)
                /\ Read(s, getLocalValue(q, v)) /\ status' = InStep(f, width)
                /\ UNCHANGED item
             \/ v >= Len(LNHeap[LVPartition(q)].values) /\ Trap
  BY DEF decodeLocalValue
<1> HIDE DEF part, width
<1>3. PICK i \in PositionsOf(part, s) :
        LET f == Field(CeilLog2(Len(part)), i - 1) IN
        \E v \in readBits64(f, width) :
          \/ /\ v < Len(LNHeap[LVPartition(q)].values)
             /\ readPartition(q)
             /\ Read(s, getLocalValue(q, v)) /\ status' = InStep(f, width)
             /\ UNCHANGED item
          \/ v >= Len(LNHeap[LVPartition(q)].values) /\ Trap
  BY ONLY <1>2
<1>4. i \in 1 .. Len(part) /\ part[i] = s /\ Len(part) \in Nat /\ i - 1 \in Nat
  <2>1. DOMAIN part = 1 .. Len(part) /\ Len(part) \in Nat
    BY <1>1, LenProperties
  <2> QED BY <2>1 DEF PositionsOf
<1> DEFINE f == Field(CeilLog2(Len(part)), i - 1)
<1>5. readBits64(f, width) = {i - 1} /\ InStep(f, width) = "running"
  <2>1. width = CeilLog2(Len(part)) /\ CeilLog2(Len(part)) \in Nat
    BY <1>1, <1>4, WidthType DEF getLocalValueLog, width
  <2> QED BY ONLY <1>4, <2>1, ReadsField
<1> HIDE DEF f
<1>6. /\ readPartition(q) /\ UNCHANGED item /\ status' = "running"
      /\ Read(s, getLocalValue(q, i - 1))
  <2>1. ~ (i - 1 >= Len(LNHeap[LVPartition(q)].values))
    BY ONLY <1>1, <1>4
  <2> QED BY ONLY <1>3, <1>5, <2>1 DEF f
<1>7. getLocalValue(q, i - 1) = s
  <2>1. i - 1 + 1 = i
    BY <1>4
  <2> QED BY <1>1, <1>4, <2>1 DEF getLocalValue, At
<1>8. BothInv'
  <2>1. Next
    BY <1>1, <1>6 DEF Next
  <2> QED BY <1>1, <1>2, <1>6, <2>1, NothingEntered DEF readPartition
<1>9. ItemOK'
  BY <1>2, <1>6 DEF CodecInv, ItemOK
<1> QED BY <1>6, <1>7, <1>8, <1>9 DEF CodecInv, SoFar, Read

(* A value of the global partition. *)
LEMMA GlobalValueRead ==
  ASSUME CodecInv, status = "running", NEW s \in Str, decodeGlobalValue(s)
  PROVE  CodecInv'
<1> DEFINE part == peer.globals
           width == getGlobalValueLog
<1>1. /\ BothInv /\ part \in Seq(Str) /\ Len(part) \in Nat /\ DOMAIN part = 1 .. Len(part)
      /\ GValueCount = Len(part) /\ GValueMap = part
  BY Sizes, PeerTypes, LenProperties DEF CodecInv, BothInv, Mirrored
<1>2. /\ peer' = peer
      /\ \E i \in PositionsOf(part, s) :
           LET f == Field(CeilLog2(Len(part)), i - 1) IN
           \E v \in readBits64(f, width) :
             \/ /\ v < GValueCount /\ Keep /\ UNCHANGED item
                /\ Read(s, getGlobalValue(v)) /\ status' = InStep(f, width)
             \/ v >= GValueCount /\ Trap
  BY DEF decodeGlobalValue
<1> HIDE DEF part, width
<1>3. PICK i \in PositionsOf(part, s) :
        LET f == Field(CeilLog2(Len(part)), i - 1) IN
        \E v \in readBits64(f, width) :
          \/ /\ v < GValueCount /\ Keep /\ UNCHANGED item
             /\ Read(s, getGlobalValue(v)) /\ status' = InStep(f, width)
          \/ v >= GValueCount /\ Trap
  BY ONLY <1>2
<1>4. i \in 1 .. Len(part) /\ part[i] = s /\ i - 1 \in Nat
  BY <1>1 DEF PositionsOf
<1> DEFINE f == Field(CeilLog2(Len(part)), i - 1)
<1>5. readBits64(f, width) = {i - 1} /\ InStep(f, width) = "running"
  <2>1. width = CeilLog2(Len(part)) /\ CeilLog2(Len(part)) \in Nat
    BY <1>1, WidthType DEF getGlobalValueLog, width
  <2> QED BY ONLY <1>4, <2>1, ReadsField
<1> HIDE DEF f
<1>6. /\ Keep /\ UNCHANGED item /\ status' = "running"
      /\ Read(s, getGlobalValue(i - 1))
  <2>1. ~ (i - 1 >= GValueCount)
    BY ONLY <1>1, <1>4
  <2> QED BY ONLY <1>3, <1>5, <2>1 DEF f
<1>7. getGlobalValue(i - 1) = s
  <2>1. i - 1 + 1 = i
    BY <1>4
  <2> QED BY <1>1, <1>4, <2>1 DEF getGlobalValue, At
<1>8. BothInv'
  BY <1>1, <1>2, <1>6, NothingEntered DEF Keep, tableVars
<1>9. ItemOK'
  BY <1>2, <1>6 DEF CodecInv, ItemOK
<1> QED BY <1>6, <1>7, <1>8, <1>9 DEF CodecInv, SoFar, Read

(* A value written out. *)
LEMMA NewValueRead ==
  ASSUME CodecInv, status = "running", NEW q \in KnownNames, NEW s \in Str,
         decodeNewValue(q, s)
  PROVE  CodecInv'
<1>1. /\ peer' = [peer EXCEPT !.globals = Append(@, s), !.values = WithValue(q, s)]
      /\ addValue(q, s) /\ UNCHANGED << item, status >> /\ item.next = "event"
      /\ Read(s, LNHeap'[LVPartition(q)].values[returned'.id + 1])
  BY DEF decodeNewValue
<1>2. BothInv /\ q \in ValidQNames
  BY KnownValues DEF CodecInv
<1>3. BothInv' /\ LNHeap'[LVPartition(q)].values[returned'.id + 1] = s
  BY <1>1, <1>2, ValueEntered
<1>4. ItemOK'
  BY <1>1 DEF CodecInv, ItemOK
<1> QED BY <1>1, <1>3, <1>4 DEF CodecInv, SoFar, Read

(***************************************************************************)
(* The theorems.                                                           *)
(***************************************************************************)

(* The entries of a predefined partition. *)
StartsAs(S, b, w, f) ==
  /\ f \in Seq(S) /\ Len(f) = NumPredefined
  /\ f[1] = b[1] /\ f[2] = b[2] /\ f[3] = b[3]
  /\ NumPredefined = 4 => f[4] = w

(* createInitialEntries leaves them in order. *)
LEMMA StartsThere ==
  ASSUME NEW S, NEW b \in Seq(S), Len(b) = 3, NEW w \in S
  PROVE  StartsAs(S, b, w, WithXSD(b, w))
<1>1. /\ WithXSD(b, w) \in Seq(S) /\ Len(WithXSD(b, w)) = NumPredefined
      /\ \A i \in 1 .. 3 : WithXSD(b, w)[i] = b[i]
      /\ NumPredefined = 4 => WithXSD(b, w)[4] = w
  BY WithXSDEntries
<1>2. 1 \in 1 .. 3 /\ 2 \in 1 .. 3 /\ 3 \in 1 .. 3
  OBVIOUS
<1> QED BY ONLY <1>1, <1>2 DEF StartsAs

(* Both ends start with the predefined partitions. *)
LEMMA CodecInitInvariant ==
  ASSUME DistinctURIs, CodecInit
  PROVE  CodecInv
<1> DEFINE us == << EmptyStr, XML, XSI >>
           ps == << << EmptyStr >>, << XMLPrefix >>, << XSIPrefix >> >>
           ns == << << >>, XMLNames, XSINames >>
           i1 == NewURIInfo(EmptyStr, EmptyStr)
           i2 == NewURIInfo(XML, XMLPrefix)
           i3 == NewURIInfo(XSI, XSIPrefix)
           i4 == NewURIInfo(XSD, None)
           is == << i1, i2, i3 >>
           empty == [q \in {} |-> << >>]
<1>1. Init /\ peer = PeerInit /\ item = Between /\ status = "running"
      /\ text.sent = text.got
  BY DEF CodecInit
<1>2. /\ peer.uris = WithXSD(us, XSD) /\ peer.prefixes = WithXSD(ps, << >>)
      /\ peer.names = WithXSD(ns, XSDNames) /\ peer.globals = << >> /\ peer.values = empty
      /\ peer = [uris |-> peer.uris, prefixes |-> peer.prefixes, names |-> peer.names,
                 values |-> peer.values, globals |-> peer.globals]
  BY <1>1 DEF PeerInit
<1>3. /\ us \in Seq(Str) /\ Len(us) = 3 /\ XSD \in Str
      /\ ps \in Seq(Seq(Str)) /\ Len(ps) = 3 /\ << >> \in Seq(Str)
      /\ ns \in Seq(Seq(Str)) /\ Len(ns) = 3 /\ XSDNames \in Seq(Str)
  BY StringTableAssumption
<1>4. /\ i1 \in URIInfo /\ i2 \in URIInfo /\ i3 \in URIInfo /\ i4 \in URIInfo
      /\ i1.lnElts = 0 /\ i1.prefixElts = 2 /\ i2.prefixElts = 2 /\ i3.prefixElts = 2
      /\ i4.lnElts = 0 /\ i4.prefixElts = 0
  BY StringTableAssumption DEF NewURIInfo, URIInfo
<1>5. /\ URIMap = WithXSD(is, i4) /\ PrefixMap = WithXSD(ps, << >>) /\ GValueMap = << >>
  BY <1>1 DEF Init
<1> HIDE DEF i1, i2, i3, i4
<1>6. /\ is \in Seq(URIInfo) /\ Len(is) = 3
      /\ is[1] = i1 /\ is[2] = i2 /\ is[3] = i3
  BY <1>4
<1>7. /\ us[1] = EmptyStr /\ us[2] = XML /\ us[3] = XSI
      /\ ps[1] = << EmptyStr >> /\ ps[2] = << XMLPrefix >> /\ ps[3] = << XSIPrefix >>
      /\ ns[1] = << >>
  OBVIOUS
<1> HIDE DEF is, us, ps, ns, empty
<1>8. NumPredefined \in {3, 4} /\ (UsesSchema <=> NumPredefined = 4)
  BY StringTableAssumption DEF NumPredefined
<1>9. StartsAs(Str, us, XSD, peer.uris)
  BY ONLY <1>2, <1>3, StartsThere
<1>10. StartsAs(Seq(Str), ps, << >>, peer.prefixes)
  BY ONLY <1>2, <1>3, StartsThere
<1>11. StartsAs(Seq(Str), ns, XSDNames, peer.names)
  BY ONLY <1>2, <1>3, StartsThere
<1>12. /\ URIMap[1] = i1 /\ URIMap[2] = i2 /\ URIMap[3] = i3
       /\ NumPredefined = 4 => URIMap[4] = i4
  <2>1. StartsAs(URIInfo, is, i4, URIMap)
    BY ONLY <1>4, <1>5, <1>6, StartsThere
  <2> QED BY ONLY <1>6, <2>1 DEF StartsAs
<1>14. IInv /\ NoSharing
  BY <1>1, InitInvariant, SharingInit
<1>15. PeerOK
  <2>1. empty \in [{} -> Seq(Str)] /\ {} \in SUBSET QName
    BY DEF empty
  <2>2. peer.values \in ValueMaps
    BY ONLY <1>2, <2>1 DEF ValueMaps
  <2>3. << >> \in Seq(Str)
    BY <1>3
  <2> QED BY ONLY <1>2, <1>9, <1>10, <1>11, <2>2, <2>3 DEF PeerOK, StartsAs
<1>16. Mirrored
  BY <1>1, <1>2, <1>5, PredefinedURIs, PredefinedNames DEF Mirrored, us, ns
<1>17. ValuesMirrored
  <2>1. \A q : ValuesOf(q) = << >> /\ q \notin DOMAIN peer.values
    BY ONLY <1>2 DEF ValuesOf, empty
  <2>2. /\ LNHeap \in Seq(LocalName) /\ Len(LNMap) = Len(peer.names)
    <3>1. Len(LNMap) = Len(URIMap)
      BY <1>14, Pointers
    <3>2. NamesOf(LNHeap, LNMap) = peer.names
      BY <1>16 DEF Mirrored
    <3>3. NamesOf(LNHeap, LNMap) \in [1 .. Len(LNMap) -> Seq(Str)] /\ Len(LNMap) \in Nat
      BY <1>14, Pointers, MapTypes
    <3>4. Len(NamesOf(LNHeap, LNMap)) = Len(LNMap)
      BY ONLY <3>3, FcnIsSeq
    <3> QED BY <1>14, Pointers, <3>2, <3>4
  <2>3. ASSUME NEW u \in 1 .. Len(peer.names), NEW l \in 1 .. Len(peer.names[u])
        PROVE  ValuesAt(LNHeap, LNMap)[u][l] = << >>
    <3>1. peer.names[u] = NamesIn(LNHeap, LNMap[u]) /\ u \in 1 .. Len(LNMap)
      BY <1>16, <2>2 DEF Mirrored, NamesOf
    <3>2. LNMap[u] \in Seq(1 .. Len(LNHeap))
      BY <1>14, <3>1, Pointers
    <3>3. l \in 1 .. Len(LNMap[u])
      BY <2>2, <3>1, <3>2, ReadTypes
    <3>4. LNMap[u][l] \in Address
      BY <3>2, <3>3, ElementOfSeq DEF Address
    <3>5. LNHeap[LNMap[u][l]].values = << >>
      BY <1>1, <3>4, NoInitialValues
    <3> QED BY <3>1, <3>3, <3>5 DEF ValuesAt, ValuesIn
  <2> QED BY <2>1, <2>3 DEF ValuesMirrored
<1>18. CountsOf
  <2>1. /\ peer.prefixes[1] = << EmptyStr >> /\ peer.prefixes[2] = << XMLPrefix >>
        /\ peer.prefixes[3] = << XSIPrefix >> /\ peer.names[1] = << >>
        /\ NumPredefined = 4 => peer.prefixes[4] = << >>
    BY ONLY <1>7, <1>10, <1>11 DEF StartsAs
  <2>2. /\ Len(peer.prefixes[1]) = 1 /\ Len(peer.prefixes[2]) = 1 /\ Len(peer.prefixes[3]) = 1
        /\ Len(peer.names[1]) = 0
        /\ NumPredefined = 4 => Len(peer.prefixes[4]) = 0
    <3>1. \A e : Len(<< e >>) = 1
      OBVIOUS
    <3> QED BY ONLY <2>1, <3>1, Len(<< >>) = 0
  <2>3. ASSUME NEW u \in 1 .. NumPredefined
        PROVE  u = 1 \/ u = 2 \/ u = 3 \/ (u = 4 /\ NumPredefined = 4)
    BY <1>8
  <2>4. ASSUME NEW u \in 1 .. NumPredefined
        PROVE  /\ URIMap[u].prefixElts = Len(peer.prefixes[u]) + (IF u <= 3 THEN 1 ELSE 0)
               /\ u \notin 2 .. NumPredefined => URIMap[u].lnElts = Len(peer.names[u])
    <3>1. 1 + 1 = 2 /\ 0 + 0 = 0 /\ 1 <= 3 /\ 2 <= 3 /\ 3 <= 3 /\ ~ (4 <= 3)
          /\ (NumPredefined = 4 => 4 \in 2 .. NumPredefined)
          /\ 2 \in 2 .. NumPredefined /\ 3 \in 2 .. NumPredefined
      BY <1>8
    <3>2. CASE u = 1
      BY ONLY <3>1, <3>2, <2>2, <1>4, <1>12
    <3>3. CASE u = 2
      BY ONLY <3>1, <3>3, <2>2, <1>4, <1>12
    <3>4. CASE u = 3
      BY ONLY <3>1, <3>4, <2>2, <1>4, <1>12
    <3>5. CASE u = 4 /\ NumPredefined = 4
      BY ONLY <3>1, <3>5, <2>2, <1>4, <1>12
    <3> QED BY <2>3, <3>2, <3>3, <3>4, <3>5
  <2> QED BY <1>9, <2>4 DEF CountsOf, StartsAs
<1>19. PrefixesKnown
  <2>1. ASSUME NEW u \in 4 .. Len(peer.uris)
        PROVE  /\ peer.uris[u] \notin {EmptyStr, XML, XSI}
               /\ peer.prefixes[u] = << >>
    <3>1. u = 4 /\ NumPredefined = 4 /\ UsesSchema
      BY <1>8, <1>9 DEF StartsAs
    <3> QED BY <1>9, <1>10, <3>1 DEF DistinctURIs, StartsAs
  <2>2. 3 <= NumPredefined /\ NumPredefined <= Len(peer.uris)
    BY <1>8, <1>9 DEF StartsAs
  <2>3. /\ peer.uris[1] = EmptyStr /\ peer.uris[2] = XML /\ peer.uris[3] = XSI
        /\ peer.prefixes[1] = << EmptyStr >> /\ peer.prefixes[2] = << XMLPrefix >>
        /\ peer.prefixes[3] = << XSIPrefix >>
    BY ONLY <1>7, <1>9, <1>10 DEF StartsAs
  <2> QED BY <1>8, <1>9, <2>1, <2>2, <2>3 DEF PrefixesKnown, StartsAs
<1>20. ItemOK /\ SoFar
  BY <1>1 DEF ItemOK, Between, SoFar
<1> QED BY <1>14, <1>15, <1>16, <1>17, <1>18, <1>19, <1>20 DEF CodecInv, BothInv

(* A name in none of the predefined namespaces. *)
LEMMA OwnPosition ==
  ASSUME OwnNamesOnly, BothInv, NEW n \in Names, NEW k \in Nat, n[1] = peer.uris[k]
  PROVE  k \notin 2 .. NumPredefined
<1>1. /\ peer.uris[2] = XML /\ peer.uris[3] = XSI /\ (UsesSchema => peer.uris[4] = XSD)
  BY DEF BothInv, PrefixesKnown
<1>2. n[1] \notin {XML, XSI} /\ (UsesSchema => n[1] # XSD)
  BY DEF OwnNamesOnly
<1>3. k \in 2 .. NumPredefined => k = 2 \/ k = 3 \/ (UsesSchema /\ k = 4)
  <2>1. (UsesSchema /\ NumPredefined = 4) \/ NumPredefined = 3
    BY DEF NumPredefined
  <2>2. k \in 2 .. 3 => k = 2 \/ k = 3
    OBVIOUS
  <2>3. k \in 2 .. 4 => k = 2 \/ k = 3 \/ k = 4
    OBVIOUS
  <2> QED BY ONLY <2>1, <2>2, <2>3
<1> QED BY ONLY <1>1, <1>2, <1>3, n[1] = peer.uris[k]

(* No item changes what holds between the two ends.                        *)
LEMMA CodecStep ==
  ASSUME OrdinaryDocuments, CodecInv, [CodecNext]_<< tableVars, codecVars >>
  PROVE  CodecInv'
<1>1. OwnNamesOnly /\ OnePrefixPerURI
  BY DEF OrdinaryDocuments
<1>2. CASE UNCHANGED << tableVars, codecVars >>
  <2>1. UNCHANGED tableVars /\ UNCHANGED << peer, item, status, text >>
    BY <1>2 DEF codecVars
  <2>2. BothInv'
    BY <2>1, NothingEntered DEF tableVars, CodecInv
  <2> QED BY <2>1, <2>2 DEF CodecInv, ItemOK, SoFar
<1>3. CASE CodecNext
  <2>1. status = "running"
    BY <1>3 DEF CodecNext
  <2>2. \A n \in Names : n[1] \in Str /\ n[2] \in Str
    BY StringCodecAssumption
  <2>3. \A d \in Declarations : d = << d[1], d[2] >> /\ d[1] \in Str /\ d[2] \in Str
    BY StringCodecAssumption
  <2>4. \A s \in Values : s \in Str
    BY StringCodecAssumption
  <2>5. ASSUME NEW n \in Names, decodeURI(n[1], "name") PROVE CodecInv'
    BY <2>1, <2>2, <2>5, URIRead
  <2>6. ASSUME NEW d \in Declarations, decodeURI(d[1], "pfx") PROVE CodecInv'
    BY <2>1, <2>3, <2>6, URIRead
  <2>7. ASSUME NEW n \in Names, item.next = "name", n[1] = peer.uris[item.pos],
               decodeNameHit(n[2]) \/ decodeNameMiss(n[2])
        PROVE  CodecInv'
    <3>1. item.pos \in Nat /\ BothInv
      BY DEF CodecInv, ItemOK
    <3>2. item.pos \notin 2 .. NumPredefined
      BY <1>1, <2>7, <3>1, OwnPosition
    <3>3. n[2] \in Str
      BY <2>2
    <3>4. CASE decodeNameHit(n[2])
      BY <2>1, <3>2, <3>3, <3>4, NameHitRead
    <3>5. CASE decodeNameMiss(n[2])
      BY <2>1, <3>2, <3>3, <3>5, NameMissRead
    <3> QED BY <2>7, <3>4, <3>5
  <2>8. ASSUME NoPfxQ PROVE CodecInv'
    BY <2>1, <2>8, NoPfxQRead
  <2>9. ASSUME NEW i \in DOMAIN peer.prefixes[item.pos], decodePfxQ(i) PROVE CodecInv'
    BY <2>1, <2>9, PfxQRead
  <2>10. ASSUME NEW d \in Declarations, d[1] = peer.uris[item.pos],
                MayDeclare(d[1], d[2]), decodePfx(d[2])
         PROVE  CodecInv'
    <3>1. << peer.uris[item.pos], d[2] >> \in Declarations
      BY <2>3, <2>10
    <3>2. MayDeclare(peer.uris[item.pos], d[2]) /\ d[2] \in Str
      BY <2>3, <2>10
    <3> QED BY <1>1, <2>1, <2>10, <3>1, <3>2, PfxRead
  <2>11. ASSUME NEW isLocal \in BOOLEAN, decodeNS(isLocal) PROVE CodecInv'
    BY <2>1, <2>11, NSRead
  <2>12. ASSUME NEW s \in Values, NEW q \in KnownNames, decodeLocalValue(q, s)
         PROVE  CodecInv'
    BY <2>1, <2>4, <2>12, LocalValueRead
  <2>13. ASSUME NEW s \in Values, NEW q \in KnownNames, decodeNewValue(q, s)
         PROVE  CodecInv'
    BY <2>1, <2>4, <2>13, NewValueRead
  <2>14. ASSUME NEW s \in Values, decodeGlobalValue(s) PROVE CodecInv'
    BY <2>1, <2>4, <2>14, GlobalValueRead
  <2> QED BY <1>3, <2>5, <2>6, <2>7, <2>8, <2>9, <2>10, <2>11, <2>12, <2>13, <2>14
          DEF CodecNext
<1> QED BY <1>2, <1>3

(* Both ends have the same partitions and counts at every moment, and      *)
(* nothing has gone wrong (decodeURI ... decodeValue).                     *)
THEOREM BothEndsAgree == ASSUME OrdinaryDocuments PROVE CodecSpec => []CodecInv
<1>1. CodecInit => CodecInv
  BY CodecInitInvariant DEF OrdinaryDocuments
<1>2. CodecInv /\ [CodecNext]_<< tableVars, codecVars >> => CodecInv'
  BY CodecStep
<1> QED BY <1>1, <1>2, PTL DEF CodecSpec

(* Every string comes out as it went in, no field is read with another     *)
(* width than it was written with, and no assertion of the table fails.    *)
THEOREM StringsSurvive ==
  ASSUME OrdinaryDocuments PROVE CodecSpec => []ReadsWhatWasWritten
<1>1. CodecInv => ReadsWhatWasWritten
  BY DEF CodecInv, SoFar, ReadsWhatWasWritten, AssertionsHold, FieldsInStep
<1> QED BY <1>1, BothEndsAgree, PTL

(* The encoder and the decoder have the same partitions, whatever they     *)
(* wrote and read (addURI, addPrefix, addLocalName, addValue).             *)
THEOREM SameOnBothEnds ==
  ASSUME OrdinaryDocuments PROVE CodecSpec => []SamePartitions
<1>1. ASSUME CodecInv PROVE SamePartitions
  <2>1. BothInv /\ Mirrored
    BY <1>1 DEF CodecInv, BothInv
  <2>2. /\ DOMAIN URIMap = 1 .. Len(URIMap) /\ DOMAIN LNMap = 1 .. Len(LNMap)
        /\ \A u \in 1 .. Len(LNMap) : DOMAIN LNMap[u] = 1 .. Len(LNMap[u])
    BY <2>1, Pointers, LenProperties DEF BothInv
  <2>3. [u \in DOMAIN URIMap |-> URIMap[u].name] = peer.uris
    BY <2>1, <2>2 DEF Mirrored, URINames
  <2>4. [u \in DOMAIN LNMap |-> [l \in DOMAIN LNMap[u] |-> LNHeap[LNMap[u][l]].name]]
          = peer.names
    BY <2>1, <2>2 DEF Mirrored, NamesOf, NamesIn
  <2>5. \A q \in KnownNames : LNHeap[At(At(LNMap, q.uri), q.local)].values = ValuesOf(q)
    BY <2>1, KnownValues
  <2> QED BY <2>1, <2>3, <2>4, <2>5 DEF SamePartitions, Mirrored
<1> QED BY <1>1, BothEndsAgree, PTL
=============================================================================
