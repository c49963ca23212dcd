---------------------------- MODULE StringTable -----------------------------
(***************************************************************************)
(* exi::decode::StringTable (include/exi/Basic/StringTables.hpp,           *)
(* lib/exi/Decode/StringTables.cpp), one action per public operation that  *)
(* changes state.  Compact identifiers count from 0 as in the code; At     *)
(* reads a sequence by identifier.                                         *)
(*                                                                         *)
(* LNHeap models the LocalName objects createLocalName allocates: they are *)
(* never freed or moved, so the address of one is its position in LNHeap.  *)
(* LNMap and the LRU cache hold addresses.                                 *)
(*                                                                         *)
(* MaxURIs, MaxPrefixes, MaxNames and MaxGlobals bound the partitions; the *)
(* code has no bound but memory.                                           *)
(***************************************************************************)
EXTENDS Naturals, Sequences

CONSTANTS
  Str,           \* the strings, told apart by equality only
  None,          \* no prefix given
  UsesSchema,    \* whether the options name a schema
  EmptyStr,      \* "": the first URI and its prefix (D.1, D.2)
  XML, XSI, XSD,                  \* the other predefined URIs
  XMLPrefix, XSIPrefix,           \* "xml", "xsi"; XSD has no prefix
  XMLNames, XSINames, XSDNames,   \* their predefined local names (D.3)
  CacheSize,     \* the capacity of LNCache
  MaxURIs, MaxPrefixes, MaxNames, MaxGlobals

ASSUME StringTableAssumption ==
  /\ {EmptyStr, XML, XSI, XSD, XMLPrefix, XSIPrefix} \subseteq Str
  /\ None \notin Str
  /\ UsesSchema \in BOOLEAN
  /\ XMLNames \in Seq(Str) /\ XSINames \in Seq(Str) /\ XSDNames \in Seq(Str)
  /\ CacheSize \in Nat \ {0}
  /\ {MaxURIs, MaxPrefixes, MaxNames, MaxGlobals} \subseteq Nat

VARIABLES
  URIMap,      \* per URI: its name and the two element counts
  URICount,
  PrefixMap,   \* per URI: the prefixes
  LNMap,       \* per URI: the addresses of its LocalNames
  LNCount,
  LNHeap,      \* the LocalNames: a name and the local values
  GValueMap,
  GValueCount,
  LNCache,     \* the LRU cache from QName to the address of a LocalName
  returned     \* history: the identifiers and string the last call returned

tableVars == << URIMap, URICount, PrefixMap, LNMap, LNCount, LNHeap,
                GValueMap, GValueCount, LNCache, returned >>

NullPtr == 0
QName == [uri : Nat, local : Nat]
MkQName(u, l) == [uri |-> u, local |-> l]

At(s, id) == s[id + 1]

URIInfo == [name : Str, prefixElts : Nat, lnElts : Nat]
LocalName == [name : Str, values : Seq(Str)]
NewLocalName(s) == [name |-> s, values |-> << >>]

LRU == INSTANCE LRUCache WITH
         Key <- QName, Value <- Nat \ {NullPtr}, NoValue <- NullPtr,
         N <- CacheSize, elts <- LNCache, recency <- {}

(***************************************************************************)
(* Validators and getters                                                  *)
(***************************************************************************)

hasURI(u) == u < Len(URIMap)
hasPrefix(u) == hasURI(u) /\ At(URIMap, u).prefixElts > 0
hasPrefixID(u, p) == hasPrefix(u) /\ p < At(URIMap, u).prefixElts

getURI(u) == At(URIMap, u).name
getPrefix(u, p) == At(At(PrefixMap, u), p)
getLocalName(q) == LNHeap[At(At(LNMap, q.uri), q.local)].name
getGlobalValue(g) == At(GValueMap, g)

(* The QNames the table accepts: the two exi_invariants of getLocalName,   *)
(* getQName and getLVPartition.                                            *)
ValidQName(q) == hasURI(q.uri) /\ q.local < At(URIMap, q.uri).lnElts

(***************************************************************************)
(* getLVPartition(q): find or create the cache entry of q, fill it from    *)
(* LNMap when it is new, and return the address it holds.                  *)
(***************************************************************************)

(* A variant of CacheAfterGet: a new entry keeps the address of the entry  *)
(* it displaced.                                                           *)
CacheAfterGetStale(q) ==
  LET c == LRU!Get(LNCache, q)
  IN [c EXCEPT ![Len(c)].value =
        IF @ # NullPtr THEN @
        ELSE IF Len(LNCache) = CacheSize THEN LNCache[1].value
        ELSE At(At(LNMap, q.uri), q.local)]

CacheAfterGet(q) ==
  LET c == LRU!Get(LNCache, q)
  IN [c EXCEPT ![Len(c)].value =
        IF @ = NullPtr THEN At(At(LNMap, q.uri), q.local) ELSE @]

LVPartition(q) ==
  LET c == CacheAfterGet(q) IN c[Len(c)].value

getLocalValue(q, v) == At(LNHeap[LVPartition(q)].values, v)

(***************************************************************************)
(* The table setup() leaves: createInitialEntries calls createURI for each *)
(* predefined URI and then allocates their local names.  createURI counts  *)
(* a given prefix twice (it emplaces 1 and increments), appendLocalNames   *)
(* leaves the count of local names at the 0 that createURI set.            *)
(***************************************************************************)

PrefixesOf(p) == IF p = None THEN << >> ELSE << p >>
NewURIInfo(s, p) ==
  [name |-> s, prefixElts |-> IF p = None THEN 0 ELSE 1 + 1, lnElts |-> 0]
NewLocalNames(ns) == [l \in 1 .. Len(ns) |-> NewLocalName(ns[l])]

(* n consecutive addresses from the first free one, when base are taken.   *)
Addresses(base, n) == [l \in 1 .. n |-> base + l]

WithXSD(s, e) == IF UsesSchema THEN Append(s, e) ELSE s
BaseNames == NewLocalNames(XMLNames) \o NewLocalNames(XSINames)
NumPredefined == IF UsesSchema THEN 4 ELSE 3

NothingReturned ==
  [op |-> "none", uri |-> 0, local |-> 0, id |-> 0, gid |-> 0, str |-> EmptyStr]

Init ==
  /\ URIMap = WithXSD(<< NewURIInfo(EmptyStr, EmptyStr), NewURIInfo(XML, XMLPrefix),
                         NewURIInfo(XSI, XSIPrefix) >>, NewURIInfo(XSD, None))
  /\ URICount = NumPredefined
  /\ PrefixMap = WithXSD(<< << EmptyStr >>, << XMLPrefix >>, << XSIPrefix >> >>,
                         << >>)
  /\ LNMap = WithXSD(<< << >>, Addresses(0, Len(XMLNames)),
                        Addresses(Len(XMLNames), Len(XSINames)) >>,
                     Addresses(Len(BaseNames), Len(XSDNames)))
  /\ LNCount = NumPredefined
  /\ LNHeap = IF UsesSchema THEN BaseNames \o NewLocalNames(XSDNames) ELSE BaseNames
  /\ GValueMap = << >>
  /\ GValueCount = 0
  /\ LNCache = << >>
  /\ returned = NothingReturned

(***************************************************************************)
(* Setters                                                                 *)
(***************************************************************************)

(* A variant of createURI: the prefix partition is made only for a prefix. *)
createURILazily(s, p) ==
  /\ Len(URIMap) < MaxURIs
  /\ URIMap' = Append(URIMap, NewURIInfo(s, p))
  /\ URICount' = URICount + 1
  /\ PrefixMap' = IF p = None THEN PrefixMap ELSE Append(PrefixMap, PrefixesOf(p))
  /\ LNMap' = Append(LNMap, << >>)
  /\ LNCount' = LNCount + 1

(* One entry in each of the three partitions. *)
createURI(s, p) ==
  /\ Len(URIMap) < MaxURIs
  /\ URIMap' = Append(URIMap, NewURIInfo(s, p))
  /\ URICount' = URICount + 1
  /\ PrefixMap' = Append(PrefixMap, PrefixesOf(p))
  /\ LNMap' = Append(LNMap, << >>)
  /\ LNCount' = LNCount + 1

(* The decoder never gives a prefix here. *)
addURI(s, p) ==
  /\ createURI(s, p)
  /\ returned' = [NothingReturned EXCEPT !.op = "uri", !.id = URICount, !.str = s]
  /\ UNCHANGED << LNHeap, GValueMap, GValueCount, LNCache >>

addPrefix(u, s) ==
  /\ hasURI(u)
  /\ Len(At(PrefixMap, u)) < MaxPrefixes
  /\ URIMap' = [URIMap EXCEPT ![u + 1].prefixElts = @ + 1]
  /\ PrefixMap' = [PrefixMap EXCEPT ![u + 1] = Append(@, s)]
  /\ returned' = [NothingReturned EXCEPT !.op = "prefix", !.uri = u,
                    !.id = At(URIMap, u).prefixElts, !.str = s]
  /\ UNCHANGED << URICount, LNMap, LNCount, LNHeap, GValueMap, GValueCount, LNCache >>

(* A variant of createLocalName that reuses the LocalName of the same      *)
(* string instead of allocating one.                                       *)
createInternedName(u, s) ==
  /\ UNCHANGED LNHeap
  /\ \E n \in 1 .. Len(LNHeap) :
       LNHeap[n].name = s /\ LNMap' = [LNMap EXCEPT ![u + 1] = Append(@, n)]

(* A variant that pushes the allocator's next slot, not the one it filled. *)
createNextName(u, s) ==
  /\ LNHeap' = Append(LNHeap, NewLocalName(s))
  /\ LNMap' = [LNMap EXCEPT ![u + 1] = Append(@, Len(LNHeap) + 2)]

(* A LocalName of its own for every entry. *)
createLocalName(u, s) ==
  /\ LNHeap' = Append(LNHeap, NewLocalName(s))
  /\ LNMap' = [LNMap EXCEPT ![u + 1] = Append(@, Len(LNHeap) + 1)]

addLocalName(u, s) ==
  /\ hasURI(u)
  /\ Len(LNHeap) < MaxNames
  /\ URIMap' = [URIMap EXCEPT ![u + 1].lnElts = @ + 1]
  /\ createLocalName(u, s)
  /\ returned' = [NothingReturned EXCEPT !.op = "local", !.uri = u,
                    !.id = At(URIMap, u).lnElts, !.str = s]
  /\ UNCHANGED << URICount, PrefixMap, LNCount, GValueMap, GValueCount, LNCache >>

(* A variant of createGlobalValue that counts the value and drops it.      *)
CountGlobal(s) ==
  /\ Len(GValueMap) < MaxGlobals
  /\ GValueCount' = GValueCount + 1
  /\ UNCHANGED GValueMap

createGlobalValue(s) ==
  /\ Len(GValueMap) < MaxGlobals
  /\ GValueMap' = Append(GValueMap, s)
  /\ GValueCount' = GValueCount + 1

addGlobalValue(s) ==
  /\ createGlobalValue(s)
  /\ returned' = [NothingReturned EXCEPT !.op = "global", !.gid = GValueCount,
                    !.str = s]
  /\ UNCHANGED << URIMap, URICount, PrefixMap, LNMap, LNCount, LNHeap, LNCache >>

(* The partition is reached through the cache, the global value is pushed  *)
(* first, then the local one.                                              *)
addLocalValue(q, s) ==
  /\ ValidQName(q)
  /\ createGlobalValue(s)
  /\ LNCache' = CacheAfterGet(q)
  /\ LNHeap' = [LNHeap EXCEPT ![LVPartition(q)].values = Append(@, s)]
  /\ UNCHANGED << URIMap, URICount, PrefixMap, LNMap, LNCount >>

(* A variant of addValue: the counter is read before the value is added.   *)
addValueEarlyID(q, s) ==
  /\ addLocalValue(q, s)
  /\ returned' = [op |-> "value", uri |-> q.uri, local |-> q.local, str |-> s,
                  id |-> Len(LNHeap[LVPartition(q)].values),
                  gid |-> IF GValueCount = 0 THEN 0 ELSE GValueCount - 1]

(* The global id is read back from the counter afterwards.                 *)
addValue(q, s) ==
  /\ addLocalValue(q, s)
  /\ returned' = [op |-> "value", uri |-> q.uri, local |-> q.local, str |-> s,
                  id |-> Len(LNHeap[LVPartition(q)].values),
                  gid |-> GValueCount' - 1]

(* getLocalValue, getLocalValueLog: const, but the cache is mutable.       *)
readPartition(q) ==
  /\ ValidQName(q)
  /\ LNCache' = CacheAfterGet(q)
  /\ UNCHANGED << URIMap, URICount, PrefixMap, LNMap, LNCount, LNHeap,
                  GValueMap, GValueCount, returned >>

ValidQNames ==
  {MkQName(u, l) : u \in 0 .. Len(URIMap) - 1, l \in 0 .. Len(LNHeap)}
    \intersect {q \in QName : ValidQName(q)}

Next ==
  \/ \E s \in Str : addURI(s, None)
  \/ \E u \in 0 .. Len(URIMap) - 1, s \in Str : addPrefix(u, s)
  \/ \E u \in 0 .. Len(URIMap) - 1, s \in Str : addLocalName(u, s)
  \/ \E s \in Str : addGlobalValue(s)
  \/ \E q \in ValidQNames, s \in Str : addValue(q, s)
  \/ \E q \in ValidQNames : readPartition(q)

Spec == Init /\ [][Next]_tableVars

(***************************************************************************)
(* Properties                                                              *)
(***************************************************************************)

Address == 1 .. Len(LNHeap)

(* The shape of every table: StringTable's members.                        *)
TypeOK ==
  /\ URIMap \in Seq(URIInfo)
  /\ URICount \in Nat /\ LNCount \in Nat /\ GValueCount \in Nat
  /\ PrefixMap \in Seq(Seq(Str))
  /\ LNHeap \in Seq(LocalName)
  /\ LNMap \in Seq(Seq(Address))
  /\ GValueMap \in Seq(Str)
  /\ LNCache \in Seq([key : QName, value : Address])
  /\ returned \in [op : {"none", "uri", "prefix", "local", "global", "value"},
                   uri : Nat, local : Nat, id : Nat, gid : Nat, str : Str]

(* assertPartitionsInSync, with the two counters the bit widths are        *)
(* computed from: no sequence of calls lets one partition run ahead.       *)
PartitionsInSync ==
  /\ Len(URIMap) = Len(PrefixMap) /\ Len(URIMap) = Len(LNMap)
  /\ URICount = Len(URIMap) /\ LNCount = Len(URIMap)
  /\ GValueCount = Len(GValueMap)

(* The count an identifier is checked against never exceeds the partition, *)
(* so a lookup the invariants let through is in range.                     *)
CountedNamesExist ==
  \A u \in 1 .. Len(URIMap) : URIMap[u].lnElts <= Len(LNMap[u])

(* getLVPartition's shortcut: whatever was evicted, reused or filled in    *)
(* between, an entry of LNCache holds what LNMap would answer for its key, *)
(* and no key has two entries.                                             *)
CacheAgreesWithMap ==
  /\ \A i \in 1 .. Len(LNCache) :
       LET e == LNCache[i] IN
         /\ ValidQName(e.key)
         /\ e.value = At(At(LNMap, e.key.uri), e.key.local)
  /\ LRU!KeysDistinct
  /\ Len(LNCache) <= CacheSize

(* A value that is in a local partition is in the global one too, so that  *)
(* a global hit can stand for any local value (addLocalValue).             *)
LocalValuesAreGlobal ==
  \A a \in Address : \A i \in 1 .. Len(LNHeap[a].values) :
    \E g \in 1 .. Len(GValueMap) : GValueMap[g] = LNHeap[a].values[i]

(* The identifiers a call returns resolve, through the getters, to the     *)
(* string the call was given (addURI, addLocalName, addPrefix, addValue).  *)
(* The first three URIs get a wrong prefix count and all predefined ones a *)
(* wrong local-name count in createInitialEntries; those are left out.     *)
Resolves(part, id, s) == id < Len(part) /\ At(part, id) = s
ReturnedIDsResolve ==
  LET r == returned IN
  /\ r.op = "uri" => Resolves(URIMap, r.id, NewURIInfo(r.str, None))
  /\ r.op = "prefix" /\ r.uri >= 3 => Resolves(At(PrefixMap, r.uri), r.id, r.str)
  /\ r.op = "local" /\ r.uri >= NumPredefined =>
       /\ ValidQName(MkQName(r.uri, r.id))
       /\ getLocalName(MkQName(r.uri, r.id)) = r.str
  /\ r.op \in {"global", "value"} => Resolves(GValueMap, r.gid, r.str)
  /\ r.op = "value" =>
       Resolves(LNHeap[LVPartition(MkQName(r.uri, r.local))].values, r.id, r.str)

(***************************************************************************)
(* Read through the pointers of LNMap, the table is a set of append-only   *)
(* partitions.  Neither the cache nor the counts appear in the mapping.    *)
(***************************************************************************)

Partitions == INSTANCE StringPartitions WITH
  InitURIs <- WithXSD(<< EmptyStr, XML, XSI >>, XSD),
  InitPrefixes <- WithXSD(<< << EmptyStr >>, << XMLPrefix >>, << XSIPrefix >> >>,
                          << >>),
  InitNames <- WithXSD(<< << >>, XMLNames, XSINames >>, XSDNames),
  uris <- [u \in 1 .. Len(URIMap) |-> URIMap[u].name],
  prefixes <- PrefixMap,
  names <- [u \in 1 .. Len(LNMap) |->
              [l \in 1 .. Len(LNMap[u]) |-> LNHeap[LNMap[u][l]].name]],
  values <- [u \in 1 .. Len(LNMap) |->
              [l \in 1 .. Len(LNMap[u]) |-> LNHeap[LNMap[u][l]].values]],
  globals <- GValueMap

ImplementsPartitions == Partitions!Spec
=============================================================================
