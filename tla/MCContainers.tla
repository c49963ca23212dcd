---------------------------- MODULE MCContainers ----------------------------
(***************************************************************************)
(* Where the decoder keeps its state, on small instances: the hash map of  *)
(* the schema (DenseMap), the string table (StringTable), or the cache in  *)
(* front of the table (LRUCache).  A behaviour is one of them; the others  *)
(* stay as they were.                                                      *)
(***************************************************************************)
EXTENDS LRUCache, DenseMap, StringTable, TLC

CONSTANTS s1, s2

VARIABLE container

vars == << container, lruVars, mapVars, tableVars >>

(* Four neighbours, one of which wraps around in a table of four; and two  *)
(* pairs of keys that collide.                                             *)
MCHashes ==
  LET ks == CHOOSE s \in [1 .. 4 -> MapKey] : \A i, j \in 1 .. 4 : s[i] = s[j] => i = j
      Hash(h) == [k \in MapKey |-> h[CHOOSE i \in 1 .. 4 : ks[i] = k]]
  IN {Hash(<< 0, 1, 2, 7 >>), Hash(<< 3, 3, 5, 5 >>)}

(* The schema's URIs and one more, two new local names in any of them.     *)
MCStr == {s1, s2}
MCXMLNames == << s2 >>
MCXSINames == << >>
MCXSDNames == << s2 >>

ContainersInit ==
  /\ container \in {"SmallLRUCache", "DenseMap", "StringTable"}
  /\ CacheInit /\ MapInit /\ Init
  /\ container # "DenseMap" => hash = CHOOSE h \in Hashes : TRUE

ContainersNext ==
  /\ UNCHANGED container
  /\ \/ container = "SmallLRUCache" /\ CacheNext /\ UNCHANGED << mapVars, tableVars >>
     \/ container = "DenseMap" /\ MapNext /\ UNCHANGED << lruVars, tableVars >>
     \/ container = "StringTable" /\ Next /\ UNCHANGED << lruVars, mapVars >>

(* A probe is a loop of one thread: it goes on. *)
ContainersSpec ==
  /\ ContainersInit /\ [][ContainersNext]_vars
  /\ WF_vars(container = "DenseMap" /\ goOn /\ UNCHANGED << container, lruVars, tableVars >>)
=============================================================================
