-------------------------- MODULE StringPartitions --------------------------
(***************************************************************************)
(* What a decoder's string table promises: a set of partitions to which    *)
(* strings are only ever appended, so that a compact identifier, the       *)
(* position of a string in its partition, means the same string for ever.  *)
(* There is no cache, no pointer and no counter here: a local-value        *)
(* partition belongs to a qualified name, and a value enters the global    *)
(* partition in the same step as its local one.                            *)
(***************************************************************************)
EXTENDS Naturals, Sequences

CONSTANTS
  Str,             \* the strings
  InitURIs,        \* the predefined URI partition
  InitPrefixes,    \* the predefined prefix partitions, one per URI
  InitNames        \* the predefined local-name partitions, one per URI

VARIABLES
  uris,       \* the URI partition
  prefixes,   \* prefixes[u]: the prefix partition of the u-th URI
  names,      \* names[u]: the local-name partition of the u-th URI
  values,     \* values[u][l]: the local-value partition of a qualified name
  globals     \* the global-value partition

partVars == << uris, prefixes, names, values, globals >>

Init ==
  /\ uris = InitURIs
  /\ prefixes = InitPrefixes
  /\ names = InitNames
  /\ values = [u \in DOMAIN InitNames |-> [l \in DOMAIN InitNames[u] |-> << >>]]
  /\ globals = << >>

(* A new URI comes with empty partitions of its own. *)
NewURI(s) ==
  /\ uris' = Append(uris, s)
  /\ prefixes' = Append(prefixes, << >>)
  /\ names' = Append(names, << >>)
  /\ values' = Append(values, << >>)
  /\ UNCHANGED globals

NewPrefix(u, s) ==
  /\ prefixes' = [prefixes EXCEPT ![u] = Append(@, s)]
  /\ UNCHANGED << uris, names, values, globals >>

NewLocalName(u, s) ==
  /\ names' = [names EXCEPT ![u] = Append(@, s)]
  /\ values' = [values EXCEPT ![u] = Append(@, << >>)]
  /\ UNCHANGED << uris, prefixes, globals >>

NewGlobal(s) ==
  /\ globals' = Append(globals, s)
  /\ UNCHANGED << uris, prefixes, names, values >>

NewValue(u, l, s) ==
  /\ values' = [values EXCEPT ![u][l] = Append(@, s)]
  /\ globals' = Append(globals, s)
  /\ UNCHANGED << uris, prefixes, names >>

Next ==
  \E s \in Str :
    \/ NewURI(s)
    \/ NewGlobal(s)
    \/ \E u \in DOMAIN uris :
         \/ NewPrefix(u, s)
         \/ NewLocalName(u, s)
         \/ \E l \in DOMAIN names[u] : NewValue(u, l, s)

Spec == Init /\ [][Next]_partVars
=============================================================================
