------------------------------ MODULE Dictionary ----------------------------
(***************************************************************************)
(* What a hash table promises: a map from keys to values, each operation   *)
(* answering at once.  The answer is the value the operation ends at, or   *)
(* NoValue.                                                                *)
(***************************************************************************)
CONSTANTS Key, Value, NoValue

VARIABLES map, answer

Init == map = [k \in Key |-> NoValue] /\ answer = NoValue

Lookup(k) == answer' = map[k] /\ UNCHANGED map

(* A key that is there keeps its value. *)
Insert(k, v) ==
  LET after == IF map[k] = NoValue THEN v ELSE map[k]
  IN answer' = after /\ map' = [map EXCEPT ![k] = after]

Assign(k, v) == answer' = v /\ map' = [map EXCEPT ![k] = v]

Erase(k) == answer' = map[k] /\ map' = [map EXCEPT ![k] = NoValue]

Clear == map' = [k \in Key |-> NoValue] /\ UNCHANGED answer

Next ==
  \/ \E k \in Key : Lookup(k) \/ Erase(k) \/ \E v \in Value : Insert(k, v) \/ Assign(k, v)
  \/ Clear

Spec == Init /\ [][Next]_<< map, answer >>
=============================================================================
