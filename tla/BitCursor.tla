----------------------------- MODULE BitCursor ------------------------------
(***************************************************************************)
(* What a reader promises: a position in a stream of bits.  A read of a    *)
(* width returns the next bits and moves past them, or reports that the    *)
(* stream is too short for that width.  There is no word and no byte order *)
(* here; of the second reader only its unit is left.                       *)
(*                                                                         *)
(* A bit is the set of the positions it was taken from: {i} is the i-th    *)
(* bit of the stream, {} a 0 that came from nowhere, and {i, j} the        *)
(* disjunction of two bits.                                                *)
(***************************************************************************)
EXTENDS Naturals, Sequences

CONSTANT MaxWidth     \* bounds a read

VARIABLES
  total,    \* the length of the stream in bits
  unit,     \* reads are of so many bits and multiples: a bit, or a byte
  pos,      \* how many were read
  want,     \* the width asked for last
  got       \* what came of it

cursorVars == << total, unit, pos, want, got >>

OOB == [ok |-> FALSE, bits |-> << >>]
Bits(from, n) == [ok |-> TRUE, bits |-> [i \in 1 .. n |-> {from + i}]]

Units(n) == (n + unit - 1) \div unit

Init ==
  /\ total \in Nat /\ unit \in Nat \ {0}
  /\ pos = 0 /\ want = 0 /\ got = Bits(0, 0)

(* A width that fits is never refused, and one that does not always is.    *)
Read(n) ==
  LET m == Units(n) * unit
  IN /\ want' = n
     /\ IF pos + m <= total
        THEN pos' = pos + m /\ got' = Bits(pos, m)
        ELSE UNCHANGED pos /\ got' = OOB
     /\ UNCHANGED << total, unit >>

(* Another reader goes on at the same place. *)
Handover == unit' \in Nat \ {0} /\ UNCHANGED << total, pos, want, got >>

Next == Handover \/ \E n \in 1 .. MaxWidth : Read(n)

Spec == Init /\ [][Next]_cursorVars
=============================================================================
