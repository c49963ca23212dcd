-------------------------------- MODULE Log2 --------------------------------
(***************************************************************************)
(* How many bits tell n values apart: the width of compact identifiers and *)
(* event codes (CompactIDLog2 in include/exi/Basic/CompactID.hpp).         *)
(***************************************************************************)
EXTENDS Naturals

Pow2[k \in Nat] == IF k = 0 THEN 1 ELSE 2 * Pow2[k - 1]

CeilLog2(n) == CHOOSE k \in 0 .. n : Pow2[k] >= n /\ (k = 0 \/ Pow2[k - 1] < n)
=============================================================================
