-------------------------- MODULE MCOrderedReader ---------------------------
(***************************************************************************)
(* OrderedReader with its real word and byte.                              *)
(***************************************************************************)
EXTENDS OrderedReader

(* Up to two and a half words; a header in front of more than one word; a  *)
(* document cut short after whole words, or within the first.              *)
MCSizes == 0 .. 20
MCHeaders == 9 .. 20
MCTruncated == (0 .. 8) \union {16}

(* Event codes and identifiers of up to 256 entries, octets, and for the   *)
(* byte reader the next size up.                                           *)
MCWidths == {1, 2, 3, 7, 8, 9}
=============================================================================
