-------------------------- MODULE MCBuiltinSchema ---------------------------
(***************************************************************************)
(* BuiltinSchema on documents over two names.                              *)
(***************************************************************************)
EXTENDS BuiltinSchema, TLC

(* The terms a start tag is followed by when comments, processing          *)
(* instructions and entity references only come later.                     *)
MCOrdinary == {"EE", "AT", "NS", "SC", "SE", "CH"}
MCAnything == MCOrdinary \union {"CM", "PI", "ER"}

(* No option or one, and all options or all but one. *)
AllOptions == {"CM", "PI", "DTD", "NS", "SC"}
MCOptions == {s \in SUBSET AllOptions : Cardinality(s) \in {0, 1, 4, 5}}
MCWithoutNS == {{"CM", "PI", "DTD"}}

QNameSymmetry == Permutations(QName)
=============================================================================
