----------------------------- MODULE ExiOptions ------------------------------
(***************************************************************************)
(* ExiOptions (include/exi/Basic/ExiOptions.hpp) and how they are          *)
(* validated and repaired (lib/exi/Basic/ExiOptions.cpp).  Block size and  *)
(* the limits of the value partitions are not validated and left out.      *)
(***************************************************************************)

AlignKind == {"None", "BitPacked", "BytePacked", "PreCompression"}
PreserveKind == {"Comments", "DTDs", "LexicalValues", "PIs", "Prefixes"}
StrictMask == {"LexicalValues"}

(* SchemaID is not given, given as explicitly none, or names a schema.     *)
ExiOptions ==
  [Alignment : AlignKind, Compression : BOOLEAN, Strict : BOOLEAN,
   SelfContained : BOOLEAN, Preserve : SUBSET PreserveKind,
   DatatypeMap : BOOLEAN, SchemaID : {"unset", "null", "named"}]

DefaultOptions ==
  [Alignment |-> "BitPacked", Compression |-> FALSE, Strict |-> FALSE,
   SelfContained |-> FALSE, Preserve |-> {}, DatatypeMap |-> FALSE,
   SchemaID |-> "unset"]

ValidateCommon(o) ==
  /\ o.Compression => o.Alignment = "PreCompression"
  /\ o.SelfContained => o.Alignment # "PreCompression"
  /\ o.Strict => o.Preserve \subseteq StrictMask /\ ~o.SelfContained
  /\ o.DatatypeMap => "LexicalValues" \notin o.Preserve /\ o.SchemaID = "named"

ValidateOptions(o) ==
  /\ o.Compression => o.Alignment \notin {"BitPacked", "BytePacked"}
  /\ ValidateCommon(o)

(* FixupAndValidateOptions repairs the alignment, and may refuse the rest. *)
Defaulted(o) ==
  IF o.Alignment # "None" THEN o
  ELSE [o EXCEPT !.Alignment = IF o.Compression THEN "PreCompression" ELSE "BitPacked"]

Refused(o) == o.Compression /\ Defaulted(o).Alignment = "BitPacked"

Fixup(o) ==
  IF o.Compression /\ ~Refused(o) THEN [o EXCEPT !.Alignment = "PreCompression"]
  ELSE Defaulted(o)

FixupAccepts(o) == ~Refused(o) /\ ValidateCommon(Fixup(o))
=============================================================================
