--------------------------- MODULE MCStringCodec ----------------------------
(***************************************************************************)
(* StringCodec on small documents.  The URIs are told apart, the other     *)
(* strings need not be.                                                    *)
(***************************************************************************)
EXTENDS StringCodec

CONSTANTS empty, xml, xsi, u1, s1, s2

MCStr == {empty, xml, xsi, u1, s1, s2}
MCNoNames == << >>
MCXSINames == << s1, s2 >>

(* Names without a namespace and in a namespace of the document's own.     *)
OwnNames == {<< empty, s1 >>, << empty, s2 >>, << u1, s1 >>}
OwnValues == {s1, s2}
OwnDeclarations == {<< xsi, xsi >>, << u1, s1 >>}

(* xmlns:s1 for the schema-instance namespace, which has a prefix already. *)
SecondPrefix == {<< xsi, s1 >>}

(* xsi:type, to an encoder that knows it from the start.                   *)
PredefinedName == OwnNames \union {<< xsi, s1 >>}

NoValues == {}
NoDeclarations == {}
=============================================================================
