------------------------- MODULE MCDecoderLifecycle -------------------------
(***************************************************************************)
(* DecoderLifecycle with every stream, and every combination of options    *)
(* over two of the preserve options: the one strict mode allows and one it *)
(* does not.  Callers say whether there is a schema.                       *)
(***************************************************************************)
EXTENDS DecoderLifecycle

MCOptionSets ==
  {o \in ExiOptions : o.SchemaID # "unset"
                        /\ o.Preserve \subseteq {"LexicalValues", "Prefixes"}}
MCBuffers == Header
=============================================================================
