-------------------------- MODULE DecoderLifecycle --------------------------
(***************************************************************************)
(* The life of an ExiDecoder (lib/exi/Decode/BodyDecoder.cpp,              *)
(* HeaderDecoder.cpp): options and a stream reach it through setOptions,   *)
(* setReader and decodeHeader, in any order and any number of times, and   *)
(* decodeBody works on whatever they left.                                 *)
(*                                                                         *)
(* A buffer is what its header says.  Decoding the events of a body        *)
(* changes nothing that is kept here; it succeeds or fails.  A result in   *)
(* Traps ends the program.                                                 *)
(***************************************************************************)
EXTENDS ExiOptions

CONSTANTS
  NoOptions, NoReader, NoSchema,
  OptionSets,    \* the options callers give
  Buffers        \* the streams they give

Header == [valid : BOOLEAN, presence : BOOLEAN, version : {"final 1", "other"}]

ASSUME DecoderAssumption ==
  /\ OptionSets \subseteq ExiOptions
  /\ Buffers \subseteq Header
  /\ NoOptions \notin ExiOptions
  /\ NoReader \notin [kind : {"bit", "byte"}, buffer : Header]
  /\ NoSchema \notin [kind : {"bit", "byte"}, Preserve : SUBSET PreserveKind]

VARIABLES
  Opts,            \* Header.Opts
  Reader,
  CurrentSchema,   \* the reader it was instantiated for and what it preserves
  Preserve,
  DidHeader, SetReader, DidInit,    \* DecoderFlags
  call, result,    \* history: the last call and its result
  given            \* history: whether the caller ever gave options

decoderVars == << Opts, Reader, CurrentSchema, Preserve, DidHeader, SetReader,
                  DidInit, call, result, given >>

Errors == {"InvalidConfig", "InvalidEXIInput", "HeaderSig", "OutOfBand",
           "HeaderVer", "Mismatch", "BodyError"}
Traps == {"assertion", "schema is required", "unsupported"}

Keep == UNCHANGED << Opts, Reader, CurrentSchema, Preserve,
                     DidHeader, SetReader, DidInit >>

Init ==
  /\ Opts \in OptionSets \union {NoOptions}
  /\ given = (Opts # NoOptions)
  /\ Reader = NoReader /\ CurrentSchema = NoSchema /\ Preserve = {}
  /\ DidHeader = FALSE /\ SetReader = FALSE /\ DidInit = FALSE
  /\ call = "none" /\ result = "OK"

(* An error if there IS a reader: the calls that ask come too late. *)
readerExists == IF Reader = NoReader THEN "OK" ELSE "InvalidConfig"

(* A variant that knows two alignments only. *)
KindForKnown(alignment) ==
  CASE alignment = "BitPacked" -> "bit" [] alignment = "BytePacked" -> "byte"
    [] OTHER -> "none"
KindFor(alignment) == IF alignment = "BitPacked" THEN "bit" ELSE "byte"
NewReader(kind, b) == [kind |-> kind, buffer |-> b]

(***************************************************************************)
(* init(), once.  Its callers have set the options and the reader.         *)
(***************************************************************************)

NewSchema(o) == [kind |-> KindFor(o.Alignment), Preserve |-> o.Preserve]

initResult(o) ==
  IF o.SchemaID = "unset" THEN "schema is required"
  ELSE IF o.SchemaID = "named" \/ o.Alignment \notin {"BitPacked", "BytePacked"}
  THEN "unsupported"
  ELSE "OK"

init(o) ==
  /\ result' = initResult(o)
  /\ IF result' = "OK"
     THEN /\ CurrentSchema' = NewSchema(o)
          /\ Preserve' = o.Preserve
          /\ DidHeader' = TRUE /\ DidInit' = TRUE
     ELSE UNCHANGED << CurrentSchema, Preserve, DidHeader, DidInit >>

(***************************************************************************)
(* setOptions and setReader                                                *)
(***************************************************************************)

(* Variants that ask for an external reader, and for the tables.           *)
TooLateOnceRead == SetReader
TooLateOnceInit == DidInit
TooLate == DidHeader

(* A variant that takes the options for the header. *)
setOptionsAsHeader(o) ==
  /\ call' = "setOptions"
  /\ IF TooLate
     THEN result' = readerExists /\ Keep /\ UNCHANGED given
     ELSE /\ Opts' = o
          /\ DidHeader' = TRUE
          /\ result' = "OK"
          /\ given' = TRUE
          /\ UNCHANGED << Reader, CurrentSchema, Preserve, SetReader, DidInit >>

setOptions(o) ==
  /\ call' = "setOptions"
  /\ IF TooLate
     THEN /\ result' = IF Opts = NoOptions THEN "assertion" ELSE readerExists
          /\ Keep /\ UNCHANGED given
     ELSE /\ Opts' = o
          /\ DidHeader' = (Reader # NoReader)
          /\ result' = "OK"
          /\ given' = TRUE
          /\ UNCHANGED << Reader, CurrentSchema, Preserve, SetReader, DidInit >>

setReader(b) ==
  /\ call' = "setReader"
  /\ UNCHANGED given
  /\ IF Opts = NoOptions
     THEN result' = "InvalidConfig" /\ Keep
     ELSE /\ Reader' = NewReader(KindFor(Opts.Alignment), b)
          /\ DidHeader' = TRUE /\ SetReader' = TRUE
          /\ result' = "OK"
          /\ UNCHANGED << Opts, CurrentSchema, Preserve, DidInit >>

(***************************************************************************)
(* decodeHeader: decodeHeaderImpl gets as far as it can, changing the      *)
(* options on its way; a refused header leaves a reader all the same.      *)
(***************************************************************************)

(* Options are made for a header that says it has some. *)
ImpliedOptions(h) == IF Opts = NoOptions /\ h.presence THEN DefaultOptions ELSE Opts

WithCompression(o) ==
  IF o.Compression THEN [o EXCEPT !.Alignment = "PreCompression"] ELSE o

headerResult(h) ==
  IF ~h.valid THEN "HeaderSig"
  ELSE IF Opts = NoOptions /\ ~h.presence THEN "OutOfBand"
  ELSE IF h.version = "other" THEN "HeaderVer"
  ELSE IF h.presence THEN "unsupported"
  ELSE IF ~FixupAccepts(WithCompression(Opts)) THEN "Mismatch"
  ELSE "OK"

OptionsAfter(h) ==
  CASE headerResult(h) \in {"HeaderSig", "OutOfBand"} -> Opts
    [] headerResult(h) \in {"HeaderVer", "unsupported"} -> ImpliedOptions(h)
    [] OTHER -> Fixup(WithCompression(Opts))

(* A variant of HeaderOK that goes on with refused options. *)
HeaderFound(h) == headerResult(h) \in {"OK", "Mismatch"}
HeaderOK(h) == headerResult(h) = "OK"

ReaderAfter(h) ==
  NewReader(IF HeaderOK(h) THEN KindFor(OptionsAfter(h).Alignment) ELSE "bit", h)

decodeHeader(h) ==
  /\ call' = "decodeHeader"
  /\ UNCHANGED given
  /\ IF TooLate
     THEN /\ result' = IF Reader = NoReader THEN "assertion" ELSE readerExists
          /\ Keep
     ELSE /\ Opts' = OptionsAfter(h)
          /\ SetReader' = FALSE
          /\ Reader' = ReaderAfter(h)
          /\ IF HeaderOK(h) THEN init(Opts')
             ELSE /\ result' = headerResult(h)
                  /\ UNCHANGED << CurrentSchema, Preserve, DidHeader, DidInit >>

(***************************************************************************)
(* decodeBody: prepareForDecoding, then the events.                        *)
(***************************************************************************)

decodeNothing ==      \* without a serializer
  /\ call' = "decodeBody" /\ result' = "InvalidEXIInput"
  /\ Keep /\ UNCHANGED given

refuseBody ==
  /\ ~DidInit /\ ~SetReader
  /\ call' = "decodeBody" /\ result' = "InvalidConfig"
  /\ Keep /\ UNCHANGED given

initForBody ==
  /\ ~DidInit /\ SetReader
  /\ call' = "decodeBody"
  /\ IF Reader = NoReader \/ Opts = NoOptions
     THEN result' = "assertion" /\ Keep
     ELSE init(Opts) /\ UNCHANGED << Opts, Reader, SetReader >>
  /\ UNCHANGED given

decodeEvents ==
  /\ DidInit
  /\ call' = "decodeBody"
  /\ result' \in IF CurrentSchema = NoSchema THEN {"assertion"} ELSE {"OK", "BodyError"}
  /\ Keep /\ UNCHANGED given

decodeBody == decodeNothing \/ refuseBody \/ initForBody \/ decodeEvents

Next ==
  /\ result \notin Traps
  /\ \/ \E o \in OptionSets : setOptions(o)
     \/ \E b \in Buffers : setReader(b) \/ decodeHeader(b)
     \/ decodeBody

Spec == Init /\ [][Next]_decoderVars

(***************************************************************************)
(* Properties                                                              *)
(***************************************************************************)

DecoderTypeOK ==
  /\ Opts \in ExiOptions \union {NoOptions}
  /\ Reader \in [kind : {"bit", "byte"}, buffer : Buffers] \union {NoReader}
  /\ CurrentSchema \in [kind : {"bit", "byte"}, Preserve : SUBSET PreserveKind]
                         \union {NoSchema}
  /\ Preserve \subseteq PreserveKind
  /\ {DidHeader, SetReader, DidInit, given} \subseteq BOOLEAN
  /\ call \in {"none", "setOptions", "setReader", "decodeHeader", "decodeBody"}
  /\ result \in {"OK"} \union Errors \union Traps

(* The assertions of setOptions, decodeHeader, init and prepareForDecoding *)
(* never fail, whatever was called before and with whatever success: the   *)
(* flags mean what they say of the options, the reader and the schema.     *)
FlagsAreTrue ==
  /\ DidHeader => Opts # NoOptions /\ Reader # NoReader
  /\ SetReader => DidHeader
  /\ DidInit => DidHeader
  /\ DidInit <=> CurrentSchema # NoSchema

(* The schema casts the reader to the type it was instantiated for         *)
(* (BuiltinSchema::New), and the decoder reads prefixes by its own copy of *)
(* the options: schema, reader, copy and options never disagree.           *)
SchemaFitsReader ==
  DidInit => /\ CurrentSchema.kind = Reader.kind
             /\ CurrentSchema.Preserve = Preserve
             /\ CurrentSchema = NewSchema(Opts)

(* decodeHeader hands only validated options to the body                   *)
(* (FixupAndValidateOptions); setReader is not asked.                      *)
HeaderValidates == DidInit /\ ~SetReader => ValidateOptions(Opts)

(* A decoder serves one document (readerExists): once it is initialised no *)
(* call changes any of it, but for setReader, which does not ask.          *)
InitialisedIsFrozen ==
  [][DidInit /\ call' # "setReader" => Keep]_decoderVars

(* kOutOfBandOpts, "No options, but out-of-band not specified": a header   *)
(* without options is accepted only if the caller gave some.               *)
OptionsWereGiven ==
  call = "decodeHeader" /\ result \in {"OK", "schema is required"} => given
=============================================================================
