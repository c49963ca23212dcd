----------------------- MODULE DecoderLifecycleProofs -----------------------
(***************************************************************************)
(* Proofs about DecoderLifecycle, for any options and any streams callers  *)
(* may give.  The flags alone are not enough: SchemaFitsReader needs the   *)
(* reader to fit the options before the schema exists, from the moment it  *)
(* is set from outside (ReaderFitsOptions).                                *)
(***************************************************************************)
EXTENDS DecoderLifecycle, TLAPS

(* A reader set from outside, or handed over by decodeHeader to an         *)
(* initialised decoder, is of the kind the options ask for (setReader).    *)
ReaderFitsOptions ==
  SetReader \/ DidInit => Reader.kind = KindFor(Opts.Alignment)

SchemaFollows ==
  DidInit => CurrentSchema = NewSchema(Opts) /\ Preserve = Opts.Preserve

DIInv ==
  /\ DecoderTypeOK
  /\ FlagsAreTrue
  /\ ReaderFitsOptions
  /\ SchemaFollows
  /\ HeaderValidates

-----------------------------------------------------------------------------
(* Options                                                                 *)

(* FixupAndValidateOptions changes the alignment at most, ...              *)
LEMMA FixupType ==
  ASSUME NEW o \in ExiOptions
  PROVE  /\ Fixup(o) \in ExiOptions
         /\ \A f \in DOMAIN o \ {"Alignment"} : Fixup(o)[f] = o[f]
  BY DEF Fixup, Defaulted, Refused, ExiOptions, AlignKind

(* ... a second call finds nothing to repair, ...                          *)
THEOREM FixupIdempotent ==
  ASSUME NEW o \in ExiOptions, FixupAccepts(o)
  PROVE  FixupAccepts(Fixup(o)) /\ Fixup(Fixup(o)) = Fixup(o)
<1> DEFINE f == Fixup(o)
<1>1. f \in ExiOptions
  BY FixupType
<1>2. f.Alignment # "None"
  BY DEF Fixup, Defaulted, ExiOptions
<1>3. ValidateCommon(f) /\ (f.Compression => f.Alignment = "PreCompression")
  BY DEF FixupAccepts, ValidateCommon
<1> HIDE DEF f
<1>4. Defaulted(f) = f
  BY <1>2 DEF Defaulted
<1>5. ~Refused(f)
  BY <1>3, <1>4 DEF Refused
<1>6. Fixup(f) = f
  <2>1. CASE f.Compression
    BY <1>1, <1>3, <1>5, <2>1 DEF Fixup, ExiOptions
  <2>2. CASE ~f.Compression
    BY <1>4, <2>2 DEF Fixup
  <2>3. QED
    BY <2>1, <2>2
<1>7. QED
  BY <1>3, <1>5, <1>6 DEF FixupAccepts, f

(* ... and what it accepts ValidateOptions accepts as well.                *)
THEOREM FixupValidates ==
  ASSUME NEW o \in ExiOptions, FixupAccepts(o)
  PROVE  ValidateOptions(Fixup(o))
  BY DEF FixupAccepts, Fixup, Defaulted, Refused, ExiOptions, AlignKind,
         ValidateCommon, ValidateOptions

-----------------------------------------------------------------------------
(* The invariant                                                           *)

(* The reader and the schema options ask for (setReader,                   *)
(* BuiltinSchema::New) are a reader and a schema.                          *)
LEMMA KindsAndSchemas ==
  ASSUME NEW o \in ExiOptions
  PROVE  /\ KindFor(o.Alignment) \in {"bit", "byte"}
         /\ NewSchema(o) \in [kind : {"bit", "byte"}, Preserve : SUBSET PreserveKind]
         /\ NewSchema(o) # NoSchema
         /\ NewSchema(o).kind = KindFor(o.Alignment)
         /\ NewSchema(o).Preserve = o.Preserve
         /\ o.Preserve \subseteq PreserveKind
         /\ initResult(o) \in {"OK"} \union Traps
  BY DecoderAssumption DEF KindFor, NewSchema, ExiOptions, initResult, Traps

(* A decoder as constructed satisfies the invariant, with options or not.  *)
LEMMA InitEstablishes == Init => DIInv
  BY DecoderAssumption
  DEF Init, DIInv, DecoderTypeOK, FlagsAreTrue, ReaderFitsOptions, SchemaFollows,
      HeaderValidates

(* Calls that are refused, or find nothing to do. *)
LEMMA KeepPreserves ==
  ASSUME DIInv, Keep, call' \in {"setOptions", "setReader", "decodeHeader", "decodeBody"},
         result' \in {"OK"} \union Errors \union Traps, given' = given
  PROVE  DIInv'
  BY DEF DIInv, Keep, DecoderTypeOK, FlagsAreTrue, ReaderFitsOptions, SchemaFollows,
         HeaderValidates, NewSchema, KindFor, ValidateOptions, ValidateCommon

(* setOptions: options come in only before there is a reader set for them. *)
LEMMA setOptionsPreserves ==
  ASSUME DIInv, NEW o \in OptionSets, setOptions(o)
  PROVE  DIInv'
<1>1. CASE TooLate
  <2>1. Keep /\ given' = given /\ call' = "setOptions"
    BY <1>1 DEF setOptions
  <2>2. result' \in {"OK"} \union Errors \union Traps
    BY <1>1 DEF setOptions, readerExists, Errors, Traps
  <2>3. QED
    BY <2>1, <2>2, KeepPreserves
<1>2. CASE ~TooLate
  <2>1. ~DidHeader /\ ~SetReader /\ ~DidInit
    BY <1>2 DEF TooLate, DIInv, FlagsAreTrue
  <2>2. /\ Opts' = o /\ DidHeader' = (Reader # NoReader)
        /\ result' = "OK" /\ given' = TRUE /\ call' = "setOptions"
        /\ UNCHANGED << Reader, CurrentSchema, Preserve, SetReader, DidInit >>
    BY <1>2 DEF setOptions
  <2>3. o \in ExiOptions /\ o # NoOptions
    BY DecoderAssumption
  <2>4. DecoderTypeOK'
    BY <2>2, <2>3 DEF DIInv, DecoderTypeOK
  <2>5. FlagsAreTrue'
    BY <2>1, <2>2, <2>3 DEF DIInv, FlagsAreTrue
  <2>6. ReaderFitsOptions' /\ SchemaFollows' /\ HeaderValidates'
    BY <2>1, <2>2 DEF ReaderFitsOptions, SchemaFollows, HeaderValidates
  <2>7. QED
    BY <2>4, <2>5, <2>6 DEF DIInv
<1>3. QED
  BY <1>1, <1>2

(* setReader: the new reader is of the kind the frozen options ask for.    *)
LEMMA setReaderPreserves ==
  ASSUME DIInv, NEW b \in Buffers, setReader(b)
  PROVE  DIInv'
<1>1. CASE Opts = NoOptions
  BY <1>1, KeepPreserves DEF setReader, Errors
<1>2. CASE Opts # NoOptions
  <2>1. /\ Reader' = NewReader(KindFor(Opts.Alignment), b)
        /\ DidHeader' = TRUE /\ SetReader' = TRUE
        /\ result' = "OK" /\ call' = "setReader"
        /\ UNCHANGED << Opts, CurrentSchema, Preserve, DidInit, given >>
    BY <1>2 DEF setReader
  <2>2. Opts \in ExiOptions
    BY <1>2 DEF DIInv, DecoderTypeOK
  <2>3. /\ Reader' \in [kind : {"bit", "byte"}, buffer : Buffers]
        /\ Reader'.kind = KindFor(Opts.Alignment)
    BY <2>1, <2>2, KindsAndSchemas DEF NewReader
  <2>4. Reader' # NoReader
    BY <2>3, DecoderAssumption
  <2>5. DecoderTypeOK'
    BY <2>1, <2>3 DEF DIInv, DecoderTypeOK
  <2>6. FlagsAreTrue'
    BY <1>2, <2>1, <2>4 DEF DIInv, FlagsAreTrue
  <2>7. ReaderFitsOptions'
    BY <2>1, <2>3 DEF ReaderFitsOptions
  <2>8. SchemaFollows'
    BY <2>1 DEF DIInv, SchemaFollows, NewSchema, KindFor
  <2>9. HeaderValidates'
    BY <2>1 DEF HeaderValidates
  <2>10. QED
    BY <2>5, <2>6, <2>7, <2>8, <2>9 DEF DIInv
<1>3. QED
  BY <1>1, <1>2

(* init, from a state in which the options and the reader are those the    *)
(* body will use.                                                          *)
LEMMA initSets ==
  ASSUME NEW o \in ExiOptions, init(o)
  PROVE  /\ result' \in {"OK"} \union Traps
         /\ \/ /\ CurrentSchema' = NewSchema(o) /\ Preserve' = o.Preserve
               /\ DidHeader' = TRUE /\ DidInit' = TRUE
            \/ UNCHANGED << CurrentSchema, Preserve, DidHeader, DidInit >>
  BY KindsAndSchemas DEF init

(* The options a header leaves are options; those of an accepted one are   *)
(* valid.                                                                  *)
LEMMA OptionsAfterHeader ==
  ASSUME Opts \in ExiOptions \union {NoOptions}, NEW h \in Header
  PROVE  /\ OptionsAfter(h) \in ExiOptions \union {NoOptions}
         /\ HeaderOK(h) => OptionsAfter(h) \in ExiOptions /\ ValidateOptions(OptionsAfter(h))
<1>1. DefaultOptions \in ExiOptions
  BY DEF DefaultOptions, ExiOptions, AlignKind
<1>2. ImpliedOptions(h) \in ExiOptions \union {NoOptions}
  BY <1>1 DEF ImpliedOptions
<1>3. ASSUME headerResult(h) \in {"OK", "Mismatch"}
      PROVE  Opts \in ExiOptions
  BY <1>3 DEF headerResult, Header
<1>4. ASSUME Opts \in ExiOptions
      PROVE  /\ WithCompression(Opts) \in ExiOptions
             /\ Fixup(WithCompression(Opts)) \in ExiOptions
  <2>1. WithCompression(Opts) \in ExiOptions
    BY <1>4 DEF WithCompression, ExiOptions, AlignKind
  <2>2. QED
    BY <2>1, FixupType
<1>5. headerResult(h) \in {"HeaderSig", "OutOfBand", "HeaderVer", "unsupported",
                           "Mismatch", "OK"}
  BY DEF headerResult
<1>6. OptionsAfter(h) \in ExiOptions \union {NoOptions}
  <2>1. CASE headerResult(h) \in {"HeaderSig", "OutOfBand"}
    BY <2>1 DEF OptionsAfter
  <2>2. CASE headerResult(h) \in {"HeaderVer", "unsupported"}
    BY <2>2, <1>2 DEF OptionsAfter
  <2>3. CASE headerResult(h) \in {"OK", "Mismatch"}
    BY <2>3, <1>3, <1>4 DEF OptionsAfter
  <2>4. QED
    BY <1>5, <2>1, <2>2, <2>3
<1>7. ASSUME HeaderOK(h)
      PROVE  OptionsAfter(h) \in ExiOptions /\ ValidateOptions(OptionsAfter(h))
  <2>1. headerResult(h) = "OK"
    BY <1>7 DEF HeaderOK
  <2>2. OptionsAfter(h) = Fixup(WithCompression(Opts))
    BY <2>1 DEF OptionsAfter
  <2>3. FixupAccepts(WithCompression(Opts))
    BY <2>1 DEF headerResult
  <2>4. QED
    BY <2>1, <2>2, <2>3, <1>3, <1>4, FixupValidates
<1>8. QED
  BY <1>6, <1>7

(* decodeHeader: refused, or the body gets the reader and the schema of    *)
(* the options as repaired.                                                *)
LEMMA decodeHeaderPreserves ==
  ASSUME DIInv, NEW h \in Buffers, decodeHeader(h)
  PROVE  DIInv'
<1>1. CASE TooLate
  <2>1. Keep /\ given' = given /\ call' = "decodeHeader"
    BY <1>1 DEF decodeHeader
  <2>2. result' \in {"OK"} \union Errors \union Traps
    BY <1>1 DEF decodeHeader, readerExists, Errors, Traps
  <2>3. QED
    BY <2>1, <2>2, KeepPreserves
<1>2. CASE ~TooLate
  <2>1. ~DidHeader /\ ~SetReader /\ ~DidInit /\ CurrentSchema = NoSchema
    BY <1>2 DEF TooLate, DIInv, FlagsAreTrue
  <2>2. /\ Opts' = OptionsAfter(h) /\ SetReader' = FALSE /\ Reader' = ReaderAfter(h)
        /\ call' = "decodeHeader" /\ given' = given
    BY <1>2 DEF decodeHeader
  <2>3. /\ Opts' \in ExiOptions \union {NoOptions}
        /\ HeaderOK(h) => Opts' \in ExiOptions /\ ValidateOptions(Opts')
    BY <2>2, OptionsAfterHeader, DecoderAssumption DEF DIInv, DecoderTypeOK
  <2>4. /\ Reader' \in [kind : {"bit", "byte"}, buffer : Buffers]
        /\ HeaderOK(h) => Reader'.kind = KindFor(Opts'.Alignment)
    BY <2>2, <2>3 DEF ReaderAfter, NewReader, KindFor
  <2>5. Reader' # NoReader
    BY <2>4, DecoderAssumption
  <2>6. CASE ~HeaderOK(h)
    <3>1. /\ result' = headerResult(h)
          /\ UNCHANGED << CurrentSchema, Preserve, DidHeader, DidInit >>
      BY <1>2, <2>6 DEF decodeHeader
    <3>2. result' \in {"OK"} \union Errors \union Traps
      BY <3>1 DEF headerResult, Errors, Traps
    <3>3. DecoderTypeOK'
      BY <2>2, <2>3, <2>4, <3>1, <3>2 DEF DIInv, DecoderTypeOK
    <3>4. FlagsAreTrue' /\ ReaderFitsOptions' /\ SchemaFollows' /\ HeaderValidates'
      BY <2>1, <2>2, <3>1
      DEF FlagsAreTrue, ReaderFitsOptions, SchemaFollows, HeaderValidates
    <3>5. QED
      BY <3>3, <3>4 DEF DIInv
  <2>7. CASE HeaderOK(h)
    <3>1. init(Opts')
      BY <1>2, <2>7 DEF decodeHeader
    <3>2. Opts' \in ExiOptions /\ ValidateOptions(Opts') /\ Opts' # NoOptions
      BY <2>3, <2>7, DecoderAssumption
    <3>3. /\ result' \in {"OK"} \union Traps
          /\ \/ /\ CurrentSchema' = NewSchema(Opts') /\ Preserve' = Opts'.Preserve
                /\ DidHeader' = TRUE /\ DidInit' = TRUE
             \/ UNCHANGED << CurrentSchema, Preserve, DidHeader, DidInit >>
      BY <3>1, <3>2, initSets
    <3>4. /\ NewSchema(Opts') \in [kind : {"bit", "byte"}, Preserve : SUBSET PreserveKind]
          /\ NewSchema(Opts') # NoSchema /\ Opts'.Preserve \subseteq PreserveKind
      BY <3>2, KindsAndSchemas
    <3>5. DecoderTypeOK'
      BY <2>2, <2>3, <2>4, <3>3, <3>4 DEF DIInv, DecoderTypeOK
    <3>6. FlagsAreTrue'
      BY <2>1, <2>2, <2>5, <3>2, <3>3, <3>4 DEF FlagsAreTrue
    <3>7. ReaderFitsOptions' /\ SchemaFollows' /\ HeaderValidates'
      BY <2>1, <2>2, <2>4, <2>7, <3>2, <3>3
      DEF ReaderFitsOptions, SchemaFollows, HeaderValidates
    <3>8. QED
      BY <3>5, <3>6, <3>7 DEF DIInv
  <2>8. QED
    BY <2>6, <2>7
<1>3. QED
  BY <1>1, <1>2

(* decodeBody: init, when it runs, finds the reader set for its options.   *)
LEMMA decodeBodyPreserves ==
  ASSUME DIInv, decodeBody
  PROVE  DIInv'
<1>1. CASE decodeNothing
  BY <1>1, KeepPreserves DEF decodeNothing, Errors
<1>2. CASE refuseBody
  BY <1>2, KeepPreserves DEF refuseBody, Errors
<1>3. CASE decodeEvents
  <2>1. result' \in {"OK"} \union Errors \union Traps
    BY <1>3 DEF decodeEvents, Errors, Traps
  <2>2. QED
    BY <1>3, <2>1, KeepPreserves DEF decodeEvents
<1>4. CASE initForBody
  <2>1. /\ ~DidInit /\ SetReader /\ DidHeader
        /\ Reader # NoReader /\ Opts # NoOptions /\ Opts \in ExiOptions
    BY <1>4 DEF initForBody, DIInv, FlagsAreTrue, DecoderTypeOK
  <2>2. /\ init(Opts) /\ UNCHANGED << Opts, Reader, SetReader >>
        /\ call' = "decodeBody" /\ given' = given
    BY <1>4, <2>1 DEF initForBody
  <2>3. /\ result' \in {"OK"} \union Traps
        /\ \/ /\ CurrentSchema' = NewSchema(Opts) /\ Preserve' = Opts.Preserve
              /\ DidHeader' = TRUE /\ DidInit' = TRUE
           \/ UNCHANGED << CurrentSchema, Preserve, DidHeader, DidInit >>
    BY <2>1, <2>2, initSets
  <2>4. /\ NewSchema(Opts) \in [kind : {"bit", "byte"}, Preserve : SUBSET PreserveKind]
        /\ NewSchema(Opts) # NoSchema /\ Opts.Preserve \subseteq PreserveKind
        /\ NewSchema(Opts') = NewSchema(Opts)
    BY <2>1, <2>2, KindsAndSchemas
  <2>5. DecoderTypeOK'
    BY <2>2, <2>3, <2>4 DEF DIInv, DecoderTypeOK
  <2>6. FlagsAreTrue'
    <3>1. CurrentSchema = NoSchema
      BY <2>1 DEF DIInv, FlagsAreTrue
    <3>2. Opts' # NoOptions /\ Reader' # NoReader
      BY <2>1, <2>2
    <3>3. CASE CurrentSchema' = NewSchema(Opts) /\ DidHeader' = TRUE /\ DidInit' = TRUE
      BY <2>4, <3>2, <3>3 DEF FlagsAreTrue
    <3>4. CASE UNCHANGED << CurrentSchema, DidHeader, DidInit >>
      BY <2>1, <2>2, <3>1, <3>2, <3>4 DEF FlagsAreTrue
    <3>5. QED
      BY <2>3, <3>3, <3>4
  <2>7. ReaderFitsOptions'
    BY <2>1, <2>2 DEF DIInv, ReaderFitsOptions, KindFor
  <2>8. SchemaFollows'
    BY <2>1, <2>2, <2>3, <2>4 DEF SchemaFollows
  <2>9. HeaderValidates'
    BY <2>1, <2>2 DEF HeaderValidates
  <2>10. QED
    BY <2>5, <2>6, <2>7, <2>8, <2>9 DEF DIInv
<1>5. QED
  BY <1>1, <1>2, <1>3, <1>4 DEF decodeBody

(* Every call preserves the invariant. *)
LEMMA StepPreserves == DIInv /\ [Next]_decoderVars => DIInv'
<1> SUFFICES ASSUME DIInv, [Next]_decoderVars PROVE DIInv'
  OBVIOUS
<1>1. CASE \E o \in OptionSets : setOptions(o)
  BY <1>1, setOptionsPreserves
<1>2. CASE \E b \in Buffers : setReader(b)
  BY <1>2, setReaderPreserves
<1>3. CASE \E b \in Buffers : decodeHeader(b)
  BY <1>3, decodeHeaderPreserves
<1>4. CASE decodeBody
  BY <1>4, decodeBodyPreserves
<1>5. CASE UNCHANGED decoderVars
  BY <1>5
  DEF decoderVars, DIInv, DecoderTypeOK, FlagsAreTrue, ReaderFitsOptions, SchemaFollows,
      HeaderValidates, NewSchema, KindFor, ValidateOptions, ValidateCommon
<1>6. QED
  BY <1>1, <1>2, <1>3, <1>4, <1>5 DEF Next

(* The invariant holds after any calls of the decoder's public functions.  *)
THEOREM InvariantHolds == Spec => []DIInv
  BY InitEstablishes, StepPreserves, PTL DEF Spec

-----------------------------------------------------------------------------
(* What callers rely on                                                    *)

(* The decoder's members are well formed after any calls.                  *)
THEOREM LifecycleTypeCorrect == Spec => []DecoderTypeOK
<1>1. DIInv => DecoderTypeOK
  BY DEF DIInv
<1>2. QED
  BY <1>1, InvariantHolds, PTL

(* No assertion of setOptions, decodeHeader, init or prepareForDecoding    *)
(* fails.                                                                  *)
THEOREM FlagsCorrect == Spec => []FlagsAreTrue
<1>1. DIInv => FlagsAreTrue
  BY DEF DIInv
<1>2. QED
  BY <1>1, InvariantHolds, PTL

(* The schema is decoded from a reader of the type it casts to, under the  *)
(* options in force (BuiltinSchema::New).                                  *)
THEOREM SchemaFits == Spec => []SchemaFitsReader
<1>1. DIInv => SchemaFitsReader
  <2> SUFFICES ASSUME DIInv, DidInit PROVE /\ CurrentSchema.kind = Reader.kind
                                          /\ CurrentSchema.Preserve = Preserve
                                          /\ CurrentSchema = NewSchema(Opts)
    BY DEF SchemaFitsReader
  <2>1. Opts \in ExiOptions
    BY DEF DIInv, FlagsAreTrue, DecoderTypeOK
  <2>2. /\ CurrentSchema = NewSchema(Opts) /\ Preserve = Opts.Preserve
        /\ Reader.kind = KindFor(Opts.Alignment)
    BY DEF DIInv, SchemaFollows, ReaderFitsOptions
  <2>3. QED
    BY <2>1, <2>2, KindsAndSchemas
<1>2. QED
  BY <1>1, InvariantHolds, PTL

(* A body that follows a header is decoded with validated options          *)
(* (decodeHeaderImpl).                                                     *)
THEOREM HeaderOptionsValid == Spec => []HeaderValidates
<1>1. DIInv => HeaderValidates
  BY DEF DIInv
<1>2. QED
  BY <1>1, InvariantHolds, PTL

(* An initialised decoder changes only under setReader: setOptions and     *)
(* decodeHeader come too late, and init is not run again (readerExists).   *)
THEOREM Frozen == Spec => InitialisedIsFrozen
<1>1. DIInv /\ [Next]_decoderVars => [DidInit /\ call' # "setReader" => Keep]_decoderVars
  <2> SUFFICES ASSUME DIInv, Next, DidInit, call' # "setReader" PROVE Keep
    OBVIOUS
  <2>1. DidHeader /\ TooLate
    BY DEF DIInv, FlagsAreTrue, TooLate
  <2>2. CASE \E o \in OptionSets : setOptions(o)
    BY <2>1, <2>2 DEF setOptions
  <2>3. CASE \E b \in Buffers : setReader(b)
    BY <2>3 DEF setReader
  <2>4. CASE \E b \in Buffers : decodeHeader(b)
    BY <2>1, <2>4 DEF decodeHeader
  <2>5. CASE decodeBody
    BY <2>5 DEF decodeBody, decodeNothing, refuseBody, initForBody, decodeEvents
  <2>6. QED
    BY <2>2, <2>3, <2>4, <2>5 DEF Next
<1>2. QED
  BY <1>1, InvariantHolds, PTL DEF Spec, InitialisedIsFrozen
=============================================================================
