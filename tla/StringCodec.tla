---------------------------- MODULE StringCodec -----------------------------
(***************************************************************************)
(* The strings of a stream: how BodyDecoder (lib/exi/Decode/               *)
(* BodyDecoder.cpp, decodeURI to decodeValue) turns compact identifiers    *)
(* and literal strings back into names, prefixes and values, with the bit  *)
(* widths StringTable computes.                                            *)
(*                                                                         *)
(* The other end is an encoder that keeps partitions of its own (peer): a  *)
(* string already in its partition is written as its position, in just     *)
(* enough bits for the partition, any other string is written out and      *)
(* appended.  Values may be written out again even if known.  A step       *)
(* writes one item and decodes it.                                         *)
(*                                                                         *)
(* Reading a field with another width than it was written with moves       *)
(* everything after it; the model follows the call that does so to its     *)
(* end, and stops (status "lost").                                         *)
(***************************************************************************)
EXTENDS StringTable, Log2

CONSTANTS
  Prefixes,      \* Preserve.Prefixes
  Names,         \* the names documents use: pairs of URI and local name
  Values,        \* the values they use
  Declarations,  \* their namespace declarations: pairs of URI and prefix
  Redeclares     \* whether a declaration may come again

ASSUME StringCodecAssumption ==
  /\ Prefixes \in BOOLEAN /\ Redeclares \in BOOLEAN
  /\ Names \subseteq Str \X Str /\ Declarations \subseteq Str \X Str
  /\ Values \subseteq Str

VARIABLES
  peer,       \* the encoder's partitions
  item,       \* the item being read: what is next of it, and what was read
  status,     \* running, lost, trap (an assertion failed) or failed
  text        \* history: the string last written and the string read for it

codecVars == << peer, item, status, text >>

(***************************************************************************)
(* The encoder                                                             *)
(***************************************************************************)

Found(part, s) == \E i \in DOMAIN part : part[i] = s
(* The encoder enters nothing twice but values. *)
PositionsOf(part, s) == {i \in DOMAIN part : part[i] = s}
Position(part, s) == CHOOSE i \in PositionsOf(part, s) : TRUE

Field(width, val) == [width |-> width, val |-> val]

PeerInit ==
  [uris |-> WithXSD(<< EmptyStr, XML, XSI >>, XSD),
   prefixes |-> WithXSD(<< << EmptyStr >>, << XMLPrefix >>, << XSIPrefix >> >>, << >>),
   names |-> WithXSD(<< << >>, XMLNames, XSINames >>, XSDNames),
   values |-> [q \in {} |-> << >>],
   globals |-> << >>]

ValuesOf(q) == IF q \in DOMAIN peer.values THEN peer.values[q] ELSE << >>
WithValue(q, s) ==
  [r \in DOMAIN peer.values \union {q} |->
     IF r = q THEN Append(ValuesOf(q), s) ELSE peer.values[r]]

(***************************************************************************)
(* Reading a field: the first n bits of it.                                *)
(***************************************************************************)

readBits64(f, n) ==
  IF n <= f.width THEN {f.val \div Pow2[f.width - n]} ELSE 0 .. Pow2[n] - 1
InStep(f, n) == IF f.width = n THEN "running" ELSE "lost"

getURILog == CeilLog2(URICount + 1)
(* A variant that makes room for a miss. *)
getLocalNameLogPlus(u) == CeilLog2(At(URIMap, u).lnElts + 1)
getLocalNameLog(u) == CeilLog2(At(URIMap, u).lnElts)
getPrefixLogQ(u) ==
  IF At(URIMap, u).prefixElts = 0 THEN 0 ELSE CeilLog2(At(URIMap, u).prefixElts - 1)
getPrefixLog(u) == CeilLog2(At(URIMap, u).prefixElts)
getGlobalValueLog == CeilLog2(GValueCount)
getLocalValueLog(q) == CeilLog2(Len(LNHeap[LVPartition(q)].values))

(***************************************************************************)
(* Between events item.next is "event".  uri is what decodeURI returned    *)
(* and pos where the encoder has that URI; pfx and str are the prefix of a *)
(* namespace declaration, as read and as written.                          *)
(***************************************************************************)

Between == [next |-> "event", uri |-> 0, pos |-> 0, pfx |-> 0, str |-> None]
Read(sent, got) == text' = [sent |-> sent, got |-> got]
Keep == UNCHANGED tableVars

Trap == status' = "trap" /\ Keep /\ UNCHANGED << item, text >>

(* decodeURI: 0 for a miss, otherwise one more than the identifier.        *)
URIField(s) ==
  Field(CeilLog2(Len(peer.uris) + 1),
        IF Found(peer.uris, s) THEN Position(peer.uris, s) ELSE 0)

decodeURI(s, next) ==
  LET f == URIField(s)
      Continue(id) ==
        item' = [Between EXCEPT !.next = next, !.uri = id,
                                !.pos = IF f.val = 0 THEN Len(peer.uris) + 1 ELSE f.val]
  IN /\ item.next = "event"
     /\ peer' = IF f.val # 0 THEN peer
                ELSE [peer EXCEPT !.uris = Append(@, s), !.prefixes = Append(@, << >>),
                                  !.names = Append(@, << >>)]
     /\ \E v \in readBits64(f, getURILog) :
          \/ v = 0 /\ addURI(s, None) /\ Continue(returned'.id)
               /\ Read(s, s) /\ status' = InStep(f, getURILog)
          \/ v # 0 /\ hasURI(v - 1) /\ Keep /\ Continue(v - 1)
               /\ Read(s, getURI(v - 1)) /\ status' = InStep(f, getURILog)
          \/ v # 0 /\ ~hasURI(v - 1) /\ Trap

(* decodeName: an unsigned 0 announces a hit.  Every use of the name goes  *)
(* through getQName, whose assertions ValidQName states.                   *)
decodeNameHit(s) ==
  LET part == peer.names[item.pos]
      f == Field(CeilLog2(Len(part)), Position(part, s) - 1)
  IN /\ item.next = "name" /\ Found(part, s)
     /\ UNCHANGED peer
     /\ \E v \in readBits64(f, getLocalNameLog(item.uri)) :
          LET q == MkQName(item.uri, v) IN
          \/ ValidQName(q) /\ Keep /\ item' = [item EXCEPT !.next = "pfxq"]
               /\ Read(s, getLocalName(q)) /\ status' = InStep(f, getLocalNameLog(item.uri))
          \/ ~ValidQName(q) /\ Trap

decodeNameMiss(s) ==
  /\ item.next = "name" /\ ~Found(peer.names[item.pos], s)
  /\ peer' = [peer EXCEPT !.names[item.pos] = Append(@, s)]
  /\ addLocalName(item.uri, s)
  /\ item' = [item EXCEPT !.next = "pfxq"]
  /\ Read(s, LNHeap'[At(At(LNMap', item.uri), returned'.id)].name)
  /\ UNCHANGED status

(* decodePfxQ: the prefix of a name, the i-th of its URI, as a position.   *)
(* Neither side spends bits on it when the URI has no prefix.              *)
NoPfxQ ==
  /\ item.next = "pfxq"
  /\ ~Prefixes \/ ~hasPrefix(item.uri)
  /\ item' = Between
  /\ Keep /\ UNCHANGED << peer, status, text >>

decodePfxQ(i) ==
  LET part == peer.prefixes[item.pos]
      f == Field(CeilLog2(Len(part)), i - 1)
      width == getPrefixLogQ(item.uri)
  IN /\ item.next = "pfxq" /\ Prefixes /\ hasPrefix(item.uri)
     /\ UNCHANGED peer
     /\ \E v \in readBits64(f, width) :
          \/ v < Len(At(PrefixMap, item.uri)) /\ Keep /\ item' = Between
               /\ Read(part[i], getPrefix(item.uri, v)) /\ status' = InStep(f, width)
          \/ v >= Len(At(PrefixMap, item.uri)) /\ Trap

(* decodePfx: the prefix of a namespace declaration. *)
decodePfx(s) ==
  LET part == peer.prefixes[item.pos]
      hit == Found(part, s)
      width == getPrefixLog(item.uri)
      f == Field(CeilLog2(Len(part) + 1), IF hit THEN Position(part, s) ELSE 0)
      Continue(id) == item' = [item EXCEPT !.next = "ns", !.pfx = id, !.str = s]
  IN /\ item.next = "pfx"
     /\ peer' = IF hit THEN peer ELSE [peer EXCEPT !.prefixes[item.pos] = Append(@, s)]
     /\ UNCHANGED text
     /\ \E v \in readBits64(f, width) :
          \/ v = 0 /\ addPrefix(item.uri, s) /\ Continue(returned'.id)
               /\ status' = InStep(f, width)
          \/ v # 0 /\ hasPrefixID(item.uri, v - 1) /\ Keep /\ Continue(v - 1)
               /\ status' = InStep(f, width)
          \/ v # 0 /\ ~hasPrefixID(item.uri, v - 1) /\ Keep
               /\ status' = "failed" /\ UNCHANGED item         \* kInvalidEXIInput

(* The local-element-ns bit; then handleNS resolves the prefix, which      *)
(* getPrefix asserts to be in its partition.                               *)
decodeNS(isLocal) ==
  LET part == At(PrefixMap, item.uri) IN
  /\ item.next = "ns"
  /\ UNCHANGED peer
  /\ \/ ~isLocal /\ Keep /\ status' = "failed" /\ UNCHANGED << item, text >>  \* kUnimplemented
     \/ isLocal /\ item.pfx < Len(part) /\ Keep /\ item' = Between
          /\ Read(item.str, getPrefix(item.uri, item.pfx)) /\ UNCHANGED status
     \/ isLocal /\ item.pfx >= Len(part) /\ Trap

(***************************************************************************)
(* decodeValue: 0 announces a position in the partition of the name, 1 one *)
(* in the global partition, anything else is a length.                     *)
(***************************************************************************)

decodeLocalValue(q, s) ==
  LET part == ValuesOf(q)
      width == getLocalValueLog(q)
  IN /\ item.next = "event"
     /\ \E i \in PositionsOf(part, s) :
          LET f == Field(CeilLog2(Len(part)), i - 1) IN
          \E v \in readBits64(f, width) :
            \/ /\ v < Len(LNHeap[LVPartition(q)].values)
               /\ readPartition(q)
               /\ Read(s, getLocalValue(q, v)) /\ status' = InStep(f, width)
               /\ UNCHANGED item
            \/ v >= Len(LNHeap[LVPartition(q)].values) /\ Trap
     /\ UNCHANGED peer

decodeGlobalValue(s) ==
  /\ item.next = "event"
  /\ \E i \in PositionsOf(peer.globals, s) :
       LET f == Field(CeilLog2(Len(peer.globals)), i - 1) IN
       \E v \in readBits64(f, getGlobalValueLog) :
         \/ v < GValueCount /\ Keep /\ UNCHANGED item
              /\ Read(s, getGlobalValue(v)) /\ status' = InStep(f, getGlobalValueLog)
         \/ v >= GValueCount /\ Trap
  /\ UNCHANGED peer

(* A variant that enters a known value into the global partition only.     *)
decodeNewValueOnce(q, s) ==
  /\ item.next = "event"
  /\ peer' = [peer EXCEPT !.globals = Append(@, s),
                          !.values = WithValue(q, s)]
  /\ IF Found(GValueMap, s) THEN addGlobalValue(s) ELSE addValue(q, s)
  /\ Read(s, s)
  /\ UNCHANGED << item, status >>

decodeNewValue(q, s) ==
  /\ item.next = "event"
  /\ peer' = [peer EXCEPT !.globals = Append(@, s),
                          !.values = WithValue(q, s)]
  /\ addValue(q, s)
  /\ Read(s, LNHeap'[LVPartition(q)].values[returned'.id + 1])
  /\ UNCHANGED << item, status >>

(* The name of an attribute or of the open element: any name the encoder   *)
(* has, by its position; the decoder has the same one.                     *)
KnownNames ==
  {q \in ValidQNames : /\ q.uri < Len(peer.names)
                       /\ q.local < Len(At(peer.names, q.uri))
                       /\ << At(peer.uris, q.uri), At(At(peer.names, q.uri), q.local) >> \in Names}

MayDeclare(u, s) ==
  /\ << u, s >> \in Declarations
  /\ ~Redeclares /\ u \notin {XML, XSI} =>
       \A i \in DOMAIN peer.uris : peer.uris[i] = u => ~Found(peer.prefixes[i], s)

CodecInit ==
  /\ Init
  /\ peer = PeerInit
  /\ item = Between
  /\ status = "running"
  /\ text = [sent |-> EmptyStr, got |-> EmptyStr]

CodecNext ==
  /\ status = "running"
  /\ \/ \E n \in Names : decodeURI(n[1], "name")
     \/ \E d \in Declarations : MayDeclare(d[1], d[2]) /\ decodeURI(d[1], "pfx")
     \/ \E n \in Names : /\ item.next = "name" /\ n[1] = peer.uris[item.pos]
                         /\ decodeNameHit(n[2]) \/ decodeNameMiss(n[2])
     \/ NoPfxQ
     \/ item.next = "pfxq" /\ \E i \in DOMAIN peer.prefixes[item.pos] : decodePfxQ(i)
     \/ \E d \in Declarations : /\ item.next = "pfx" /\ d[1] = peer.uris[item.pos]
                                /\ MayDeclare(d[1], d[2]) /\ decodePfx(d[2])
     \/ \E isLocal \in BOOLEAN : decodeNS(isLocal)
     \/ \E s \in Values :
          \/ \E q \in KnownNames : decodeLocalValue(q, s) \/ decodeNewValue(q, s)
          \/ decodeGlobalValue(s)

CodecSpec == CodecInit /\ [][CodecNext]_<< tableVars, codecVars >>

(***************************************************************************)
(* Properties                                                              *)
(***************************************************************************)

(* The assertions of getURI, getPrefix, getQName, getLocalValue and        *)
(* getGlobalValue: an identifier is in its partition.                      *)
AssertionsHold == status # "trap"

(* A field is read with the width it was written with, so the stream never *)
(* shifts (the Log getters of StringTable).                                *)
FieldsInStep == status # "lost"

(* Every string comes out as it went in, whichever of the partitions, the  *)
(* cache and the literals it travelled through (decodeURI ... decodeValue).*)
ReadsWhatWasWritten == AssertionsHold /\ FieldsInStep /\ text.sent = text.got

(* Encoder and decoder agree on every partition after every item: the      *)
(* decoder enters a string exactly when the encoder did.                   *)
SamePartitions ==
  /\ [u \in DOMAIN URIMap |-> URIMap[u].name] = peer.uris
  /\ PrefixMap = peer.prefixes
  /\ [u \in DOMAIN LNMap |-> [l \in DOMAIN LNMap[u] |-> LNHeap[LNMap[u][l]].name]] = peer.names
  /\ GValueMap = peer.globals
  /\ \A q \in KnownNames :
       LNHeap[At(At(LNMap, q.uri), q.local)].values = ValuesOf(q)
=============================================================================
