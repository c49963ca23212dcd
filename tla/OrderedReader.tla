--------------------------- MODULE OrderedReader ----------------------------
(***************************************************************************)
(* The readers (include/exi/Stream/OrderedReader.hpp): BitReader and       *)
(* ByteReader over one word of the stream, and how decodeHeader            *)
(* (lib/exi/Decode/HeaderDecoder.cpp) reads the header with a BitReader    *)
(* and hands its position to the reader of the body.                       *)
(*                                                                         *)
(* What the bits are does not matter here, only where they come from: each *)
(* bit of the word is the set of stream positions that were OR-ed into it  *)
(* (see BitCursor).                                                        *)
(*                                                                         *)
(* A header that is accepted has 8 bits, or 40 with the cookie: any        *)
(* version but the first is refused.                                       *)
(***************************************************************************)
EXTENDS Naturals, Sequences

CONSTANTS
  ByteBits, WordBytes,   \* 8 and 8
  Sizes,                 \* the lengths of the streams, in bytes
  Headers,               \* those that are read from their header on
  Truncated,             \* those whose document goes on past their end
  Widths                 \* the widths of the fields of the body

ASSUME OrderedReaderAssumption ==
  /\ ByteBits \in Nat \ {0} /\ WordBytes \in Nat \ {0}
  /\ Sizes \subseteq Nat /\ Headers \subseteq Sizes /\ Truncated \subseteq Sizes
  /\ Widths \subseteq 1 .. ByteBits * WordBytes - 1

VARIABLES
  Stream,      \* the length of the stream in bytes
  kind,        \* the reader in use: bit or byte
  reader,      \* its ByteOffset, its Store, and how many bits of that are valid
  todo,        \* the fields of the header still to be read
  status,      \* header, body, failed (a read), trap or OK (decodeBody's result)
  pos,         \* history: the number of bits read
  want,        \* history: the width of the field asked for last
  got          \* history: what came of it

readerVars == << Stream, kind, reader, todo, status, pos, want, got >>

WordBits == WordBytes * ByteBits
Zero == [i \in 0 .. WordBits - 1 |-> {}]
Fresh == [ByteOffset |-> 0, Store |-> Zero, InStore |-> 0]

(***************************************************************************)
(* Loading a word.  Bit 0 of Store is the most significant.  A whole word  *)
(* replaces Store; the last, partial one is OR-ed into what is there, with *)
(* the bytes still in little-endian order.                                 *)
(***************************************************************************)

Swapped(i) == (WordBytes - 1 - (i \div ByteBits)) * ByteBits + (i % ByteBits)

IsFull(r) == Stream >= r.ByteOffset + WordBytes
BytesRead(r) == IF IsFull(r) THEN WordBytes ELSE Stream - r.ByteOffset

fillStore(r) ==
  LET n == BytesRead(r)
      end == (IF IsFull(r) THEN r.ByteOffset ELSE 0) + n
      old(i) == IF IsFull(r) THEN {} ELSE r.Store[Swapped(i)]
  IN [ByteOffset |-> IF end = Stream THEN end + 1 ELSE end,
      Store |-> [i \in 0 .. WordBits - 1 |->
                   old(i) \union IF i < n * ByteBits
                                 THEN {r.ByteOffset * ByteBits + i + 1} ELSE {}],
      InStore |-> n * ByteBits]

AtEnd(r) == r.ByteOffset >= Stream
hasData(r) == Stream >= r.ByteOffset

(***************************************************************************)
(* readBit, readByte and readBits64.  The ByteReader rounds up to bytes.   *)
(***************************************************************************)

MakeByteCount(n) == (n + ByteBits - 1) \div ByteBits
Rounded(n) == IF kind = "bit" THEN n ELSE MakeByteCount(n) * ByteBits

readImpl(r, n) == [i \in 1 .. n |-> r.Store[i - 1]]
Shift(r, n) ==
  [r EXCEPT !.Store = [i \in 0 .. WordBits - 1 |->
                         IF i + n < WordBits THEN r.Store[i + n] ELSE {}],
            !.InStore = @ - n]

Return(r, bits) ==
  /\ reader' = r
  /\ got' = [ok |-> TRUE, bits |-> bits]
  /\ pos' = pos + Len(bits)
  /\ UNCHANGED status
Fail(r) ==
  /\ reader' = r
  /\ got' = [ok |-> FALSE, bits |-> << >>]
  /\ status' = "failed"
  /\ UNCHANGED pos

readFullBits64(n) ==
  /\ n <= reader.InStore
  /\ Return(Shift(reader, n), readImpl(reader, n))

(* A variant that refuses a field which the next word just has room for. *)
readPartialBits64_Tight(n) ==
  LET head == n - reader.InStore
      next == fillStore(reader)
  IN /\ n > reader.InStore
     /\ IF AtEnd(reader) THEN Fail(reader)
        ELSE IF head >= next.InStore THEN Fail(next)
        ELSE Return(Shift(next, head),
                    readImpl(reader, reader.InStore) \o readImpl(next, head))

(* The bits left in the word are taken without shifting them out. *)
readPartialBits64(n) ==
  LET head == n - reader.InStore
      next == fillStore(reader)
  IN /\ n > reader.InStore
     /\ IF AtEnd(reader) THEN Fail(reader)
        ELSE IF head > next.InStore THEN Fail(next)
        ELSE Return(Shift(next, head),
                    readImpl(reader, reader.InStore) \o readImpl(next, head))

readBits64(n) ==
  /\ want' = n
  /\ readFullBits64(Rounded(n)) \/ readPartialBits64(Rounded(n))

(***************************************************************************)
(* decodeHeader, and the proxy: a position that the next reader loads.     *)
(***************************************************************************)

Cookie == << 2, 6, 8, 8, 8 >>
PlainHeader == << 2, 1, 1, 4 >>     \* distinguishing, presence, preview, version

decodeHeaderField ==
  /\ status = "header" /\ todo # << >>
  /\ readBits64(Head(todo))
  /\ todo' = Tail(todo)
  /\ UNCHANGED << Stream, kind >>

(* A variant that forgets the bits still in the word. *)
getProxyLoaded(r) == r.ByteOffset * ByteBits
getProxy(r) == r.ByteOffset * ByteBits - r.InStore
align(r) == Shift(r, r.InStore % ByteBits)

(* setProxy: load the word the position is in, and drop what is before it. *)
setProxy(NBits, newKind) ==
  LET offset == MakeByteCount(NBits)
      r == fillStore([Fresh EXCEPT !.ByteOffset = offset - (offset % WordBytes)])
      drop == IF newKind = "bit" THEN NBits % WordBits
              ELSE (offset % WordBytes) * ByteBits
  IN IF offset - (offset % WordBytes) >= Stream
     THEN status' = "trap" /\ UNCHANGED reader         \* "unable to load store"
     ELSE IF drop > r.InStore
     THEN status' = "trap" /\ UNCHANGED reader         \* the count wraps around
     ELSE reader' = Shift(r, drop) /\ status' = "body"

decodeHeader(newKind) ==
  /\ status = "header" /\ todo = << >>
  /\ setProxy(getProxy(IF newKind = "bit" THEN reader ELSE align(reader)), newKind)
  /\ kind' = newKind
  /\ UNCHANGED << Stream, todo, pos, want, got >>

(***************************************************************************)
(* setReader starts in the body with a fresh reader of either kind.        *)
(***************************************************************************)

Init ==
  /\ Stream \in Sizes
  /\ reader = Fresh
  /\ pos = 0 /\ want = 0
  /\ got = [ok |-> TRUE, bits |-> << >>]
  /\ \/ /\ Stream \in Headers /\ status = "header" /\ kind = "bit"
        /\ todo \in {PlainHeader, Cookie \o PlainHeader}
     \/ status = "body" /\ kind \in {"bit", "byte"} /\ todo = << >>

decodeBodyField(n) ==
  /\ status = "body"
  /\ Stream \notin Truncated => pos + Rounded(n) <= Stream * ByteBits
  /\ readBits64(n)
  /\ UNCHANGED << Stream, kind, todo >>

(* decodeBody asks for another event as long as there is data.  It may ask *)
(* after any field: which of them end an event is not told apart here.     *)
decodeBodyEnds ==
  /\ status = "body" /\ ~hasData(reader)
  /\ status' = "OK"
  /\ UNCHANGED << Stream, kind, reader, todo, pos, want, got >>

Next ==
  \/ decodeHeaderField
  \/ \E k \in {"bit", "byte"} : decodeHeader(k)
  \/ \E n \in Widths : decodeBodyField(n)
  \/ decodeBodyEnds

Spec == Init /\ [][Next]_readerVars

(***************************************************************************)
(* Properties                                                              *)
(***************************************************************************)

(* The comment on BitsInStore and BytesInStore: so many bits of Store are  *)
(* valid.  They are the next bits of the stream, in its order and of no    *)
(* other place, through refills, partial words and a change of reader.     *)
StoreHoldsStream ==
  \A i \in 0 .. reader.InStore - 1 : reader.Store[i] = {pos + i + 1}

(* What readBit relies on when it makes no check of its own ("it will      *)
(* error when the stream is empty"): no bit is read past the end.  A       *)
(* partial refill starts ByteOffset anew, so that it may.                  *)
EndsWithStream == pos <= Stream * ByteBits

(* decodeBody answers OK at the end of a document only: fewer bits than a  *)
(* byte are left then, which are padding.                                  *)
EndsWithDocument == status = "OK" => pos + ByteBits > Stream * ByteBits

(* The readers implement a cursor on the bits of the stream: each read     *)
(* returns exactly the next bits, of the width asked for (in whole bytes   *)
(* from the ByteReader), and fails exactly when they are not all there.    *)
Cursor == INSTANCE BitCursor WITH
            MaxWidth <- WordBits, total <- Stream * ByteBits,
            unit <- IF kind = "bit" THEN 1 ELSE ByteBits
ImplementsCursor == Cursor!Spec
=============================================================================
