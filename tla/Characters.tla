----------------------------- MODULE Characters -----------------------------
(***************************************************************************)
(* The characters of a string: readString of OrderedReader.hpp reads each  *)
(* as an unsigned integer in octets of seven bits and appends its UTF-8    *)
(* (RuneEncoder); decodeRunes (RuneDecoder) takes the bytes apart again.   *)
(* The integers are those of the code; its shifts and masks are BitsOf.    *)
(***************************************************************************)
EXTENDS Naturals, Sequences, SequencesExt

CONSTANTS
  Character,     \* what a stream may carry as a character
  MaxLength      \* bounds the length of a string

(* An octet holds seven bits, and five are enough for any character here.  *)
ASSUME CharactersAssumption ==
  /\ Character \subseteq Nat /\ \A c \in Character : c \div 128 ^ 4 < 128
  /\ MaxLength \in Nat

VARIABLES
  text,     \* history: the characters that were written
  octets,   \* the stream: what has not been read of it
  left,     \* readString's characters still to come
  uint,     \* the integer under way: its Value, Multiplier and octets so far
  Data,     \* the bytes
  runes,    \* what was decoded of them, and whether all of it was valid
  phase     \* read, decode or done; failed: an integer is too long

charVars == << text, octets, left, uint, Data, runes, phase >>

kInvalidRune == 65533
kMaxVal == 1114111
UnicodeReads == 3

(* The n bits of a number from one on.                                     *)
BitsOf(number, from, n) == (number \div 2 ^ from) % 2 ^ n

(***************************************************************************)
(* The stream, as an encoder writes it: integers in as few octets as they  *)
(* need, the lowest first, and something behind the string.                *)
(***************************************************************************)
OctetsOf(c) ==
  LET n == CHOOSE k \in 1 .. 5 : c < 128 ^ k /\ \A j \in 1 .. k - 1 : c >= 128 ^ j
  IN [i \in 1 .. n |-> BitsOf(c, 7 * (i - 1), 7) + (IF i < n THEN 128 ELSE 0)]

Behind == << 129, 1 >>

(***************************************************************************)
(* readString                                                              *)
(***************************************************************************)
NoUInt == [Value |-> 0, Multiplier |-> 0, N |-> 0]

(* A variant that takes three bytes for all there is behind two.           *)
Encode_Short(c) ==
  LET trail(from) == 128 + BitsOf(c, from, 6)
  IN CASE c <= 127 -> << c >>
       [] 127 < c /\ c <= 4095 -> << 192 + BitsOf(c, 6, 5), trail(0) >>
       [] 4095 < c -> << 224 + BitsOf(c, 12, 4), trail(6), trail(0) >>

(* RuneEncoder::Encode                                                     *)
Encode(c) ==
  LET trail(from) == 128 + BitsOf(c, from, 6)
  IN CASE c <= 127 -> << c >>
       [] 127 < c /\ c <= 2047 -> << 192 + BitsOf(c, 6, 5), trail(0) >>
       [] 2047 < c /\ c <= 65535 -> << 224 + BitsOf(c, 12, 4), trail(6), trail(0) >>
       [] 65535 < c /\ c <= kMaxVal ->
            << 240 + BitsOf(c, 18, 3), trail(12), trail(6), trail(0) >>
       [] c > kMaxVal -> << 239, 191, 189 >>

(* One octet: the integer goes on, is complete, or is too long.            *)
readOctet ==
  /\ phase = "read" /\ left > 0
  /\ LET octet == Head(octets)
         value == uint.Value + BitsOf(octet, 0, 7) * 2 ^ uint.Multiplier
     IN IF octet < 128
        THEN /\ Data' = Data \o Encode(value)
             /\ left' = left - 1 /\ uint' = NoUInt /\ UNCHANGED phase
        ELSE /\ uint' = [Value |-> value, Multiplier |-> uint.Multiplier + 7, N |-> uint.N + 1]
             /\ phase' = IF uint.N + 1 = UnicodeReads THEN "failed" ELSE phase
             /\ UNCHANGED << Data, left >>
  /\ octets' = Tail(octets)
  /\ UNCHANGED << text, runes >>

stringRead ==
  /\ phase = "read" /\ left = 0
  /\ phase' = "decode"
  /\ UNCHANGED << text, octets, left, uint, Data, runes >>

(***************************************************************************)
(* decodeRunes                                                             *)
(***************************************************************************)
UnitLen(head) ==
  CASE BitsOf(head, 3, 5) = 30 -> 4
    [] BitsOf(head, 4, 4) = 14 -> 3
    [] BitsOf(head, 5, 3) = 6 -> 2
    [] OTHER -> 1

checkTrailSeq(n) == \A i \in 2 .. n : BitsOf(Data[i], 6, 2) = 2

decodeImpl(n) ==
  LET trail(i, to) == BitsOf(Data[i], 0, 6) * 2 ^ to
  IN CASE n = 1 -> Data[1]
       [] n = 2 -> BitsOf(Data[1], 0, 5) * 2 ^ 6 + trail(2, 0)
       [] n = 3 -> BitsOf(Data[1], 0, 4) * 2 ^ 12 + trail(2, 6) + trail(3, 0)
       [] n = 4 -> BitsOf(Data[1], 0, 3) * 2 ^ 18 + trail(2, 12) + trail(3, 6) + trail(4, 0)

(* RuneDecoder::decode: a sequence that the end cuts off is one rune.      *)
decode ==
  /\ phase = "decode" /\ Data # << >>
  /\ LET n == UnitLen(Data[1])
         cut == n > Len(Data)
         rune == IF cut \/ ~checkTrailSeq(n) THEN kInvalidRune ELSE decodeImpl(n)
         out == IF rune <= kMaxVal THEN rune ELSE kInvalidRune
     IN /\ Data' = IF cut THEN << >> ELSE SubSeq(Data, n + 1, Len(Data))
        /\ runes' = [found |-> Append(runes.found, out),
                     valid |-> runes.valid /\ out # kInvalidRune]
  /\ UNCHANGED << text, octets, left, uint, phase >>

decoded ==
  /\ phase = "decode" /\ Data = << >>
  /\ phase' = "done"
  /\ UNCHANGED << text, octets, left, uint, Data, runes >>

CharactersInit ==
  /\ text \in BoundedSeq(Character, MaxLength)
  /\ octets = FlattenSeq([i \in 1 .. Len(text) |-> OctetsOf(text[i])]) \o Behind
  /\ left = Len(text) /\ uint = NoUInt
  /\ Data = << >> /\ runes = [found |-> << >>, valid |-> TRUE]
  /\ phase = "read"

CharactersNext == readOctet \/ stringRead \/ decode \/ decoded

CharactersSpec == CharactersInit /\ [][CharactersNext]_charVars

(***************************************************************************)
(* Properties                                                              *)
(***************************************************************************)
TooLong(c) == c >= 128 ^ UnicodeReads
Valid(c) == IF c <= kMaxVal THEN c ELSE kInvalidRune

(* A string that is read takes its own octets from the stream and no other *)
(* and is there again when its bytes are decoded, whatever lengths of      *)
(* UTF-8 follow each other; only a character of more than three octets is  *)
(* refused, and only one beyond Unicode replaced.                          *)
CharactersSurvive ==
  /\ phase = "failed" => \E i \in DOMAIN text : TooLong(text[i])
  /\ phase \in {"decode", "done"} => octets = Behind
  /\ phase = "done" =>
       /\ runes.found = [i \in DOMAIN text |-> Valid(text[i])]
       /\ \A i \in DOMAIN text : ~TooLong(text[i])
       /\ runes.valid <=> \A i \in DOMAIN text : Valid(text[i]) # kInvalidRune
=============================================================================
