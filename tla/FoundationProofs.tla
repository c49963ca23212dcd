-------------------------- MODULE FoundationProofs --------------------------
(***************************************************************************)
(* What the decoder stands on: proofs about OrderedReader, that the        *)
(* readers hand out the stream bit by bit, with the byte and the word of   *)
(* the code and for streams of any length; about DenseMap, that the hash   *)
(* map is a dictionary, for every hash function and table size; and about  *)
(* Characters, that a string of any length is read as it was written.      *)
(***************************************************************************)
EXTENDS OrderedReader, DenseMap, Characters, Log2Proofs, SequenceTheorems, FiniteSetTheorems

(***************************************************************************)
(*                             The readers                                 *)
(***************************************************************************)

(***************************************************************************)
(* What is assumed of the constants, besides the size of a byte and of a   *)
(* word: a header is followed by more than the word it is in (getProxy is  *)
(* a byte off in a reader that came to the end of the stream); a document  *)
(* that goes on past the end of a longer stream goes on past a whole word  *)
(* (fillStore forgets where it was after a partial one); and what may be   *)
(* left in the word when a partial one is OR-ed into it fits beside that.  *)
(***************************************************************************)
OrdinaryStreams ==
  /\ ByteBits = 8 /\ WordBytes = 8
  /\ \A s \in Headers : s > WordBytes
  /\ \A s \in Truncated : s < WordBytes \/ s % WordBytes = 0
  /\ \A s \in Sizes, n \in Widths :
       s > WordBytes => MakeByteCount(n - 1) + (s % WordBytes) <= WordBytes

(* The n bits of the stream behind the p-th.                               *)
BitsFrom(p, n) == [i \in 1 .. n |-> {p + i}]

(* A word, each bit of which may come from anywhere; and a reader. *)
Word == [0 .. 63 -> SUBSET Nat]
ReaderType == [ByteOffset : Nat, Store : Word, InStore : 0 .. 64]

(* The first L bits of a word are the stream from p on.                    *)
HoldsFrom(s, L, p) == \A i \in 0 .. L - 1 : s[i] = {p + i + 1}
(* From the L-th on its bits are 0.                                        *)
ClearFrom(s, L) == \A i \in L .. 63 : s[i] = {}

(* There is another word to load, and the stream goes on there.            *)
MoreToLoad(r, p) ==
  /\ r.ByteOffset < Stream
  /\ r.ByteOffset % 8 = 0
  /\ r.ByteOffset * 8 = p + r.InStore
  /\ ClearFrom(r.Store, r.InStore)

(* All of the stream is in the word or was read.                           *)
AllLoaded(r, p) ==
  /\ p + r.InStore = Stream * 8
  /\ r.ByteOffset >= Stream \/ (Stream > 8 /\ Stream % 8 # 0)

(* r is a reader that has read p bits.                                     *)
ReaderAt(r, p) ==
  /\ r \in ReaderType
  /\ p \in Nat
  /\ HoldsFrom(r.Store, r.InStore, p)
  /\ MoreToLoad(r, p) \/ AllLoaded(r, p)

(* The fields of the header that are left after so many bits.              *)
HeaderPlace(t, q) ==
  \/ t = << 2, 6, 8, 8, 8, 2, 1, 1, 4 >> /\ q = 0
  \/ t = << 6, 8, 8, 8, 2, 1, 1, 4 >> /\ q = 2
  \/ t = << 8, 8, 8, 2, 1, 1, 4 >> /\ q = 8
  \/ t = << 8, 8, 2, 1, 1, 4 >> /\ q = 16
  \/ t = << 8, 2, 1, 1, 4 >> /\ q = 24
  \/ t = << 2, 1, 1, 4 >> /\ q = 32
  \/ t = << 1, 1, 4 >> /\ q = 34
  \/ t = << 1, 4 >> /\ q = 35
  \/ t = << 4 >> /\ q = 36
  \/ t = << 2, 1, 1, 4 >> /\ q = 0
  \/ t = << 1, 1, 4 >> /\ q = 2
  \/ t = << 1, 4 >> /\ q = 3
  \/ t = << 4 >> /\ q = 4
  \/ t = << >> /\ q \in {8, 40}

(* The header is in the first word.                                        *)
HeaderReader ==
  status = "header" =>
    /\ Stream > 8 /\ kind = "bit"
    /\ HeaderPlace(todo, pos)
    /\ IF pos = 0 THEN reader = Fresh
       ELSE reader.ByteOffset = 8 /\ reader.InStore = 64 - pos

ReaderInv ==
  /\ Stream \in Sizes /\ kind \in {"bit", "byte"}
  /\ status \in {"header", "body", "failed", "OK"}
  /\ ReaderAt(reader, pos)
  /\ kind = "byte" => reader.InStore % 8 = 0
  /\ HeaderReader

(* A stream has a length.                                                  *)
LEMMA StreamSize ==
  ASSUME OrdinaryStreams, Stream \in Sizes
  PROVE  /\ Stream \in Nat /\ ByteBits = 8 /\ WordBytes = 8 /\ WordBits = 64
         /\ Widths \subseteq 1 .. 63
BY OrderedReaderAssumption DEF OrdinaryStreams, WordBits

(* The parts of a reader.                                                  *)
LEMMA ReaderParts ==
  ASSUME NEW r \in ReaderType
  PROVE  \E o \in Nat, s \in Word, L \in 0 .. 64 :
           /\ r = [ByteOffset |-> o, Store |-> s, InStore |-> L]
           /\ r.ByteOffset = o /\ r.Store = s /\ r.InStore = L
BY DEF ReaderType

(* A word shifted by n bits, and one with n bytes OR-ed into it.           *)
Shifted(s, n) == [i \in 0 .. 63 |-> IF i + n < 64 THEN s[i + n] ELSE {}]
Mixed(s, n, b) ==
  [i \in 0 .. 63 |-> s[Swapped(i)] \union IF i < n * 8 THEN {b + i + 1} ELSE {}]

(* A word is known by its bits.                                            *)
LEMMA WordBitwise ==
  ASSUME NEW t, t = [i \in 0 .. 63 |-> t[i]], \A i \in 0 .. 63 : t[i] \in SUBSET Nat
  PROVE  t \in Word
BY DEF Word

(* What shifting a word leaves in it.                                      *)
LEMMA ShiftedWord ==
  ASSUME NEW s \in Word, NEW L \in 0 .. 64, NEW n \in 0 .. L, NEW p \in Nat,
         HoldsFrom(s, L, p)
  PROVE  /\ Shifted(s, n) \in Word
         /\ HoldsFrom(Shifted(s, n), L - n, p + n)
         /\ ClearFrom(s, L) => ClearFrom(Shifted(s, n), L - n)
<1> DEFINE t == Shifted(s, n)
<1>0. n \in 0 .. 64 /\ L \in 0 .. 64 /\ n <= L
  OBVIOUS
<1>1. /\ \A i \in 0 .. 63 : t[i] = IF i + n < 64 THEN s[i + n] ELSE {}
      /\ t = [i \in 0 .. 63 |-> t[i]]
  BY DEF Shifted
<1>2. \A i \in 0 .. 63 : s[i] \in SUBSET Nat
  BY DEF Word
<1> HIDE DEF t
<1>3. t \in Word
  <2> SUFFICES ASSUME NEW i \in 0 .. 63 PROVE t[i] \in SUBSET Nat
    BY <1>1, WordBitwise
  <2>1. CASE i + n < 64
    <3>1. i + n \in 0 .. 63
      BY <1>0, <2>1
    <3> QED BY <2>1, <3>1, <1>1, <1>2
  <2>2. CASE ~ (i + n < 64)
    BY <2>2, <1>1
  <2> QED BY <2>1, <2>2
<1>4. ASSUME NEW i \in 0 .. L - n - 1 PROVE t[i] = {p + n + i + 1}
  <2>1. i + n \in 0 .. L - 1 /\ i \in 0 .. 63 /\ i + n < 64
    BY <1>0
  <2>2. p + (i + n) + 1 = p + n + i + 1
    BY <2>1, <1>0
  <2>3. t[i] = s[i + n]
    BY <2>1, <1>1
  <2>4. s[i + n] = {p + (i + n) + 1}
    BY <2>1 DEF HoldsFrom
  <2> QED BY <2>2, <2>3, <2>4
<1>5. ASSUME ClearFrom(s, L), NEW i \in L - n .. 63 PROVE t[i] = {}
  <2>1. i \in 0 .. 63 /\ (i + n < 64 => i + n \in L .. 63)
    BY <1>0
  <2> QED BY <1>1, <1>5, <2>1 DEF ClearFrom
<1>6. HoldsFrom(t, L - n, p + n)
  BY <1>4 DEF HoldsFrom
<1>7. ClearFrom(s, L) => ClearFrom(t, L - n)
  BY <1>5 DEF ClearFrom
<1> QED BY <1>3, <1>6, <1>7 DEF t

(* Taking n valid bits out of the word: they are the next ones.            *)
LEMMA ShiftAt ==
  ASSUME OrdinaryStreams, Stream \in Sizes, NEW r, NEW p, ReaderAt(r, p),
         NEW n \in 0 .. r.InStore
  PROVE  /\ ReaderAt(Shift(r, n), p + n)
         /\ Shift(r, n).InStore = r.InStore - n
         /\ Shift(r, n).ByteOffset = r.ByteOffset
         /\ readImpl(r, n) = BitsFrom(p, n)
<1>0. Stream \in Nat /\ WordBits = 64 /\ p \in Nat /\ r \in ReaderType
  BY StreamSize DEF ReaderAt
<1>1. PICK o \in Nat, s \in Word, L \in 0 .. 64 :
        /\ r = [ByteOffset |-> o, Store |-> s, InStore |-> L]
        /\ r.ByteOffset = o /\ r.Store = s /\ r.InStore = L
  BY <1>0, ReaderParts
<1>2. PICK t : t = Shifted(s, n)
  OBVIOUS
<1>3. n \in 0 .. L /\ HoldsFrom(s, L, p)
  BY <1>1 DEF ReaderAt
<1>4. PICK K \in 0 .. 64, q \in Nat : K = L - n /\ q = p + n
  BY <1>0, <1>3
<1>5. t \in Word /\ HoldsFrom(t, K, q) /\ (ClearFrom(s, L) => ClearFrom(t, K))
  BY <1>0, <1>2, <1>3, <1>4, ShiftedWord
<1>6. PICK z : z = [ByteOffset |-> o, Store |-> t, InStore |-> K]
  OBVIOUS
<1>7. Shift(r, n) = z
  <2>1. Shift(r, n) = [r EXCEPT !.Store = Shifted(r.Store, n), !.InStore = @ - n]
    <3>1. WordBits - 1 = 63
      BY <1>0
    <3> QED BY <1>0, <3>1, Zenon DEF Shift, Shifted
  <2> QED BY <2>1, <1>1, <1>2, <1>4, <1>6
<1>8. z \in ReaderType /\ z.ByteOffset = o /\ z.Store = t /\ z.InStore = K
  BY <1>5, <1>6 DEF ReaderType
<1>9. p + L = q + K
  BY <1>0, <1>3, <1>4
<1>10. MoreToLoad(r, p) => MoreToLoad(z, q)
  BY <1>1, <1>5, <1>8, <1>9 DEF MoreToLoad
<1>11. AllLoaded(r, p) => AllLoaded(z, q)
  BY <1>1, <1>8, <1>9 DEF AllLoaded
<1>12. ReaderAt(z, q)
  BY <1>5, <1>8, <1>10, <1>11 DEF ReaderAt
<1>13. readImpl(r, n) = BitsFrom(p, n)
  <2>1. ASSUME NEW i \in 1 .. n PROVE r.Store[i - 1] = {p + i}
    <3>1. i - 1 \in 0 .. L - 1 /\ p + (i - 1) + 1 = p + i
      BY <1>0, <1>3
    <3>2. s[i - 1] = {p + (i - 1) + 1}
      BY <3>1, <1>3 DEF HoldsFrom
    <3> QED BY <3>1, <3>2, <1>1
  <2> QED BY <2>1, Zenon DEF readImpl, BitsFrom
<1> QED BY <1>1, <1>4, <1>7, <1>8, <1>12, <1>13

(* The last word, OR-ed into what is left of the word before.              *)
LEMMA PartialWord ==
  ASSUME OrdinaryStreams, Stream \in Sizes, NEW s \in Word,
         NEW L \in 0 .. 64, NEW n \in 1 .. 7, NEW b \in Nat,
         ClearFrom(s, L),
         L = 0 \/ MakeByteCount(L) + n <= 8
  PROVE  Mixed(s, n, b) \in Word /\ HoldsFrom(Mixed(s, n, b), n * 8, b)
<1> DEFINE t == Mixed(s, n, b)
<1>0. ByteBits = 8 /\ WordBytes = 8
  BY StreamSize
<1>1. \A i \in 0 .. 63 : Swapped(i) \in 0 .. 63 /\ Swapped(i) = (7 - (i \div 8)) * 8 + (i % 8)
  BY <1>0 DEF Swapped
<1>2. /\ \A i \in 0 .. 63 : t[i] = s[Swapped(i)] \union IF i < n * 8 THEN {b + i + 1} ELSE {}
      /\ t = [i \in 0 .. 63 |-> t[i]]
  BY Zenon DEF Mixed
<1> HIDE DEF t
<1>3. t \in Word
  <2> SUFFICES ASSUME NEW i \in 0 .. 63 PROVE t[i] \in SUBSET Nat
    BY <1>2, WordBitwise
  <2>1. s[Swapped(i)] \in SUBSET Nat
    BY <1>1 DEF Word
  <2>2. (IF i < n * 8 THEN {b + i + 1} ELSE {}) \in SUBSET Nat
    <3>1. b + i + 1 \in Nat
      OBVIOUS
    <3> QED BY <3>1
  <2>3. t[i] = s[Swapped(i)] \union IF i < n * 8 THEN {b + i + 1} ELSE {}
    BY <1>2, Zenon
  <2> QED BY <2>1, <2>2, <2>3, Zenon
<1>4. L <= 8 * (8 - n)
  <2>1. L # 0 => (L + 7) \div 8 + n <= 8
    <3>1. MakeByteCount(L) = (L + 7) \div 8
      BY <1>0 DEF MakeByteCount
    <3> QED BY <3>1
  <2> QED BY <2>1
<1>5. ASSUME NEW i \in 0 .. n * 8 - 1 PROVE t[i] = {b + i + 1}
  <2>1. i \in 0 .. 63 /\ i < n * 8 /\ i \div 8 <= n - 1 /\ i % 8 >= 0
    OBVIOUS
  <2>2. Swapped(i) \in L .. 63
    <3>1. PICK d \in Nat : d = i \div 8
      BY <2>1
    <3>2. PICK m \in 0 .. 7 : m = i % 8
      BY <2>1
    <3>3. Swapped(i) = (7 - d) * 8 + m /\ Swapped(i) \in 0 .. 63 /\ d <= n - 1
      BY <2>1, <3>1, <3>2, <1>1
    <3> QED BY <3>3, <1>4
  <2>3. s[Swapped(i)] = {}
    BY <2>2 DEF ClearFrom
  <2>4. t[i] = s[Swapped(i)] \union {b + i + 1}
    <3>1. t[i] = s[Swapped(i)] \union IF i < n * 8 THEN {b + i + 1} ELSE {}
      BY <2>1, <1>2, Zenon
    <3> QED BY <2>1, <3>1, Zenon
  <2> QED BY <2>3, <2>4, Zenon
<1>6. HoldsFrom(t, n * 8, b)
  BY <1>5 DEF HoldsFrom
<1> QED BY <1>3, <1>6 DEF t

(* Loading the next word: it holds the stream from where the last one      *)
(* ended.  A whole word replaces it, the last one is OR-ed into it.        *)
LEMMA FillAt ==
  ASSUME OrdinaryStreams, Stream \in Sizes, NEW r, NEW p, ReaderAt(r, p), MoreToLoad(r, p),
         r.InStore = 0 \/ MakeByteCount(r.InStore) + (Stream % 8) <= 8
  PROVE  /\ ReaderAt(fillStore(r), p + r.InStore)
         /\ fillStore(r).InStore =
              IF Stream >= r.ByteOffset + 8 THEN 64 ELSE (Stream - r.ByteOffset) * 8
         /\ Stream > r.ByteOffset + 8 => fillStore(r).ByteOffset = r.ByteOffset + 8
<1>0. /\ Stream \in Nat /\ ByteBits = 8 /\ WordBytes = 8 /\ WordBits = 64
      /\ p \in Nat /\ r \in ReaderType
  BY StreamSize DEF ReaderAt
<1>1. PICK o \in Nat, s \in Word, L \in 0 .. 64 :
        /\ r = [ByteOffset |-> o, Store |-> s, InStore |-> L]
        /\ r.ByteOffset = o /\ r.Store = s /\ r.InStore = L
  BY <1>0, ReaderParts
<1>2. o < Stream /\ o % 8 = 0 /\ o * 8 = p + L /\ ClearFrom(s, L)
  BY <1>1 DEF MoreToLoad
<1>3. PICK b \in Nat : b = o * 8 /\ b = p + L
  BY <1>0, <1>2
<1>4. CASE Stream >= o + 8
  <2>1. PICK t : t = [i \in 0 .. 63 |-> {b + i + 1}]
    OBVIOUS
  <2>2. PICK e \in Nat : e = IF o + 8 = Stream THEN o + 9 ELSE o + 8
    OBVIOUS
  <2>3. PICK z : z = [ByteOffset |-> e, Store |-> t, InStore |-> 64]
    OBVIOUS
  <2>4. IsFull(r) /\ BytesRead(r) = 8
    BY <1>0, <1>1, <1>4 DEF IsFull, BytesRead
  <2>5. fillStore(r) = z
    <3>1. fillStore(r) =
            [ByteOffset |-> IF o + 8 = Stream THEN (o + 8) + 1 ELSE o + 8,
             Store |-> [i \in 0 .. 64 - 1 |->
                          {} \union IF i < 8 * 8 THEN {b + i + 1} ELSE {}],
             InStore |-> 8 * 8]
      <4>1. r.ByteOffset = o /\ o * 8 = b
        BY <1>1, <1>3
      <4>2. fillStore(r) =
              [ByteOffset |-> IF r.ByteOffset + 8 = Stream THEN (r.ByteOffset + 8) + 1
                              ELSE r.ByteOffset + 8,
               Store |-> [i \in 0 .. 64 - 1 |->
                            {} \union IF i < 8 * 8 THEN {r.ByteOffset * 8 + i + 1} ELSE {}],
               InStore |-> 8 * 8]
        BY <1>0, <2>4, Zenon DEF fillStore
      <4> QED BY <4>1, <4>2, Zenon
    <3>2. 8 * 8 = 64 /\ 64 - 1 = 63 /\ (o + 8) + 1 = o + 9
      OBVIOUS
    <3>3. \A i \in 0 .. 64 - 1 : ({} \union IF i < 8 * 8 THEN {b + i + 1} ELSE {}) = t[i]
      <4> SUFFICES ASSUME NEW i \in 0 .. 64 - 1
                   PROVE  ({} \union IF i < 8 * 8 THEN {b + i + 1} ELSE {}) = t[i]
        OBVIOUS
      <4>1. i \in 0 .. 63 /\ i < 8 * 8
        OBVIOUS
      <4>2. t[i] = {b + i + 1}
        BY <2>1, <4>1, Zenon
      <4>3. {} \union {b + i + 1} = {b + i + 1}
        BY Zenon
      <4> QED BY <4>1, <4>2, <4>3, Zenon
    <3>4. t = [i \in 0 .. 64 - 1 |-> t[i]]
      BY <2>1
    <3>5. [i \in 0 .. 64 - 1 |-> {} \union IF i < 8 * 8 THEN {b + i + 1} ELSE {}] = t
      BY <3>3, <3>4, Zenon
    <3> QED BY <3>1, <3>2, <3>5, <2>2, <2>3
  <2>6. t \in Word
    BY <2>1 DEF Word
  <2>7. HoldsFrom(t, 64, b)
    BY <2>1 DEF HoldsFrom
  <2>8. z \in ReaderType /\ z.ByteOffset = e /\ z.Store = t /\ z.InStore = 64
    BY <2>3, <2>6 DEF ReaderType
  <2>9. o + 8 = Stream => AllLoaded(z, b)
    BY <1>0, <1>3, <2>2, <2>8 DEF AllLoaded
  <2>10. o + 8 # Stream => MoreToLoad(z, b)
    <3>1. ClearFrom(t, 64)
      BY DEF ClearFrom
    <3> QED BY <1>0, <1>2, <1>3, <1>4, <2>2, <2>8, <3>1 DEF MoreToLoad
  <2>11. ReaderAt(z, b)
    BY <2>7, <2>8, <2>9, <2>10 DEF ReaderAt
  <2> QED BY <2>2, <2>5, <2>8, <2>11, <1>0, <1>1, <1>3, <1>4
<1>5. CASE Stream < o + 8
  <2>1. PICK n \in 1 .. 7 : n = Stream - o
    BY <1>0, <1>2, <1>5
  <2>2. PICK t : t = Mixed(s, n, b)
    OBVIOUS
  <2>3. PICK e \in Nat : e = IF n = Stream THEN n + 1 ELSE n
    OBVIOUS
  <2>4. PICK z : z = [ByteOffset |-> e, Store |-> t, InStore |-> n * 8]
    OBVIOUS
  <2>5. ~ IsFull(r) /\ BytesRead(r) = n
    BY <1>0, <1>1, <1>5, <2>1 DEF IsFull, BytesRead
  <2>6. fillStore(r) = z
    <3>1. fillStore(r) =
            [ByteOffset |-> IF 0 + n = Stream THEN (0 + n) + 1 ELSE 0 + n,
             Store |-> [i \in 0 .. 64 - 1 |->
                          r.Store[Swapped(i)] \union
                            IF i < n * 8 THEN {r.ByteOffset * 8 + i + 1} ELSE {}],
             InStore |-> n * 8]
      BY <1>0, <2>5, Zenon DEF fillStore
    <3>2. 0 + n = n /\ 64 - 1 = 63 /\ r.Store = s /\ r.ByteOffset * 8 = b
      BY <1>1, <1>3
    <3> QED BY <3>1, <3>2, <2>2, <2>3, <2>4, Zenon DEF Mixed
  <2>7. Stream % 8 = n
    BY <1>0, <1>2, <2>1
  <2>8. L = 0 \/ MakeByteCount(L) + n <= 8
    <3>1. r.InStore = L
      BY <1>1
    <3>2. L = 0 \/ MakeByteCount(L) + (Stream % 8) <= 8
      BY <3>1, Zenon
    <3> QED BY <3>2, <2>7
  <2>9. t \in Word /\ HoldsFrom(t, n * 8, b)
    BY <1>2, <2>2, <2>8, PartialWord
  <2>10. /\ n * 8 \in 0 .. 64 /\ z \in ReaderType
         /\ z.ByteOffset = e /\ z.Store = t /\ z.InStore = n * 8
    BY <2>4, <2>9 DEF ReaderType
  <2>11. b + n * 8 = Stream * 8 /\ (n # Stream => Stream > 8 /\ Stream % 8 # 0)
    BY <1>0, <1>2, <1>3, <2>1, <2>7
  <2>12. AllLoaded(z, b)
    BY <1>0, <2>3, <2>10, <2>11 DEF AllLoaded
  <2>13. ReaderAt(z, b)
    BY <2>9, <2>10, <2>12 DEF ReaderAt
  <2> QED BY <2>1, <2>6, <2>10, <2>13, <1>0, <1>1, <1>3, <1>5
<1> QED BY <1>0, <1>1, <1>4, <1>5

(* Bits of the stream, and those behind them.                              *)
LEMMA BitsAppend ==
  ASSUME NEW p \in Nat, NEW a \in Nat, NEW b \in Nat
  PROVE  BitsFrom(p, a) \o BitsFrom(p + a, b) = BitsFrom(p, a + b)
<1> DEFINE s == BitsFrom(p, a)
           t == BitsFrom(p + a, b)
           u == BitsFrom(p, a + b)
<1>1. /\ s \in Seq(SUBSET Nat) /\ t \in Seq(SUBSET Nat)
      /\ Len(s) = a /\ Len(t) = b
  <2>1. s \in [1 .. a -> SUBSET Nat] /\ t \in [1 .. b -> SUBSET Nat]
    BY DEF BitsFrom
  <2> HIDE DEF s, t
  <2> QED BY <2>1
<1>2. \A i \in 1 .. a : s[i] = {p + i}
  BY DEF BitsFrom
<1>3. \A i \in 1 .. b : t[i] = {(p + a) + i}
  BY DEF BitsFrom
<1>4. u = [i \in 1 .. a + b |-> {p + i}]
  BY DEF BitsFrom
<1> HIDE DEF s, t, u
<1>5. s \o t = [i \in 1 .. a + b |-> IF i <= a THEN s[i] ELSE t[i - a]]
  <2>1. /\ s \o t \in Seq(SUBSET Nat) /\ Len(s \o t) = a + b
        /\ \A i \in 1 .. a + b : (s \o t)[i] = IF i <= a THEN s[i] ELSE t[i - a]
    BY <1>1, ConcatProperties
  <2>2. s \o t = [i \in 1 .. a + b |-> (s \o t)[i]]
    <3>1. s \o t \in [1 .. a + b -> SUBSET Nat]
      BY <2>1, LenProperties
    <3> QED BY <3>1
  <2> QED BY <2>1, <2>2, Zenon
<1>6. \A i \in 1 .. a + b : (IF i <= a THEN s[i] ELSE t[i - a]) = {p + i}
  <2> SUFFICES ASSUME NEW i \in 1 .. a + b
               PROVE  (IF i <= a THEN s[i] ELSE t[i - a]) = {p + i}
    OBVIOUS
  <2>1. CASE i <= a
    BY <2>1, <1>2
  <2>2. CASE ~ (i <= a)
    <3>1. i - a \in 1 .. b /\ (p + a) + (i - a) = p + i
      BY <2>2
    <3>2. t[i - a] = {(p + a) + (i - a)}
      BY <3>1, <1>3
    <3> QED BY <2>2, <3>1, <3>2
  <2> QED BY <2>1, <2>2
<1>7. s \o t = u
  BY <1>4, <1>5, <1>6, Zenon
<1> QED BY <1>7 DEF s, t, u

(* A reader is never further than the stream: what it holds is of it.      *)
LEMMA InsideStream ==
  ASSUME OrdinaryStreams, Stream \in Sizes, NEW r, NEW p, ReaderAt(r, p)
  PROVE  p + r.InStore <= Stream * 8 /\ r.InStore \in 0 .. 64 /\ p \in Nat
<1>1. Stream \in Nat /\ p \in Nat /\ r.InStore \in 0 .. 64 /\ r.ByteOffset \in Nat
  BY StreamSize DEF ReaderAt, ReaderType
<1>2. CASE MoreToLoad(r, p)
  BY <1>1, <1>2 DEF MoreToLoad
<1>3. CASE AllLoaded(r, p)
  BY <1>1, <1>3 DEF AllLoaded
<1> QED BY <1>1, <1>2, <1>3 DEF ReaderAt

(* A read of m bits is within the document, or the document ends with a    *)
(* word or within the first.                                               *)
ReadFits(m) == pos + m <= Stream * 8 \/ Stream < 8 \/ Stream % 8 = 0

(* What is left before the last word of a long stream fits beside it.      *)
LeftFits(m) ==
  Stream > 8 /\ reader.InStore < m => MakeByteCount(reader.InStore) + (Stream % 8) <= 8

(* What a read of m bits should do: return them or fail.                   *)
ReadsNext(m) ==
  IF pos + m <= Stream * 8
  THEN pos' = pos + m /\ got' = [ok |-> TRUE, bits |-> BitsFrom(pos, m)]
  ELSE pos' = pos /\ got' = [ok |-> FALSE, bits |-> << >>]

(* Taking bytes from bytes leaves bytes.                                   *)
LEMMA WholeBytes ==
  ASSUME NEW a \in Nat, NEW b \in 0 .. a, a % 8 = 0, b % 8 = 0
  PROVE  (a - b) % 8 = 0
OBVIOUS

(* A read whose bits are in the word.                                      *)
LEMMA FullRead ==
  ASSUME OrdinaryStreams, ReaderInv, NEW m \in 1 .. 64, readFullBits64(m),
         kind = "byte" => m % 8 = 0
  PROVE  /\ ReaderAt(reader', pos') /\ ReadsNext(m) /\ status' = status
         /\ kind = "byte" => reader'.InStore % 8 = 0
         /\ m <= reader.InStore /\ reader' = Shift(reader, m) /\ pos' = pos + m
<1>1. Stream \in Sizes /\ ReaderAt(reader, pos)
  BY DEF ReaderInv
<1>2. pos + reader.InStore <= Stream * 8 /\ reader.InStore \in 0 .. 64 /\ pos \in Nat
      /\ Stream \in Nat
  BY <1>1, InsideStream, StreamSize
<1>3. m \in 0 .. reader.InStore
  BY <1>2 DEF readFullBits64
<1>4. /\ ReaderAt(Shift(reader, m), pos + m)
      /\ Shift(reader, m).InStore = reader.InStore - m
      /\ readImpl(reader, m) = BitsFrom(pos, m)
  BY <1>1, <1>3, ShiftAt
<1>5. Len(BitsFrom(pos, m)) = m
  BY DEF BitsFrom
<1>6. /\ reader' = Shift(reader, m) /\ pos' = pos + m /\ status' = status
      /\ got' = [ok |-> TRUE, bits |-> BitsFrom(pos, m)]
  BY <1>4, <1>5 DEF readFullBits64, Return
<1>7. pos + m <= Stream * 8
  BY <1>2, <1>3
<1>8. kind = "byte" => reader'.InStore % 8 = 0
  <2>1. kind = "byte" => reader.InStore % 8 = 0
    BY DEF ReaderInv
  <2>2. reader'.InStore = reader.InStore - m
    BY <1>4, <1>6
  <2>3. reader.InStore \in Nat
    BY <1>2
  <2> QED BY <2>1, <2>2, <2>3, <1>3, WholeBytes
<1> QED BY <1>3, <1>4, <1>6, <1>7, <1>8 DEF ReadsNext

(* A read that goes on in the next word, or finds that there is none.      *)
LEMMA PartialRead ==
  ASSUME OrdinaryStreams, ReaderInv, NEW m \in 1 .. 64, readPartialBits64(m),
         kind = "byte" => m % 8 = 0, ReadFits(m), LeftFits(m)
  PROVE  /\ ReaderAt(reader', pos') /\ ReadsNext(m) /\ status' \in {status, "failed"}
         /\ kind = "byte" => reader'.InStore % 8 = 0
         /\ pos + m <= Stream * 8 =>
              /\ m > reader.InStore /\ MoreToLoad(reader, pos) /\ status' = status
              /\ reader' = Shift(fillStore(reader), m - reader.InStore) /\ pos' = pos + m
<1>1. Stream \in Sizes /\ ReaderAt(reader, pos) /\ (kind = "byte" => reader.InStore % 8 = 0)
  BY DEF ReaderInv
<1>2. /\ pos + reader.InStore <= Stream * 8 /\ reader.InStore \in 0 .. 64 /\ pos \in Nat
      /\ Stream \in Nat /\ reader.ByteOffset \in Nat
  BY <1>1, InsideStream, StreamSize DEF ReaderAt, ReaderType
<1>3. m > reader.InStore
  BY DEF readPartialBits64
<1>4. CASE AtEnd(reader)
  <2>1. Fail(reader)
    BY <1>4 DEF readPartialBits64
  <2>2. AllLoaded(reader, pos)
    BY <1>1, <1>2, <1>4 DEF AtEnd, ReaderAt, MoreToLoad
  <2>3. ~ (pos + m <= Stream * 8)
    BY <1>2, <1>3, <2>2 DEF AllLoaded
  <2> QED BY <1>1, <2>1, <2>3 DEF Fail, ReadsNext
<1>5. CASE ~ AtEnd(reader)
  <2>1. reader.ByteOffset < Stream
    BY <1>2, <1>5 DEF AtEnd
  <2>2. MoreToLoad(reader, pos)
    <3>1. ~ AllLoaded(reader, pos)
      BY <1>2, <1>3, <2>1 DEF AllLoaded, ReadFits
    <3> QED BY <1>1, <3>1 DEF ReaderAt
  <2>3. reader.ByteOffset * 8 = pos + reader.InStore /\ reader.ByteOffset % 8 = 0
    BY <2>2 DEF MoreToLoad
  <2>4. Stream <= 8 => reader.ByteOffset = 0 /\ reader.InStore = 0 /\ pos = 0
    BY <1>2, <2>1, <2>3
  <2>5. reader.InStore = 0 \/ MakeByteCount(reader.InStore) + (Stream % 8) <= 8
    BY <1>2, <1>3, <2>4 DEF LeftFits
  <2>6. PICK next : next = fillStore(reader)
    OBVIOUS
  <2>7. PICK q \in Nat : q = pos + reader.InStore
    BY <1>2
  <2>8. /\ ReaderAt(next, q)
        /\ next.InStore = IF Stream >= reader.ByteOffset + 8 THEN 64
                          ELSE (Stream - reader.ByteOffset) * 8
    BY <1>1, <2>2, <2>5, <2>6, <2>7, FillAt
  <2>9. q + next.InStore <= Stream * 8 /\ next.InStore \in 0 .. 64 /\ next.InStore % 8 = 0
    BY <1>1, <1>2, <2>1, <2>8, InsideStream
  <2>10. PICK head \in 1 .. 64 : head = m - reader.InStore
    BY <1>2, <1>3
  <2>11. CASE head > next.InStore
    <3>1. Fail(next)
      BY <1>5, <2>6, <2>10, <2>11 DEF readPartialBits64
    <3>2. Stream < reader.ByteOffset + 8 /\ next.InStore = (Stream - reader.ByteOffset) * 8
      BY <2>8, <2>11, <1>2
    <3>3. ~ (pos + m <= Stream * 8)
      BY <3>2, <2>3, <2>10, <2>11, <1>2
    <3>4. Stream < 8
      BY <3>2, <3>3, <2>1, <2>3, <1>2 DEF ReadFits
    <3>5. q = pos
      BY <2>4, <2>7, <3>4, <1>2
    <3> QED BY <3>1, <3>3, <3>5, <2>8, <2>9 DEF Fail, ReadsNext
  <2>12. CASE ~ (head > next.InStore)
    <3>1. head \in 0 .. next.InStore /\ reader.InStore \in 0 .. reader.InStore
      BY <1>2, <2>9, <2>12
    <3>2. /\ ReaderAt(Shift(next, head), q + head)
          /\ Shift(next, head).InStore = next.InStore - head
          /\ readImpl(next, head) = BitsFrom(q, head)
      BY <1>1, <2>8, <3>1, ShiftAt
    <3>3. readImpl(reader, reader.InStore) = BitsFrom(pos, reader.InStore)
      <4>1. PICK L \in 0 .. reader.InStore : L = reader.InStore
        BY <3>1
      <4>2. readImpl(reader, L) = BitsFrom(pos, L)
        BY <1>1, <4>1, ShiftAt
      <4> QED BY <4>1, <4>2
    <3>4. readImpl(reader, reader.InStore) \o readImpl(next, head)
            = BitsFrom(pos, m)
      <4>1. reader.InStore + head = m
        BY <1>2, <2>10
      <4>2. BitsFrom(pos, reader.InStore)
              \o BitsFrom(pos + reader.InStore, head)
              = BitsFrom(pos, reader.InStore + head)
        <5>1. PICK L \in Nat : L = reader.InStore
          BY <1>2
        <5>2. head \in Nat
          OBVIOUS
        <5>3. BitsFrom(pos, L) \o BitsFrom(pos + L, head)
                = BitsFrom(pos, L + head)
          BY <5>2, <1>2, BitsAppend
        <5> QED BY <5>1, <5>3
      <4> QED BY <4>1, <4>2, <3>2, <3>3, <2>7, Zenon
    <3>5. Return(Shift(next, head), BitsFrom(pos, m))
      BY <1>5, <2>6, <2>10, <2>12, <3>4, Zenon DEF readPartialBits64
    <3>6. Len(BitsFrom(pos, m)) = m
      BY DEF BitsFrom
    <3>7. /\ reader' = Shift(next, head) /\ pos' = pos + m /\ status' = status
          /\ got' = [ok |-> TRUE, bits |-> BitsFrom(pos, m)]
      BY <3>5, <3>6 DEF Return
    <3>8. pos + m <= Stream * 8 /\ q + head = pos + m
      BY <1>2, <2>7, <2>9, <2>10, <2>12
    <3>9. kind = "byte" => reader'.InStore % 8 = 0
      <4> SUFFICES ASSUME kind = "byte" PROVE reader'.InStore % 8 = 0
        OBVIOUS
      <4>1. head % 8 = 0
        <5>1. m \in Nat /\ reader.InStore \in 0 .. m /\ m % 8 = 0 /\ reader.InStore % 8 = 0
          BY <1>1, <1>2, <1>3
        <5> QED BY <5>1, <2>10, WholeBytes
      <4>2. reader'.InStore = next.InStore - head /\ next.InStore \in Nat
        <5>1. reader'.InStore = next.InStore - head
          BY <3>2, <3>7, Zenon
        <5> QED BY <5>1, <2>9
      <4> QED BY <4>1, <4>2, <2>9, <3>1, WholeBytes
    <3> QED BY <1>3, <2>2, <2>6, <2>10, <3>2, <3>7, <3>8, <3>9 DEF ReadsNext
  <2> QED BY <2>11, <2>12
<1> QED BY <1>4, <1>5

(* The header is read field by field.                                      *)
LEMMA HeaderWalk ==
  ASSUME NEW t, NEW q, HeaderPlace(t, q), t # << >>
  PROVE  Head(t) \in 1 .. 8 /\ HeaderPlace(Tail(t), q + Head(t))
<1>1. CASE t = << 2, 6, 8, 8, 8, 2, 1, 1, 4 >> /\ q = 0
  <2>1. Head(t) = 2 /\ Tail(t) = << 6, 8, 8, 8, 2, 1, 1, 4 >> /\ q + 2 = 2 /\ 2 \in 1 .. 8
    BY <1>1
  <2>2. HeaderPlace(<< 6, 8, 8, 8, 2, 1, 1, 4 >>, 2)
    BY Zenon DEF HeaderPlace
  <2> QED BY <2>1, <2>2, Zenon
<1>2. CASE t = << 6, 8, 8, 8, 2, 1, 1, 4 >> /\ q = 2
  <2>1. Head(t) = 6 /\ Tail(t) = << 8, 8, 8, 2, 1, 1, 4 >> /\ q + 6 = 8 /\ 6 \in 1 .. 8
    BY <1>2
  <2>2. HeaderPlace(<< 8, 8, 8, 2, 1, 1, 4 >>, 8)
    BY Zenon DEF HeaderPlace
  <2> QED BY <2>1, <2>2, Zenon
<1>3. CASE t = << 8, 8, 8, 2, 1, 1, 4 >> /\ q = 8
  <2>1. Head(t) = 8 /\ Tail(t) = << 8, 8, 2, 1, 1, 4 >> /\ q + 8 = 16 /\ 8 \in 1 .. 8
    BY <1>3
  <2>2. HeaderPlace(<< 8, 8, 2, 1, 1, 4 >>, 16)
    BY Zenon DEF HeaderPlace
  <2> QED BY <2>1, <2>2, Zenon
<1>4. CASE t = << 8, 8, 2, 1, 1, 4 >> /\ q = 16
  <2>1. Head(t) = 8 /\ Tail(t) = << 8, 2, 1, 1, 4 >> /\ q + 8 = 24 /\ 8 \in 1 .. 8
    BY <1>4
  <2>2. HeaderPlace(<< 8, 2, 1, 1, 4 >>, 24)
    BY Zenon DEF HeaderPlace
  <2> QED BY <2>1, <2>2, Zenon
<1>5. CASE t = << 8, 2, 1, 1, 4 >> /\ q = 24
  <2>1. Head(t) = 8 /\ Tail(t) = << 2, 1, 1, 4 >> /\ q + 8 = 32 /\ 8 \in 1 .. 8
    BY <1>5
  <2>2. HeaderPlace(<< 2, 1, 1, 4 >>, 32)
    BY Zenon DEF HeaderPlace
  <2> QED BY <2>1, <2>2, Zenon
<1>6. CASE t = << 2, 1, 1, 4 >> /\ q = 32
  <2>1. Head(t) = 2 /\ Tail(t) = << 1, 1, 4 >> /\ q + 2 = 34 /\ 2 \in 1 .. 8
    BY <1>6
  <2>2. HeaderPlace(<< 1, 1, 4 >>, 34)
    BY Zenon DEF HeaderPlace
  <2> QED BY <2>1, <2>2, Zenon
<1>7. CASE t = << 1, 1, 4 >> /\ q = 34
  <2>1. Head(t) = 1 /\ Tail(t) = << 1, 4 >> /\ q + 1 = 35 /\ 1 \in 1 .. 8
    BY <1>7
  <2>2. HeaderPlace(<< 1, 4 >>, 35)
    BY Zenon DEF HeaderPlace
  <2> QED BY <2>1, <2>2, Zenon
<1>8. CASE t = << 1, 4 >> /\ q = 35
  <2>1. Head(t) = 1 /\ Tail(t) = << 4 >> /\ q + 1 = 36 /\ 1 \in 1 .. 8
    BY <1>8
  <2>2. HeaderPlace(<< 4 >>, 36)
    BY Zenon DEF HeaderPlace
  <2> QED BY <2>1, <2>2, Zenon
<1>9. CASE t = << 4 >> /\ q = 36
  <2>1. Head(t) = 4 /\ Tail(t) = << >> /\ q + 4 = 40 /\ 4 \in 1 .. 8
    BY <1>9
  <2>2. HeaderPlace(<< >>, 40)
    BY Zenon DEF HeaderPlace
  <2> QED BY <2>1, <2>2, Zenon
<1>10. CASE t = << 2, 1, 1, 4 >> /\ q = 0
  <2>1. Head(t) = 2 /\ Tail(t) = << 1, 1, 4 >> /\ q + 2 = 2 /\ 2 \in 1 .. 8
    BY <1>10
  <2>2. HeaderPlace(<< 1, 1, 4 >>, 2)
    BY Zenon DEF HeaderPlace
  <2> QED BY <2>1, <2>2, Zenon
<1>11. CASE t = << 1, 1, 4 >> /\ q = 2
  <2>1. Head(t) = 1 /\ Tail(t) = << 1, 4 >> /\ q + 1 = 3 /\ 1 \in 1 .. 8
    BY <1>11
  <2>2. HeaderPlace(<< 1, 4 >>, 3)
    BY Zenon DEF HeaderPlace
  <2> QED BY <2>1, <2>2, Zenon
<1>12. CASE t = << 1, 4 >> /\ q = 3
  <2>1. Head(t) = 1 /\ Tail(t) = << 4 >> /\ q + 1 = 4 /\ 1 \in 1 .. 8
    BY <1>12
  <2>2. HeaderPlace(<< 4 >>, 4)
    BY Zenon DEF HeaderPlace
  <2> QED BY <2>1, <2>2, Zenon
<1>13. CASE t = << 4 >> /\ q = 4
  <2>1. Head(t) = 4 /\ Tail(t) = << >> /\ q + 4 = 8 /\ 4 \in 1 .. 8
    BY <1>13
  <2>2. HeaderPlace(<< >>, 8)
    BY Zenon DEF HeaderPlace
  <2> QED BY <2>1, <2>2, Zenon
<1> QED
  BY <1>1, <1>2, <1>3, <1>4, <1>5, <1>6, <1>7, <1>8, <1>9, <1>10, <1>11, <1>12, <1>13, Zenon DEF HeaderPlace

(* Where it may be, and where it ends.                                     *)
LEMMA HeaderEnds ==
  ASSUME NEW t, NEW q, HeaderPlace(t, q)
  PROVE  q \in 0 .. 40 /\ (t = << >> => q \in {8, 40})
<1>1. CASE t = << 2, 6, 8, 8, 8, 2, 1, 1, 4 >> /\ q = 0
  BY <1>1
<1>2. CASE t = << 6, 8, 8, 8, 2, 1, 1, 4 >> /\ q = 2
  BY <1>2
<1>3. CASE t = << 8, 8, 8, 2, 1, 1, 4 >> /\ q = 8
  BY <1>3
<1>4. CASE t = << 8, 8, 2, 1, 1, 4 >> /\ q = 16
  BY <1>4
<1>5. CASE t = << 8, 2, 1, 1, 4 >> /\ q = 24
  BY <1>5
<1>6. CASE t = << 2, 1, 1, 4 >> /\ q = 32
  BY <1>6
<1>7. CASE t = << 1, 1, 4 >> /\ q = 34
  BY <1>7
<1>8. CASE t = << 1, 4 >> /\ q = 35
  BY <1>8
<1>9. CASE t = << 4 >> /\ q = 36
  BY <1>9
<1>10. CASE t = << 2, 1, 1, 4 >> /\ q = 0
  BY <1>10
<1>11. CASE t = << 1, 1, 4 >> /\ q = 2
  BY <1>11
<1>12. CASE t = << 1, 4 >> /\ q = 3
  BY <1>12
<1>13. CASE t = << 4 >> /\ q = 4
  BY <1>13
<1>14. CASE t = << >> /\ q \in {8, 40}
  BY <1>14
<1> QED
  BY <1>1, <1>2, <1>3, <1>4, <1>5, <1>6, <1>7, <1>8, <1>9, <1>10, <1>11, <1>12, <1>13, <1>14, Zenon DEF HeaderPlace

(* The fresh reader.                                                       *)
LEMMA FreshAt ==
  ASSUME OrdinaryStreams, Stream \in Sizes
  PROVE  /\ Fresh = [ByteOffset |-> 0, Store |-> Fresh.Store, InStore |-> 0]
         /\ Fresh \in ReaderType /\ Fresh.ByteOffset = 0 /\ Fresh.InStore = 0
         /\ ReaderAt(Fresh, 0)
         /\ Stream > 0 => MoreToLoad(Fresh, 0)
<1>0. Stream \in Nat /\ WordBits = 64
  BY StreamSize
<1>1. Zero \in Word /\ \A i \in 0 .. 63 : Zero[i] = {}
  BY <1>0 DEF Zero, Word
<1>2. /\ Fresh \in ReaderType /\ Fresh.ByteOffset = 0 /\ Fresh.InStore = 0
      /\ Fresh.Store = Zero
  BY <1>1 DEF Fresh, ReaderType
<1>3. HoldsFrom(Zero, 0, 0) /\ ClearFrom(Zero, 0)
  BY <1>1 DEF HoldsFrom, ClearFrom
<1>4. Stream > 0 => MoreToLoad(Fresh, 0)
  BY <1>0, <1>2, <1>3 DEF MoreToLoad
<1>5. Stream = 0 => AllLoaded(Fresh, 0)
  BY <1>2 DEF AllLoaded
<1>6. ReaderAt(Fresh, 0)
  BY <1>0, <1>2, <1>3, <1>4, <1>5 DEF ReaderAt
<1> QED BY <1>2, <1>4, <1>6 DEF Fresh

(* Being somewhere in the stream is about the reader and the stream only.  *)
LEMMA SameStream ==
  ASSUME Stream' = Stream, ReaderAt(reader', pos')
  PROVE  ReaderAt(reader, pos)'
BY DEF ReaderAt, MoreToLoad, AllLoaded

(* A reader starts at the start of the stream.                             *)
LEMMA ReaderInit ==
  ASSUME OrdinaryStreams, Init
  PROVE  ReaderInv
<1>1. Stream \in Sizes /\ reader = Fresh /\ pos = 0 /\ Headers \subseteq Sizes
  BY OrderedReaderAssumption DEF Init
<1>2. ReaderAt(reader, pos) /\ reader.InStore = 0 /\ Stream \in Nat /\ WordBytes = 8
  BY <1>1, FreshAt, StreamSize
<1>3. kind \in {"bit", "byte"} /\ status \in {"header", "body", "failed", "OK"}
  BY DEF Init
<1>4. HeaderReader
  <2> SUFFICES ASSUME status = "header" PROVE HeaderReader
    BY DEF HeaderReader
  <2>1. Stream \in Headers /\ kind = "bit" /\ todo \in {PlainHeader, Cookie \o PlainHeader}
    BY DEF Init
  <2>2. Stream > 8
    BY <1>2, <2>1 DEF OrdinaryStreams
  <2>3. PlainHeader = << 2, 1, 1, 4 >>
    BY DEF PlainHeader
  <2>4. Cookie \o PlainHeader = << 2, 6, 8, 8, 8, 2, 1, 1, 4 >>
    <3> DEFINE w == Cookie \o PlainHeader
    <3>1. Cookie \in Seq(Nat) /\ PlainHeader \in Seq(Nat) /\ Len(Cookie) = 5
          /\ Len(PlainHeader) = 4
      BY DEF Cookie, PlainHeader
    <3>2. /\ w \in Seq(Nat) /\ Len(w) = 9
          /\ \A i \in 1 .. 9 : w[i] = IF i <= 5 THEN Cookie[i] ELSE PlainHeader[i - 5]
      <4>1. /\ w \in Seq(Nat) /\ Len(w) = Len(Cookie) + Len(PlainHeader)
            /\ \A i \in 1 .. Len(Cookie) + Len(PlainHeader) :
                 w[i] = IF i <= Len(Cookie) THEN Cookie[i] ELSE PlainHeader[i - Len(Cookie)]
        <5> HIDE DEF w
        <5> QED BY <3>1, ConcatProperties, Zenon DEF w
      <4>2. Len(Cookie) + Len(PlainHeader) = 9
        BY <3>1
      <4> HIDE DEF w
      <4> QED BY <4>1, <4>2, <3>1, Zenon
    <3> HIDE DEF w
    <3>3. /\ w[1] = 2 /\ w[2] = 6 /\ w[3] = 8 /\ w[4] = 8 /\ w[5] = 8
      BY <3>2 DEF Cookie
    <3>4. /\ w[6] = 2 /\ w[7] = 1 /\ w[8] = 1 /\ w[9] = 4
      BY <3>2 DEF PlainHeader
    <3>5. w = << w[1], w[2], w[3], w[4], w[5], w[6], w[7], w[8], w[9] >>
      BY <3>2
    <3> QED BY <3>3, <3>4, <3>5 DEF w
  <2>5. HeaderPlace(todo, 0)
    BY <2>1, <2>3, <2>4, Zenon DEF HeaderPlace
  <2> QED BY <1>1, <2>1, <2>2, <2>5 DEF HeaderReader
<1> QED BY <1>1, <1>2, <1>3, <1>4 DEF ReaderInv

(* A field of the header is in the word, or the word is still to come.     *)
LEMMA HeaderField ==
  ASSUME OrdinaryStreams, ReaderInv, decodeHeaderField
  PROVE  /\ ReaderInv'
         /\ Head(todo) \in 1 .. 64 /\ ReadsNext(Rounded(Head(todo)))
<1>1. status = "header" /\ todo # << >> /\ readBits64(Head(todo)) /\ todo' = Tail(todo)
      /\ UNCHANGED << Stream, kind >>
  BY DEF decodeHeaderField
<1>2. /\ Stream \in Sizes /\ Stream > 8 /\ kind = "bit" /\ HeaderPlace(todo, pos)
      /\ IF pos = 0 THEN reader = Fresh
         ELSE reader.ByteOffset = 8 /\ reader.InStore = 64 - pos
  BY <1>1 DEF ReaderInv, HeaderReader
<1>3. PICK m \in 1 .. 8 : m = Head(todo) /\ HeaderPlace(Tail(todo), pos + m)
  BY <1>1, <1>2, HeaderWalk
<1>4. pos \in 0 .. 40 /\ pos + m \in 1 .. 40 /\ Stream \in Nat
  <2>1. pos \in 0 .. 40 /\ pos + m \in 0 .. 40
    BY <1>2, <1>3, HeaderEnds
  <2>2. Stream \in Nat
    BY <1>2, StreamSize
  <2> QED BY <2>1, <2>2
<1>5. Rounded(m) = m /\ m \in 1 .. 64
  BY <1>2 DEF Rounded
<1>6. readFullBits64(m) \/ readPartialBits64(m)
  BY <1>1, <1>3, <1>5 DEF readBits64
<1>7. Fresh.InStore = 0 /\ Fresh.ByteOffset = 0
  BY <1>2, FreshAt
<1>8. ReadFits(m) /\ LeftFits(m) /\ pos + m <= Stream * 8
  <2>1. pos + m <= Stream * 8
    BY <1>2, <1>4
  <2>2. ~ (reader.InStore < m) \/ reader.InStore = 0
    BY <1>2, <1>4, <1>7
  <2>3. LeftFits(m)
    <3>1. CASE reader.InStore = 0
      <4>1. MakeByteCount(0) = 0
        BY <1>2, StreamSize DEF MakeByteCount
      <4>2. 0 + (Stream % 8) <= 8
        BY <1>4
      <4> QED BY <3>1, <4>1, <4>2 DEF LeftFits
    <3> QED BY <2>2, <3>1 DEF LeftFits
  <2> QED BY <2>1, <2>3 DEF ReadFits
<1>9. /\ ReaderAt(reader', pos') /\ ReadsNext(m) /\ status' \in {status, "failed"}
      /\ pos' = pos + m
      /\ \/ m <= reader.InStore /\ reader' = Shift(reader, m)
         \/ /\ m > reader.InStore /\ MoreToLoad(reader, pos)
            /\ reader' = Shift(fillStore(reader), m - reader.InStore)
  <2>1. kind # "byte"
    BY <1>2
  <2>2. CASE readFullBits64(m)
    BY <2>1, <2>2, <1>5, FullRead
  <2>3. CASE readPartialBits64(m)
    BY <2>1, <2>3, <1>5, <1>8, PartialRead
  <2> QED BY <1>6, <2>2, <2>3
<1>10. reader'.ByteOffset = 8 /\ reader'.InStore = 64 - pos'
  <2>0. ReaderAt(reader, pos)
    BY DEF ReaderInv
  <2>1. CASE m <= reader.InStore /\ reader' = Shift(reader, m)
    <3>1. reader.InStore \in 0 .. 64
      BY <2>0 DEF ReaderAt, ReaderType
    <3>2. m \in 0 .. reader.InStore /\ pos # 0
      BY <2>1, <3>1, <1>2, <1>7
    <3>3. reader'.InStore = reader.InStore - m /\ reader'.ByteOffset = reader.ByteOffset
      BY <2>0, <2>1, <3>2, <1>2, ShiftAt
    <3> QED BY <3>2, <3>3, <1>2, <1>4, <1>9
  <2>2. CASE /\ m > reader.InStore /\ MoreToLoad(reader, pos)
             /\ reader' = Shift(fillStore(reader), m - reader.InStore)
    <3>1. reader = Fresh /\ pos = 0 /\ reader.InStore = 0 /\ m - reader.InStore = m
      BY <2>2, <1>2, <1>4, <1>7
    <3>2. PICK next : next = fillStore(reader)
      OBVIOUS
    <3>3. ReaderAt(next, 0) /\ next.InStore = 64 /\ next.ByteOffset = 8
      <4>1. /\ ReaderAt(next, pos + reader.InStore)
            /\ next.InStore = IF Stream >= reader.ByteOffset + 8 THEN 64
                              ELSE (Stream - reader.ByteOffset) * 8
            /\ Stream > reader.ByteOffset + 8 => next.ByteOffset = reader.ByteOffset + 8
        BY <2>0, <2>2, <3>1, <3>2, <1>2, FillAt
      <4>2. reader.ByteOffset = 0 /\ pos + reader.InStore = 0
        BY <3>1, <1>7
      <4> QED BY <4>1, <4>2, <1>2, <1>4
    <3>4. m \in 0 .. next.InStore
      BY <3>3
    <3>5. Shift(next, m).InStore = 64 - m /\ Shift(next, m).ByteOffset = 8
      BY <3>3, <3>4, <1>2, ShiftAt
    <3> QED BY <2>2, <3>1, <3>2, <3>5, <1>9
  <2> QED BY <1>9, <2>1, <2>2
<1>11. HeaderReader'
  <2>1. HeaderPlace(todo', pos') /\ pos' # 0 /\ Stream' > 8 /\ kind' = "bit"
    BY <1>1, <1>2, <1>3, <1>4, <1>9
  <2> QED BY <2>1, <1>10 DEF HeaderReader
<1>12. ReaderInv'
  BY <1>1, <1>2, <1>9, <1>11, SameStream DEF ReaderInv
<1> QED BY <1>3, <1>5, <1>9, <1>12

(* A field of the body.                                                    *)
LEMMA BodyField ==
  ASSUME OrdinaryStreams, ReaderInv, NEW n \in Widths, decodeBodyField(n)
  PROVE  ReaderInv' /\ ReadsNext(Rounded(n))
<1>1. /\ status = "body" /\ readBits64(n) /\ UNCHANGED << Stream, kind, todo >>
      /\ Stream \notin Truncated => pos + Rounded(n) <= Stream * 8
  BY StreamSize DEF decodeBodyField, ReaderInv
<1>2. /\ Stream \in Sizes /\ kind \in {"bit", "byte"} /\ ReaderAt(reader, pos)
      /\ kind = "byte" => reader.InStore % 8 = 0
  BY DEF ReaderInv
<1>3. /\ Stream \in Nat /\ ByteBits = 8 /\ WordBytes = 8 /\ n \in 1 .. 63
      /\ reader.InStore \in 0 .. 64
  BY <1>2, StreamSize DEF ReaderAt, ReaderType
<1>4. PICK m \in 1 .. 64 : m = Rounded(n) /\ (kind = "byte" => m % 8 = 0)
  <2>1. ((n + 7) \div 8) * 8 \in 1 .. 64 /\ (((n + 7) \div 8) * 8) % 8 = 0
    BY <1>3
  <2> QED BY <2>1, <1>2, <1>3 DEF Rounded, MakeByteCount
<1>5. ReadFits(m)
  <2>1. Stream \in Truncated => Stream < 8 \/ Stream % 8 = 0
    BY <1>3 DEF OrdinaryStreams
  <2> QED BY <2>1, <1>1, <1>4 DEF ReadFits
<1>6. LeftFits(m)
  <2> SUFFICES ASSUME Stream > 8, reader.InStore < m
               PROVE  MakeByteCount(reader.InStore) + (Stream % 8) <= 8
    BY DEF LeftFits
  <2>1. MakeByteCount(n - 1) + (Stream % 8) <= 8
    BY <1>2, <1>3 DEF OrdinaryStreams
  <2>2. PICK L \in 0 .. 64 : L = reader.InStore /\ L < m
    BY <1>3
  <2>3. (L + 7) \div 8 <= ((n - 1) + 7) \div 8
    <3>1. CASE kind = "bit"
      <4>1. m = n
        BY <3>1, <1>4 DEF Rounded
      <4> QED BY <4>1, <2>2, <1>3
    <3>2. CASE kind = "byte"
      <4>1. m = ((n + 7) \div 8) * 8
        BY <3>2, <1>3, <1>4 DEF Rounded, MakeByteCount
      <4>2. L % 8 = 0
        BY <3>2, <2>2, <1>2
      <4>3. PICK d \in Nat : d = (n + 7) \div 8 /\ n + 7 >= 8 * d
        BY <1>3
      <4>4. PICK e \in Nat : L = 8 * e /\ e = L \div 8
        BY <4>2
      <4>5. e + 1 <= d
        BY <4>1, <4>3, <4>4, <2>2
      <4>6. (L + 7) \div 8 = e
        BY <4>4
      <4>7. (n - 1) + 7 >= 8 * e + 7 /\ (n - 1) + 7 \in Nat
        BY <4>3, <4>5, <1>3
      <4>8. ((n - 1) + 7) \div 8 >= e
        BY <4>7
      <4> QED BY <4>6, <4>8
    <3> QED BY <1>2, <3>1, <3>2
  <2>4. /\ MakeByteCount(L) = (L + 7) \div 8
        /\ MakeByteCount(n - 1) = ((n - 1) + 7) \div 8
    BY <1>3 DEF MakeByteCount
  <2>5. (L + 7) \div 8 \in Nat /\ ((n - 1) + 7) \div 8 \in Nat /\ Stream % 8 \in Nat
    BY <1>3
  <2> QED BY <2>1, <2>2, <2>3, <2>4, <2>5
<1>7. /\ ReaderAt(reader', pos') /\ ReadsNext(m) /\ status' \in {status, "failed"}
      /\ kind = "byte" => reader'.InStore % 8 = 0
  <2>1. readFullBits64(m) \/ readPartialBits64(m)
    BY <1>1, <1>4 DEF readBits64
  <2>2. CASE readFullBits64(m)
    BY <2>2, <1>4, FullRead
  <2>3. CASE readPartialBits64(m)
    BY <2>3, <1>4, <1>5, <1>6, PartialRead
  <2> QED BY <2>1, <2>2, <2>3
<1>8. HeaderReader'
  BY <1>1, <1>7 DEF HeaderReader
<1>9. ReaderInv'
  BY <1>1, <1>2, <1>7, <1>8, SameStream DEF ReaderInv
<1> QED BY <1>4, <1>7, <1>9

(* The reader of the body takes over where the header ends.                *)
LEMMA HeaderDone ==
  ASSUME OrdinaryStreams, ReaderInv, NEW k \in {"bit", "byte"}, decodeHeader(k)
  PROVE  ReaderInv' /\ UNCHANGED << Stream, pos, want, got >>
<1>1. /\ status = "header" /\ todo = << >>
      /\ setProxy(getProxy(IF k = "bit" THEN reader ELSE align(reader)), k)
      /\ kind' = k /\ UNCHANGED << Stream, todo, pos, want, got >>
  BY DEF decodeHeader
<1>2. /\ Stream \in Sizes /\ Stream > 8 /\ HeaderPlace(todo, pos) /\ ReaderAt(reader, pos)
      /\ IF pos = 0 THEN reader = Fresh
         ELSE reader.ByteOffset = 8 /\ reader.InStore = 64 - pos
  BY <1>1 DEF ReaderInv, HeaderReader
<1>3. /\ Stream \in Nat /\ ByteBits = 8 /\ WordBytes = 8 /\ WordBits = 64
      /\ pos \in {8, 40} /\ reader.ByteOffset = 8 /\ reader.InStore = 64 - pos
  BY <1>1, <1>2, HeaderEnds, StreamSize
<1>4. getProxy(IF k = "bit" THEN reader ELSE align(reader)) = pos
  <2>1. getProxy(reader) = pos
    BY <1>3 DEF getProxy
  <2>2. getProxy(align(reader)) = pos
    <3>1. reader.InStore % 8 = 0 /\ 0 \in 0 .. reader.InStore
      BY <1>3
    <3>2. align(reader) = Shift(reader, 0)
      BY <1>3, <3>1 DEF align
    <3>3. /\ Shift(reader, 0).InStore = reader.InStore - 0
          /\ Shift(reader, 0).ByteOffset = reader.ByteOffset
      BY <1>2, <3>1, ShiftAt
    <3> QED BY <1>3, <3>2, <3>3 DEF getProxy
  <2> QED BY <2>1, <2>2
<1>5. PICK offset \in {1, 5} : offset = MakeByteCount(pos) /\ pos = offset * 8
  BY <1>3 DEF MakeByteCount
<1>6. offset - (offset % WordBytes) = 0 /\ offset % WordBytes = offset /\ pos % WordBits = pos
  BY <1>3, <1>5
<1>7. PICK f : f = [Fresh EXCEPT !.ByteOffset = 0]
  OBVIOUS
<1>8. f = Fresh
  <2>1. Fresh = [ByteOffset |-> 0, Store |-> Fresh.Store, InStore |-> 0]
    BY <1>2, FreshAt
  <2> QED BY <2>1, <1>7
<1>9. PICK r : r = fillStore(Fresh)
  OBVIOUS
<1>10. ReaderAt(r, 0) /\ r.InStore = 64
  <2>1. ReaderAt(Fresh, 0) /\ MoreToLoad(Fresh, 0) /\ Fresh.InStore = 0 /\ Fresh.ByteOffset = 0
    BY <1>2, <1>3, FreshAt
  <2>2. /\ ReaderAt(r, 0 + Fresh.InStore)
        /\ r.InStore = IF Stream >= Fresh.ByteOffset + 8 THEN 64
                       ELSE (Stream - Fresh.ByteOffset) * 8
    BY <1>2, <1>9, <2>1, FillAt
  <2> QED BY <2>1, <2>2, <1>2, <1>3
<1>11. reader' = Shift(r, pos) /\ status' = "body"
  <2>1. (IF k = "bit" THEN pos % WordBits ELSE (offset % WordBytes) * ByteBits) = pos
    BY <1>3, <1>5, <1>6
  <2>2. ~ (0 >= Stream) /\ ~ (pos > r.InStore)
    BY <1>2, <1>3, <1>10
  <2>3. setProxy(pos, k)
    BY <1>1, <1>4
  <2> QED
    BY <2>1, <2>2, <2>3, <1>5, <1>6, <1>7, <1>8, <1>9, Zenon DEF setProxy
<1>12. ReaderAt(reader', pos) /\ reader'.InStore = 64 - pos
  <2>1. pos \in 0 .. r.InStore /\ 0 + pos = pos
    BY <1>3, <1>10
  <2>2. ReaderAt(Shift(r, pos), 0 + pos) /\ Shift(r, pos).InStore = r.InStore - pos
    BY <1>2, <1>10, <2>1, ShiftAt
  <2> QED BY <2>1, <2>2, <1>10, <1>11
<1>13. reader'.InStore % 8 = 0
  BY <1>3, <1>12
<1>14. HeaderReader'
  BY <1>11 DEF HeaderReader
<1>15. ReaderAt(reader, pos)'
  BY <1>1, <1>12, SameStream
<1> QED BY <1>1, <1>2, <1>11, <1>13, <1>14, <1>15 DEF ReaderInv

(* The readers keep their place in the stream.                             *)
LEMMA ReaderNext ==
  ASSUME OrdinaryStreams, ReaderInv, [Next]_readerVars
  PROVE  ReaderInv' /\ [Cursor!Next]_(Cursor!cursorVars)
<1>0. OrderedReaderAssumption
  BY OrderedReaderAssumption
<1>1. ASSUME NEW n \in 1 .. 64, ReadsNext(Rounded(n)), want' = n,
             UNCHANGED << Stream, kind >>
      PROVE  Cursor!Next
  <2>1. WordBits = 64 /\ ByteBits = 8 /\ kind \in {"bit", "byte"}
    BY StreamSize DEF ReaderInv
  <2>2. PICK m : m = Rounded(n)
    OBVIOUS
  <2>3. Cursor!Units(n) * (IF kind = "bit" THEN 1 ELSE ByteBits) = m
    <3>1. CASE kind = "bit"
      <4>1. ((n + 1 - 1) \div 1) * 1 = n
        OBVIOUS
      <4> QED BY <3>1, <4>1, <2>2 DEF Rounded, Cursor!Units
    <3>2. CASE kind # "bit"
      BY <3>2, <2>1, <2>2 DEF Rounded, MakeByteCount, Cursor!Units
    <3> QED BY <3>1, <3>2
  <2>4. Cursor!Read(n)
    <3>1. UNCHANGED << Stream * ByteBits, IF kind = "bit" THEN 1 ELSE ByteBits >>
      BY <1>1
    <3>2. Stream * 8 = Stream * ByteBits
      BY <2>1
    <3>3. Cursor!Bits(pos, m) = [ok |-> TRUE, bits |-> BitsFrom(pos, m)]
      BY DEF BitsFrom, Cursor!Bits
    <3>4. Cursor!OOB = [ok |-> FALSE, bits |-> << >>]
      BY DEF Cursor!OOB
    <3>5. ReadsNext(m)
      BY <1>1, <2>2
    <3> QED BY <1>1, <2>3, <3>1, <3>2, <3>3, <3>4, <3>5, Zenon DEF ReadsNext, Cursor!Read
  <2> QED BY <2>1, <2>4 DEF Cursor!Next
<1>2. CASE decodeHeaderField
  <2>1. ReaderInv' /\ Head(todo) \in 1 .. 64 /\ ReadsNext(Rounded(Head(todo)))
    BY <1>2, HeaderField
  <2>2. want' = Head(todo) /\ UNCHANGED << Stream, kind >>
    BY <1>2 DEF decodeHeaderField, readBits64
  <2> QED BY <1>1, <2>1, <2>2
<1>3. CASE \E k \in {"bit", "byte"} : decodeHeader(k)
  <2>1. ReaderInv' /\ UNCHANGED << Stream, pos, want, got >>
    BY <1>3, HeaderDone
  <2>2. ByteBits = 8
    BY StreamSize DEF ReaderInv
  <2>3. Cursor!Handover
    BY <2>1, <2>2 DEF Cursor!Handover
  <2> QED BY <2>1, <2>3 DEF Cursor!Next
<1>4. CASE \E n \in Widths : decodeBodyField(n)
  <2>1. PICK n \in Widths : decodeBodyField(n)
    BY <1>4
  <2>2. ReaderInv' /\ ReadsNext(Rounded(n))
    BY <2>1, BodyField
  <2>3. want' = n /\ UNCHANGED << Stream, kind >>
    BY <2>1 DEF decodeBodyField, readBits64
  <2>4. n \in 1 .. 64
    BY StreamSize DEF ReaderInv
  <2> QED BY <1>1, <2>2, <2>3, <2>4
<1>5. CASE decodeBodyEnds
  <2>1. status' = "OK" /\ UNCHANGED << Stream, kind, reader, todo, pos, want, got >>
    BY <1>5 DEF decodeBodyEnds
  <2>2. ReaderInv'
    BY <2>1 DEF ReaderInv, HeaderReader, ReaderAt, MoreToLoad, AllLoaded
  <2>3. UNCHANGED Cursor!cursorVars
    BY <2>1 DEF Cursor!cursorVars
  <2> QED BY <2>2, <2>3
<1>6. CASE UNCHANGED readerVars
  <2>1. UNCHANGED << Stream, kind, reader, todo, status, pos, want, got >>
    BY <1>6 DEF readerVars
  <2>2. ReaderInv'
    BY <2>1 DEF ReaderInv, HeaderReader, ReaderAt, MoreToLoad, AllLoaded
  <2>3. UNCHANGED Cursor!cursorVars
    BY <2>1 DEF Cursor!cursorVars
  <2> QED BY <2>2, <2>3
<1> QED BY <1>2, <1>3, <1>4, <1>5, <1>6 DEF Next

(* A reader always knows where it is: what it holds is the stream from the *)
(* bits it has read on, and it loads the next word where that ends.  The   *)
(* reader of the body always takes over from that of the header (there is  *)
(* no trap).                                                               *)
THEOREM ReadersKeepPlace == ASSUME OrdinaryStreams PROVE Spec => []ReaderInv
<1>1. Init => ReaderInv
  BY ReaderInit
<1>2. ReaderInv /\ [Next]_readerVars => ReaderInv'
  BY ReaderNext
<1> QED BY <1>1, <1>2, PTL DEF Spec

(* The comment on BitsInStore holds of every stream: so many bits of Store *)
(* are the next ones of the stream, through refills, a partial last word   *)
(* and the change of readers.                                              *)
THEOREM StoresHoldStream ==
  ASSUME OrdinaryStreams PROVE Spec => []StoreHoldsStream
<1>1. ReaderInv => StoreHoldsStream
  BY DEF ReaderInv, ReaderAt, HoldsFrom, StoreHoldsStream
<1> QED BY <1>1, ReadersKeepPlace, PTL

(* The readers implement a cursor on the bits of the stream: each read     *)
(* returns exactly the next bits, of the width it was asked for, and fails *)
(* exactly when the stream has not so many left.                           *)
THEOREM ReadersImplementCursor ==
  ASSUME OrdinaryStreams PROVE Spec => ImplementsCursor
<1>1. Init => Cursor!Init
  <2> SUFFICES ASSUME Init PROVE Cursor!Init
    OBVIOUS
  <2>1. Stream \in Nat /\ ByteBits = 8
    BY ReaderInit, StreamSize DEF ReaderInv
  <2>2. [i \in 1 .. 0 |-> {0 + i}] = << >>
    OBVIOUS
  <2>3. (IF kind = "bit" THEN 1 ELSE ByteBits) \in Nat \ {0}
    BY <2>1
  <2> QED BY <2>1, <2>2, <2>3 DEF Init, Cursor!Init, Cursor!Bits
<1>2. ReaderInv /\ [Next]_readerVars => [Cursor!Next]_(Cursor!cursorVars)
  BY ReaderNext
<1>3. Spec => Cursor!Spec
  BY <1>1, <1>2, ReadersKeepPlace, PTL DEF Spec, Cursor!Spec
<1> QED BY <1>3 DEF ImplementsCursor

(***************************************************************************)
(*                             The hash map                                *)
(***************************************************************************)

(***************************************************************************)
(* Numbers: remainders, and what powers of two divide.                     *)
(***************************************************************************)

(* Quotient and remainder.                                                 *)
LEMMA DivMod ==
  ASSUME NEW x \in Nat, NEW n \in Nat \ {0}
  PROVE  /\ x \div n \in Nat /\ x % n \in 0 .. n - 1
         /\ x = n * (x \div n) + (x % n)
OBVIOUS

(* There is one remainder only.                                            *)
LEMMA ModUnique ==
  ASSUME NEW n \in Nat \ {0}, NEW q \in Nat, NEW r \in 0 .. n - 1, NEW x \in Nat, x = n * q + r
  PROVE  x % n = r
<1>1. PICK p \in Nat : p = x \div n
  BY DivMod
<1>2. PICK s \in 0 .. n - 1 : s = x % n
  BY DivMod
<1>3. n * p + s = n * q + r
  BY <1>1, <1>2, DivMod
<1>4. ~ (p < q)
  <2> SUFFICES ASSUME p < q PROVE FALSE
    OBVIOUS
  <2>1. PICK d \in Nat \ {0} : q = p + d
    <3>1. q - p \in Nat \ {0} /\ q = p + (q - p)
      OBVIOUS
    <3> QED BY <3>1
  <2>2. n * q = n * p + n * d
    BY <2>1
  <2>3. n * d >= n
    BY <2>1
  <2>4. n * p \in Nat /\ n * q \in Nat /\ n * d \in Nat
    BY <2>1
  <2> QED BY <1>3, <2>2, <2>3, <2>4
<1>5. ~ (q < p)
  <2> SUFFICES ASSUME q < p PROVE FALSE
    OBVIOUS
  <2>1. PICK d \in Nat \ {0} : p = q + d
    <3>1. p - q \in Nat \ {0} /\ p = q + (p - q)
      OBVIOUS
    <3> QED BY <3>1
  <2>2. n * p = n * q + n * d
    BY <2>1
  <2>3. n * d >= n
    BY <2>1
  <2>4. n * p \in Nat /\ n * q \in Nat /\ n * d \in Nat
    BY <2>1
  <2> QED BY <1>3, <2>2, <2>3, <2>4
<1>6. p = q
  BY <1>4, <1>5
<1>7. n * p \in Nat
  OBVIOUS
<1> QED BY <1>2, <1>3, <1>6, <1>7

(* The parts of a division.                                                *)
LEMMA Division ==
  ASSUME NEW x \in Nat, NEW n \in Nat \ {0}
  PROVE  \E q \in Nat, r \in 0 .. n - 1 : r = x % n /\ x = n * q + r
<1>1. PICK q \in Nat : q = x \div n
  BY DivMod
<1>2. PICK r \in 0 .. n - 1 : r = x % n
  BY DivMod
<1>3. x = n * q + r
  BY <1>1, <1>2, DivMod
<1> QED BY <1>2, <1>3

(* Multiples add up.                                                       *)
LEMMA Multiples ==
  ASSUME NEW n \in Nat, NEW p \in Nat, NEW q \in Nat
  PROVE  n * p \in Nat /\ n * (p + q) = n * p + n * q /\ p + q \in Nat
OBVIOUS

(* The numbers with one remainder are apart by multiples.                  *)
LEMMA SameRemainder ==
  ASSUME NEW n \in Nat \ {0}, NEW x \in Nat, NEW y \in Nat, x <= y, x % n = y % n
  PROVE  \E q \in Nat : y = x + n * q
<1>1. PICK p \in Nat, s \in 0 .. n - 1 : s = x % n /\ x = n * p + s
  BY Division
<1>2. PICK u \in Nat, t \in 0 .. n - 1 : t = y % n /\ y = n * u + t
  BY Division
<1>3. s = t
  BY <1>1, <1>2
<1>4. CASE u < p
  <2>1. PICK d \in Nat \ {0} : p = u + d
    <3>1. p - u \in Nat \ {0} /\ p = u + (p - u)
      BY <1>4
    <3> QED BY <3>1
  <2>2. n * p = n * u + n * d /\ n * d >= n /\ n * u \in Nat /\ n * d \in Nat
    BY <2>1
  <2> QED BY <1>1, <1>2, <1>3, <2>2
<1>5. CASE p <= u
  <2>1. PICK q \in Nat : u = p + q
    <3>1. u - p \in Nat /\ u = p + (u - p)
      BY <1>5
    <3> QED BY <3>1
  <2>2. n * u = n * p + n * q
    BY <2>1, Multiples
  <2>3. PICK P \in Nat, Q \in Nat : P = n * p /\ Q = n * q
    BY Multiples
  <2>4. y = x + Q
    BY <1>1, <1>2, <1>3, <2>2, <2>3
  <2> QED BY <2>3, <2>4
<1> QED BY <1>4, <1>5

(* A multiple more leaves the remainder.                                   *)
LEMMA ModPlusMultiple ==
  ASSUME NEW n \in Nat \ {0}, NEW a \in Nat, NEW q \in Nat
  PROVE  (a + n * q) % n = a % n
<1>1. PICK p \in Nat, s \in 0 .. n - 1 : s = a % n /\ a = n * p + s
  BY Division
<1>2. n * (p + q) = n * p + n * q /\ p + q \in Nat
  BY Multiples
<1>3. PICK P \in Nat, Q \in Nat : P = n * p /\ Q = n * q
  BY Multiples
<1>4. PICK x \in Nat : x = a + n * q
  BY <1>3
<1>5. x = n * (p + q) + s
  BY <1>1, <1>2, <1>3, <1>4
<1>6. x % n = s
  BY <1>2, <1>5, ModUnique
<1> QED BY <1>1, <1>4, <1>6

(* Remainders of sums.                                                     *)
LEMMA ModSum ==
  ASSUME NEW n \in Nat \ {0}, NEW a \in Nat, NEW b \in Nat
  PROVE  ((a % n) + b) % n = (a + b) % n
<1>1. PICK p \in Nat, s \in 0 .. n - 1 : s = a % n /\ a = n * p + s
  BY Division
<1>2. PICK P \in Nat : P = n * p
  BY Multiples
<1>3. a + b = (s + b) + P /\ s + b \in Nat
  BY <1>1, <1>2
<1>4. ((s + b) + n * p) % n = (s + b) % n
  BY <1>3, ModPlusMultiple
<1> QED BY <1>1, <1>2, <1>3, <1>4

(* If a power of two divides a product of which one factor is odd, it      *)
(* divides the other.                                                      *)
LEMMA OddFactor ==
  ASSUME NEW a \in Nat
  PROVE  \A k \in Nat : \A b, c \in Nat :
           (2 * a + 1) * b = Pow2[k] * c => \E d \in Nat : b = Pow2[k] * d
<1> DEFINE S == {k \in Nat : \A b, c \in Nat :
                   (2 * a + 1) * b = Pow2[k] * c => \E d \in Nat : b = Pow2[k] * d}
<1>1. 0 \in S
  <2>1. Pow2[0] = 1
    BY Pow2Value
  <2>2. \A b \in Nat : b = Pow2[0] * b
    BY <2>1
  <2> QED BY <2>2
<1>2. ASSUME NEW k \in Nat, k \in S PROVE k + 1 \in S
  <2> SUFFICES ASSUME NEW b \in Nat, NEW c \in Nat, (2 * a + 1) * b = Pow2[k + 1] * c
               PROVE  \E d \in Nat : b = Pow2[k + 1] * d
    OBVIOUS
  <2>1. PICK n \in Nat : n = Pow2[k] /\ Pow2[k + 1] = 2 * n /\ n # 0
    BY Pow2Value
  <2>2. (2 * n) * c = n * (2 * c) /\ 2 * c \in Nat
    OBVIOUS
  <2>3. (2 * a + 1) * b = Pow2[k] * (2 * c)
    BY <2>1, <2>2
  <2>4. PICK d \in Nat : b = n * d
    BY <1>2, <2>1, <2>2, <2>3
  <2>5. (2 * a + 1) * d = 2 * c
    <3>1. (2 * a + 1) * (n * d) = n * ((2 * a + 1) * d)
      OBVIOUS
    <3>2. PICK x \in Nat, y \in Nat : x = (2 * a + 1) * d /\ y = 2 * c
      OBVIOUS
    <3>3. n * x = n * y
      BY <2>1, <2>2, <2>3, <2>4, <3>1, <3>2
    <3>4. x = y
      BY <3>3, <2>1
    <3> QED BY <3>2, <3>4
  <2>6. PICK x \in Nat : x = a * d
    OBVIOUS
  <2>7. 2 * x + d = 2 * c
    BY <2>5, <2>6
  <2>8. PICK e \in Nat : d = 2 * e
    <3>1. c - x \in Nat /\ d = 2 * (c - x)
      BY <2>7
    <3> QED BY <3>1
  <2>9. b = (2 * n) * e
    BY <2>4, <2>8
  <2> QED BY <2>1, <2>9
<1>3. Nat \subseteq S
  <2> HIDE DEF S
  <2> QED BY <1>1, <1>2, Induction
<1> QED BY <1>3

(* Two neighbours make an even product.                                    *)
LEMMA EvenProduct ==
  ASSUME NEW i \in Nat
  PROVE  \E t \in Nat : i * (i + 1) = 2 * t /\ t = (i * (i + 1)) \div 2
<1>1. PICK h \in Nat : i = 2 * h \/ i = 2 * h + 1
  <2>1. i \div 2 \in Nat /\ (i = 2 * (i \div 2) \/ i = 2 * (i \div 2) + 1)
    OBVIOUS
  <2> QED BY <2>1
<1>2. PICK t \in Nat : i * (i + 1) = 2 * t
  <2>1. CASE i = 2 * h
    <3>1. i * (i + 1) = 2 * (h * (i + 1)) /\ h * (i + 1) \in Nat
      BY <2>1
    <3> QED BY <3>1
  <2>2. CASE i = 2 * h + 1
    <3>1. i + 1 = 2 * (h + 1)
      BY <2>2
    <3>2. i * (i + 1) = 2 * (i * (h + 1)) /\ i * (h + 1) \in Nat
      BY <3>1
    <3> QED BY <3>2
  <2> QED BY <1>1, <2>1, <2>2
<1>3. t = (i * (i + 1)) \div 2
  <2>1. PICK x \in Nat : x = i * (i + 1)
    OBVIOUS
  <2>2. x = 2 * t
    BY <1>2, <2>1
  <2>3. x \div 2 = t
    BY <2>2
  <2> QED BY <2>1, <2>3
<1> QED BY <1>2, <1>3

-----------------------------------------------------------------------------
(***************************************************************************)
(* The probe: in a table of a power of two it comes to every bucket.       *)
(***************************************************************************)

(* The i-th triangular number.                                             *)
Tri(i) == (i * (i + 1)) \div 2

(* Each is so much larger than the one before.                             *)
LEMMA TriStep ==
  ASSUME NEW i \in Nat
  PROVE  /\ Tri(i) \in Nat
         /\ 2 * Tri(i) = i * (i + 1)
         /\ Tri(i + 1) = Tri(i) + (i + 1)
<1>1. PICK t \in Nat : i * (i + 1) = 2 * t /\ t = Tri(i)
  BY EvenProduct DEF Tri
<1>2. i + 1 \in Nat
  OBVIOUS
<1>3. PICK u \in Nat : (i + 1) * ((i + 1) + 1) = 2 * u /\ u = Tri(i + 1)
  BY <1>2, EvenProduct DEF Tri
<1>4. PICK x \in Nat : x = i * (i + 1)
  OBVIOUS
<1>5. (i + 1) * ((i + 1) + 1) = x + 2 * (i + 1)
  BY <1>4
<1>6. u = t + (i + 1)
  BY <1>1, <1>3, <1>4, <1>5
<1> QED BY <1>1, <1>3, <1>6

(* How far two of them are apart.                                          *)
LEMMA TriDifference ==
  ASSUME NEW i \in Nat, NEW d \in Nat, NEW t \in Nat, Tri(i + d) = Tri(i) + t
  PROVE  d * (2 * i + d + 1) = 2 * t
<1>1. 2 * Tri(i) = i * (i + 1) /\ Tri(i) \in Nat
  BY TriStep
<1>2. 2 * Tri(i + d) = (i + d) * ((i + d) + 1)
  <2>1. i + d \in Nat
    OBVIOUS
  <2> QED BY <2>1, TriStep
<1>3. PICK x \in Nat, y \in Nat : x = i * (i + 1) /\ y = d * (2 * i + d + 1)
  OBVIOUS
<1>4. (i + d) * ((i + d) + 1) = x + y
  BY <1>3
<1> QED BY <1>1, <1>2, <1>3, <1>4

(* A positive multiple of a number is not less.                            *)
LEMMA NotLess ==
  ASSUME NEW n \in Nat, NEW d \in Nat, NEW x \in Nat \ {0}, x = n * d
  PROVE  x >= n
<1>1. CASE d = 0
  BY <1>1
<1>2. CASE d # 0
  <2>1. PICK e \in Nat : d = e + 1
    <3>1. d - 1 \in Nat /\ d = (d - 1) + 1
      BY <1>2
    <3> QED BY <3>1
  <2>2. n * d = n * e + n /\ n * e \in Nat
    BY <2>1
  <2> QED BY <2>2
<1> QED BY <1>1, <1>2

(* So no two steps of a probe that is not longer than the table come to    *)
(* the same bucket: of d and 2i + d + 1 one is odd, and the other would    *)
(* have to be a multiple of twice the size.                                *)
LEMMA ProbeInjective ==
  ASSUME NEW m \in Nat, NEW n \in Nat, n = Pow2[m], NEW h \in Nat,
         NEW i \in 0 .. n - 1, NEW j \in 0 .. n - 1, i < j
  PROVE  (h + Tri(i)) % n # (h + Tri(j)) % n
<1> SUFFICES ASSUME (h + Tri(i)) % n = (h + Tri(j)) % n PROVE FALSE
  OBVIOUS
<1>1. n # 0 /\ Pow2[m + 1] = 2 * n /\ m + 1 \in Nat
  BY Pow2Value
<1>2. PICK d \in Nat \ {0} : j = i + d /\ d < n /\ i \in Nat /\ 2 * i + d + 1 < 2 * n
  <2>1. j - i \in Nat \ {0} /\ j = i + (j - i) /\ j - i < n /\ i \in Nat
        /\ 2 * i + (j - i) + 1 < 2 * n
    OBVIOUS
  <2> QED BY <2>1
<1>3. PICK s \in Nat, t \in Nat, z \in Nat : s = Tri(i) /\ t = Tri(j) /\ t = s + z
  <2>1. Tri(i) \in Nat /\ Tri(j) \in Nat /\ 2 * Tri(i) = i * (i + 1) /\ 2 * Tri(j) = j * (j + 1)
    <3>1. j \in Nat
      OBVIOUS
    <3> QED BY <1>2, <3>1, TriStep
  <2>2. PICK x \in Nat, y \in Nat : x = i * (i + 1) /\ y = d * (2 * i + d + 1)
    BY <1>2
  <2>3. j * (j + 1) = x + y
    BY <1>2, <2>2
  <2>4. Tri(j) - Tri(i) \in Nat /\ Tri(j) = Tri(i) + (Tri(j) - Tri(i))
    BY <2>1, <2>2, <2>3
  <2> QED BY <2>1, <2>4
<1>4. PICK q \in Nat : h + t = (h + s) + n * q
  <2>1. PICK x \in Nat, y \in Nat : x = h + s /\ y = h + t /\ x <= y
    BY <1>3
  <2>2. x % n = y % n
    BY <1>3, <2>1
  <2>3. \E q \in Nat : y = x + n * q
    <3>1. n \in Nat \ {0} /\ x \in Nat /\ y \in Nat /\ x <= y
      BY <1>1, <2>1
    <3> QED BY ONLY <3>1, <2>2, SameRemainder, Zenon
  <2> QED BY <2>1, <2>3, Zenon
<1>5. z = n * q
  <2>1. PICK w \in Nat : w = n * q
    OBVIOUS
  <2> QED BY <1>3, <1>4, <2>1
<1>6. d * (2 * i + d + 1) = (2 * n) * q
  <2>1. d * (2 * i + d + 1) = 2 * z
    <3>1. Tri(i + d) = Tri(i) + z /\ d \in Nat
      BY <1>2, <1>3
    <3> QED BY <1>2, <3>1, TriDifference
  <2> QED BY <1>5, <2>1
<1>7. PICK a \in Nat : d = 2 * a \/ d = 2 * a + 1
  <2>1. d \div 2 \in Nat /\ (d = 2 * (d \div 2) \/ d = 2 * (d \div 2) + 1)
    OBVIOUS
  <2> QED BY <2>1
<1>8. CASE d = 2 * a + 1
  <2>0. PICK c \in Nat \ {0} : c = 2 * i + d + 1
    BY <1>2
  <2>1. (2 * a + 1) * c = Pow2[m + 1] * q
    BY <1>1, <1>6, <1>8, <2>0
  <2>2. PICK e \in Nat : c = Pow2[m + 1] * e
    <3>1. a \in Nat /\ c \in Nat /\ q \in Nat /\ m + 1 \in Nat
      BY <1>1
    <3>2. \A x, y \in Nat :
            (2 * a + 1) * x = Pow2[m + 1] * y => \E e \in Nat : x = Pow2[m + 1] * e
      BY <3>1, OddFactor
    <3> QED BY ONLY <3>1, <3>2, <2>1, Zenon
  <2>3. c >= 2 * n
    <3>1. PICK p \in Nat : p = 2 * n
      OBVIOUS
    <3> QED BY <1>1, <2>2, <3>1, NotLess
  <2> QED BY <1>2, <2>0, <2>3
<1>9. CASE d = 2 * a
  <2>1. PICK b \in Nat : b = i + a /\ 2 * i + d + 1 = 2 * b + 1
    <3>1. i + a \in Nat /\ 2 * i + d + 1 = 2 * (i + a) + 1
      BY <1>2, <1>9
    <3> QED BY <3>1
  <2>2. (2 * b + 1) * d = Pow2[m + 1] * q
    <3>1. (2 * b + 1) * d = d * (2 * b + 1)
      OBVIOUS
    <3> QED BY <1>1, <1>6, <2>1, <3>1
  <2>3. PICK e \in Nat : d = Pow2[m + 1] * e
    <3>1. b \in Nat /\ d \in Nat /\ q \in Nat /\ m + 1 \in Nat
      BY <1>1
    <3>2. \A x, y \in Nat :
            (2 * b + 1) * x = Pow2[m + 1] * y => \E e \in Nat : x = Pow2[m + 1] * e
      BY <3>1, OddFactor
    <3> QED BY ONLY <3>1, <3>2, <2>2, Zenon
  <2>4. d >= 2 * n
    <3>1. PICK p \in Nat : p = 2 * n
      OBVIOUS
    <3> QED BY <1>1, <2>3, <3>1, NotLess
  <2> QED BY <1>2, <2>4
<1> QED BY <1>7, <1>8, <1>9

(* As many steps as buckets, no two at the same: all are reached.          *)
LEMMA ProbeCovers ==
  ASSUME NEW m \in Nat, NEW n \in Nat, n = Pow2[m], NEW h \in Nat, NEW b \in 0 .. n - 1
  PROVE  \E i \in 0 .. n - 1 : (h + Tri(i)) % n = b
<1>1. n # 0
  BY Pow2Value
<1>2. PICK f : f = [i \in 0 .. n - 1 |-> (h + Tri(i)) % n]
  OBVIOUS
<1>3. \A i \in 0 .. n - 1 : f[i] = (h + Tri(i)) % n /\ f[i] \in 0 .. n - 1
  <2> SUFFICES ASSUME NEW i \in 0 .. n - 1 PROVE (h + Tri(i)) % n \in 0 .. n - 1
    BY <1>2
  <2>1. PICK x \in Nat : x = h + Tri(i)
    <3>1. i \in Nat
      OBVIOUS
    <3> QED BY <3>1, TriStep
  <2> QED BY <1>1, <2>1, DivMod
<1>4. f \in [0 .. n - 1 -> 0 .. n - 1]
  BY <1>2, <1>3
<1>5. ASSUME NEW i \in 0 .. n - 1, NEW j \in 0 .. n - 1, f[i] = f[j] PROVE i = j
  <2>1. ~ (i < j)
    BY <1>3, <1>5, ProbeInjective
  <2>2. ~ (j < i)
    BY <1>3, <1>5, ProbeInjective
  <2> QED BY <2>1, <2>2
<1>6. f \in Injection(0 .. n - 1, 0 .. n - 1)
  BY <1>4, <1>5 DEF Injection, IsInjective
<1>7. IsFiniteSet(0 .. n - 1)
  <2>1. 0 \in Int /\ n - 1 \in Int
    OBVIOUS
  <2> QED BY <2>1, FS_Interval
<1>8. f \in Surjection(0 .. n - 1, 0 .. n - 1)
  BY <1>6, <1>7, FS_Injection
<1> QED BY <1>3, <1>8 DEF Surjection

-----------------------------------------------------------------------------
(***************************************************************************)
(* Tables                                                                  *)
(***************************************************************************)

BucketType ==
  [key : MapKey \union {EmptyKey, TombstoneKey}, value : MapValue \union {NoMapValue}]

TableOf(n) == [0 .. n - 1 -> BucketType]

(* A power of two, and more than one.                                      *)
Sized(n) == \E m \in Nat \ {0} : n = Pow2[m]

(* The i-th bucket of the probe of k among n.                              *)
Spot(n, k, i) == (hash[k] + Tri(i)) % n

(* The probe of k does not end before its i-th bucket; it ends there.      *)
GoesOnTo(T, n, k, i) == \A j \in 0 .. i - 1 : T[Spot(n, k, j)].key \notin {k, EmptyKey}
EndsAt(T, n, k, i) ==
  /\ i \in 0 .. n - 1
  /\ T[Spot(n, k, i)].key \in {k, EmptyKey}
  /\ GoesOnTo(T, n, k, i)

Holds(T, n, b) == \E i \in 0 .. n - 1 : T[i] = b
HasKey(T, n, k) == \E i \in 0 .. n - 1 : T[i].key = k
(* Entries are where their probes end.                                     *)
Placed(T, n) ==
  \A i \in 0 .. n - 1 : IsEntry(T[i]) =>
    \E j \in Nat : EndsAt(T, n, T[i].key, j) /\ Spot(n, T[i].key, j) = i
OnlyEntriesHaveValues(T, n) ==
  \A i \in 0 .. n - 1 : T[i].value = NoMapValue <=> ~ IsEntry(T[i])

(* A table as the operations leave it.                                     *)
GoodTable(T, n) ==
  /\ Sized(n) /\ T \in TableOf(n)
  /\ OnlyEntriesHaveValues(T, n)
  /\ HasKey(T, n, EmptyKey)
  /\ Placed(T, n)

HashOK == hash \in [MapKey -> Nat]

(* The markers are no keys.                                                *)
LEMMA Markers ==
  EmptyKey # TombstoneKey /\ EmptyKey \notin MapKey /\ TombstoneKey \notin MapKey
BY DenseMapAssumption DEF EmptyKey, TombstoneKey

(* A size is more than one.                                                *)
LEMMA SizeIs ==
  ASSUME NEW n, Sized(n)
  PROVE  n \in Nat /\ n >= 2
<1>1. PICK m \in Nat \ {0} : n = Pow2[m]
  BY DEF Sized
<1>2. PICK l \in Nat : m = l + 1
  <2>1. m - 1 \in Nat /\ m = (m - 1) + 1
    OBVIOUS
  <2> QED BY <2>1
<1>3. Pow2[l] \in Nat \ {0} /\ Pow2[l + 1] = 2 * Pow2[l]
  BY Pow2Value
<1> QED BY <1>1, <1>2, <1>3

(* The number of its buckets.                                              *)
LEMMA TableSize ==
  ASSUME NEW n \in Nat, NEW T, DOMAIN T = 0 .. n - 1
  PROVE  NumBucketsOf(T) = n /\ IsFiniteSet(0 .. n - 1) /\ Cardinality(0 .. n - 1) = n
<1>1. 0 \in Int /\ n - 1 \in Int
  OBVIOUS
<1>2. IsFiniteSet(0 .. n - 1) /\ Cardinality(0 .. n - 1) = n
  BY <1>1, FS_Interval
<1> QED BY <1>2 DEF NumBucketsOf

(* The steps of a probe stay in the table.                                 *)
LEMMA SpotIn ==
  ASSUME HashOK, NEW n, Sized(n), NEW k \in MapKey, NEW i \in Nat
  PROVE  Spot(n, k, i) \in 0 .. n - 1
<1>1. n \in Nat /\ n >= 2
  BY SizeIs
<1>2. PICK x \in Nat : x = hash[k] + Tri(i)
  <2>1. hash[k] \in Nat
    BY DEF HashOK
  <2>2. Tri(i) \in Nat
    BY TriStep
  <2> QED BY <2>1, <2>2
<1>3. x % n \in 0 .. n - 1
  BY <1>1, DivMod
<1> QED BY <1>2, <1>3 DEF Spot

(* A probe starts at the hash and goes on by one more every time.          *)
LEMMA SpotFirst ==
  ASSUME HashOK, NEW n, NEW k \in MapKey
  PROVE  Spot(n, k, 0) = hash[k] % n
<1>1. hash[k] \in Nat
  BY DEF HashOK
<1>2. Tri(0) = 0
  <2>1. 2 * Tri(0) = 0 * (0 + 1) /\ Tri(0) \in Nat
    BY TriStep
  <2> QED BY <2>1
<1> QED BY <1>1, <1>2 DEF Spot

(* A probe goes on from a bucket to the next as probeNext does.            *)
LEMMA SpotNext ==
  ASSUME HashOK, NEW n, Sized(n), NEW k \in MapKey, NEW i \in Nat
  PROVE  /\ Spot(n, k, i + 1) = (Spot(n, k, i) + ((i + 1) % n)) % n
         /\ ((i + 1) + 1) % n = (((i + 1) % n) + 1) % n
<1>1. n \in Nat \ {0}
  BY SizeIs
<1>2. PICK h \in Nat, t \in Nat : h = hash[k] /\ t = Tri(i) /\ Tri(i + 1) = t + (i + 1)
  <2>1. hash[k] \in Nat
    BY DEF HashOK
  <2>2. Tri(i) \in Nat /\ Tri(i + 1) = Tri(i) + (i + 1)
    BY TriStep
  <2> QED BY <2>1, <2>2
<1>3. PICK a \in Nat, b \in Nat : a = h + t /\ b = i + 1
  OBVIOUS
<1>4. PICK s \in Nat, r \in Nat : s = a % n /\ r = b % n
  <2>1. a % n \in Nat /\ b % n \in Nat
    BY <1>1, DivMod
  <2> QED BY <2>1
<1>5. (s + b) % n = (a + b) % n
  BY <1>1, <1>4, ModSum
<1>6. (r + s) % n = (b + s) % n
  BY <1>1, <1>4, ModSum
<1>7. r + s = s + r /\ b + s = s + b
  OBVIOUS
<1>8. h + (t + b) = a + b
  BY <1>3
<1>9. Spot(n, k, i) = s
  BY <1>2, <1>3, <1>4 DEF Spot
<1>10. Spot(n, k, i + 1) = (a + b) % n
  BY <1>2, <1>3, <1>8 DEF Spot
<1>11. (s + r) % n = (a + b) % n
  BY <1>5, <1>6, <1>7
<1>12. (r + 1) % n = (b + 1) % n
  BY <1>1, <1>4, ModSum
<1> QED BY <1>3, <1>4, <1>9, <1>10, <1>11, <1>12

(* A probe has one end,                                                    *)
LEMMA OneEnd ==
  ASSUME NEW T, NEW n \in Nat, NEW k, NEW i \in Nat, NEW j \in Nat,
         EndsAt(T, n, k, i), EndsAt(T, n, k, j)
  PROVE  i = j
<1>1. ~ (i < j)
  <2> SUFFICES ASSUME i < j PROVE FALSE
    OBVIOUS
  <2>1. i \in 0 .. j - 1
    OBVIOUS
  <2> QED BY <2>1 DEF EndsAt, GoesOnTo
<1>2. ~ (j < i)
  <2> SUFFICES ASSUME j < i PROVE FALSE
    OBVIOUS
  <2>1. j \in 0 .. i - 1
    OBVIOUS
  <2> QED BY <2>1 DEF EndsAt, GoesOnTo
<1> QED BY <1>1, <1>2

(* the one BucketFor answers,                                              *)
LEMMA BucketForEnd ==
  ASSUME NEW n \in Nat, NEW T \in TableOf(n), NEW k, NEW i \in Nat, EndsAt(T, n, k, i)
  PROVE  BucketFor(T, k) = Spot(n, k, i)
<1>1. DOMAIN T = 0 .. n - 1
  BY DEF TableOf
<1>2. NumBucketsOf(T) = n
  BY <1>1, TableSize
<1>3. \A j : ProbeAt(T, k, j) = Spot(n, k, j)
  BY <1>2 DEF ProbeAt, Spot, Tri
<1>4. LastProbe(T, k) = CHOOSE j \in 0 .. n - 1 : EndsAt(T, n, k, j)
  <2>1. \A j \in 0 .. n - 1 :
          EndsAt(T, n, k, j) <=>
            /\ T[ProbeAt(T, k, j)].key \in {k, EmptyKey}
            /\ \A l \in 0 .. j - 1 : T[ProbeAt(T, k, l)].key \notin {k, EmptyKey}
    BY <1>3 DEF EndsAt, GoesOnTo
  <2> QED BY <1>2, <2>1 DEF LastProbe
<1>5. \A j \in 0 .. n - 1 : EndsAt(T, n, k, j) => j = i
  <2> SUFFICES ASSUME NEW j \in 0 .. n - 1, EndsAt(T, n, k, j) PROVE j = i
    OBVIOUS
  <2>1. j \in Nat
    OBVIOUS
  <2> QED BY <2>1, OneEnd
<1>6. i \in 0 .. n - 1
  BY DEF EndsAt
<1>7. LastProbe(T, k) = i
  BY <1>4, <1>5, <1>6
<1> QED BY <1>3, <1>7 DEF BucketFor

(* and there is one if some bucket is empty.                               *)
LEMMA EndExists ==
  ASSUME HashOK, NEW n, Sized(n), NEW T, HasKey(T, n, EmptyKey), NEW k \in MapKey
  PROVE  \E i \in Nat : EndsAt(T, n, k, i)
<1>1. PICK m \in Nat : n = Pow2[m]
  BY DEF Sized
<1>2. n \in Nat
  BY SizeIs
<1>3. PICK b \in 0 .. n - 1 : T[b].key = EmptyKey
  BY DEF HasKey
<1>4. hash[k] \in Nat
  BY DEF HashOK
<1>5. PICK e \in 0 .. n - 1 : Spot(n, k, e) = b
  BY <1>1, <1>2, <1>4, ProbeCovers DEF Spot
<1> DEFINE S == {i \in Nat : i < n /\ T[Spot(n, k, i)].key \in {k, EmptyKey}}
<1>6. e \in S
  BY <1>2, <1>3, <1>5
<1>7. PICK i \in S : \A j \in S : i <= j
  <2>1. S \in SUBSET Nat /\ S # {}
    BY <1>6
  <2> HIDE DEF S
  <2> QED BY <2>1, LeastNumber
<1>8. ASSUME NEW j \in 0 .. i - 1 PROVE T[Spot(n, k, j)].key \notin {k, EmptyKey}
  <2>1. j \notin S /\ j \in Nat /\ j < n
    BY <1>2, <1>7
  <2> QED BY <2>1
<1>9. i \in 0 .. n - 1 /\ i \in Nat
  BY <1>2
<1> QED BY <1>7, <1>8, <1>9 DEF EndsAt, GoesOnTo

(* A key is in a good table once,                                          *)
LEMMA OneEntry ==
  ASSUME HashOK, NEW n, NEW T, GoodTable(T, n), NEW k \in MapKey,
         NEW i \in 0 .. n - 1, NEW j \in 0 .. n - 1, T[i].key = k, T[j].key = k
  PROVE  i = j
<1>1. n \in Nat
  BY SizeIs DEF GoodTable
<1>2. PICK a \in Nat : EndsAt(T, n, k, a) /\ Spot(n, k, a) = i
  BY DEF GoodTable, Placed, IsEntry
<1>3. PICK b \in Nat : EndsAt(T, n, k, b) /\ Spot(n, k, b) = j
  BY DEF GoodTable, Placed, IsEntry
<1>4. a = b
  BY <1>1, <1>2, <1>3, OneEnd
<1> QED BY <1>2, <1>3, <1>4

(* and its probe ends there, or at an empty bucket if it is not in it.     *)
LEMMA EndHasKey ==
  ASSUME HashOK, NEW n, NEW T, GoodTable(T, n), NEW k \in MapKey, NEW i \in Nat,
         EndsAt(T, n, k, i)
  PROVE  T[Spot(n, k, i)].key = (IF HasKey(T, n, k) THEN k ELSE EmptyKey)
<1>1. n \in Nat /\ Spot(n, k, i) \in 0 .. n - 1
  BY SizeIs, SpotIn DEF GoodTable
<1>2. T[Spot(n, k, i)].key \in {k, EmptyKey}
  BY DEF EndsAt
<1>3. CASE HasKey(T, n, k)
  <2>1. PICK b \in 0 .. n - 1 : T[b].key = k
    BY <1>3 DEF HasKey
  <2>2. PICK j \in Nat : EndsAt(T, n, k, j) /\ Spot(n, k, j) = b
    BY <2>1 DEF GoodTable, Placed, IsEntry
  <2>3. i = j
    BY <1>1, <2>2, OneEnd
  <2> QED BY <1>3, <2>1, <2>2, <2>3
<1>4. CASE ~ HasKey(T, n, k)
  <2>1. T[Spot(n, k, i)].key # k
    BY <1>1, <1>4 DEF HasKey
  <2> QED BY <1>2, <1>4, <2>1
<1> QED BY <1>3, <1>4

(* A bucket is written.                                                    *)
Put(T, t, b) == [T EXCEPT ![t] = b]
PutValue(T, t, v) == [T EXCEPT ![t].value = v]

(* The buckets are of their type.                                          *)
LEMMA BucketTypes ==
  ASSUME NEW k \in MapKey, NEW v \in MapValue
  PROVE  /\ Bucket(k, v) \in BucketType /\ EmptyBucket \in BucketType
         /\ Bucket(TombstoneKey, NoMapValue) \in BucketType
         /\ IsEntry(Bucket(k, v)) /\ Bucket(k, v).key = k /\ Bucket(k, v).value = v
BY DEF Bucket, BucketType, EmptyBucket, IsEntry

(* An entry is put into the first bucket of its probe that held none, with *)
(* a bucket left that is empty.                                            *)
LEMMA Filled ==
  ASSUME HashOK, NEW n, NEW T, GoodTable(T, n),
         NEW k \in MapKey, NEW v \in MapValue, ~ HasKey(T, n, k),
         NEW j \in Nat, j \in 0 .. n - 1, GoesOnTo(T, n, k, j),
         NEW t \in 0 .. n - 1, t = Spot(n, k, j), ~ IsEntry(T[t]),
         \A l \in 0 .. j - 1 : Spot(n, k, l) # t,
         NEW U, U = Put(T, t, Bucket(k, v)), HasKey(U, n, EmptyKey)
  PROVE  /\ GoodTable(U, n)
         /\ \A b : IsEntry(b) => (Holds(U, n, b) <=> Holds(T, n, b) \/ b = Bucket(k, v))
<1>1. n \in Nat /\ Sized(n) /\ T \in TableOf(n)
  BY SizeIs DEF GoodTable
<1>2. PICK e : e = Bucket(k, v)
  OBVIOUS
<1>3. e \in BucketType /\ IsEntry(e) /\ e.key = k /\ e.value = v
  BY <1>2, BucketTypes
<1>4. U \in TableOf(n) /\ \A i \in 0 .. n - 1 : U[i] = IF i = t THEN e ELSE T[i]
  <2>1. U = [T EXCEPT ![t] = e]
    BY <1>2, Zenon DEF Put
  <2> QED BY <1>1, <1>3, <2>1 DEF TableOf
<1>5. OnlyEntriesHaveValues(U, n)
  <2>1. e.value # NoMapValue
    BY <1>3, DenseMapAssumption
  <2> QED BY <1>3, <1>4, <2>1 DEF OnlyEntriesHaveValues, GoodTable
<1>6. ASSUME NEW i \in 0 .. n - 1, IsEntry(U[i])
      PROVE  \E a \in Nat : EndsAt(U, n, U[i].key, a) /\ Spot(n, U[i].key, a) = i
  <2>1. CASE i = t
    <3>1. U[t] = e
      BY <1>4
    <3>2. ASSUME NEW l \in 0 .. j - 1
          PROVE  U[Spot(n, k, l)].key \notin {k, EmptyKey}
      <4>1. Spot(n, k, l) \in 0 .. n - 1 /\ Spot(n, k, l) # t
        <5>1. l \in Nat
          OBVIOUS
        <5> QED BY <1>1, <5>1, SpotIn
      <4>2. U[Spot(n, k, l)] = T[Spot(n, k, l)]
        BY <1>4, <4>1
      <4> QED BY <4>2 DEF GoesOnTo
    <3>3. EndsAt(U, n, k, j)
      BY <1>3, <3>1, <3>2 DEF EndsAt, GoesOnTo
    <3> QED BY <1>3, <2>1, <3>1, <3>3
  <2>2. CASE i # t
    <3>1. U[i] = T[i] /\ IsEntry(T[i])
      BY <1>4, <1>6, <2>2
    <3>2. PICK q \in MapKey : q = T[i].key
      BY <3>1 DEF IsEntry
    <3>3. PICK a \in Nat : EndsAt(T, n, q, a) /\ Spot(n, q, a) = i
      BY <3>1, <3>2 DEF GoodTable, Placed
    <3>4. q # k /\ k # EmptyKey
      BY <3>2, Markers DEF HasKey
    <3>5. ASSUME NEW l \in 0 .. a - 1
          PROVE  U[Spot(n, q, l)].key \notin {q, EmptyKey}
      <4>1. Spot(n, q, l) \in 0 .. n - 1
        <5>1. l \in Nat
          OBVIOUS
        <5> QED BY <1>1, <5>1, SpotIn
      <4>2. T[Spot(n, q, l)].key \notin {q, EmptyKey}
        BY <3>3 DEF EndsAt, GoesOnTo
      <4> QED BY <1>3, <1>4, <3>4, <4>1, <4>2
    <3>6. EndsAt(U, n, q, a)
      BY <3>1, <3>2, <3>3, <3>5 DEF EndsAt, GoesOnTo
    <3> QED BY <3>1, <3>2, <3>3, <3>6
  <2> QED BY <2>1, <2>2
<1>7. GoodTable(U, n)
  BY <1>1, <1>4, <1>5, <1>6 DEF GoodTable, Placed
<1>8. ASSUME NEW b, IsEntry(b)
      PROVE  Holds(U, n, b) <=> Holds(T, n, b) \/ b = e
  <2>1. ASSUME Holds(T, n, b) PROVE Holds(U, n, b)
    <3>1. PICK i \in 0 .. n - 1 : T[i] = b
      BY <2>1 DEF Holds
    <3>2. i # t
      BY <1>8, <3>1
    <3> QED BY <1>4, <3>1, <3>2 DEF Holds
  <2>2. b = e => Holds(U, n, b)
    BY <1>4 DEF Holds
  <2>3. Holds(U, n, b) => Holds(T, n, b) \/ b = e
    BY <1>4 DEF Holds
  <2> QED BY <2>1, <2>2, <2>3
<1> QED BY <1>2, <1>7, <1>8

(* The first bucket of its probe ...                                       *)
LEMMA FilledEnd ==
  ASSUME NEW n \in Nat, NEW T, NEW k, NEW i \in Nat, EndsAt(T, n, k, i)
  PROVE  \A l \in 0 .. i - 1 : Spot(n, k, l) # Spot(n, k, i)
BY DEF EndsAt, GoesOnTo

(* An entry becomes a tombstone.                                           *)
LEMMA Erased ==
  ASSUME HashOK, NEW n, NEW T, GoodTable(T, n), NEW t \in 0 .. n - 1, IsEntry(T[t]),
         NEW U, U = Put(T, t, Bucket(TombstoneKey, NoMapValue))
  PROVE  /\ GoodTable(U, n)
         /\ \A b : IsEntry(b) => (Holds(U, n, b) <=> Holds(T, n, b) /\ b.key # T[t].key)
<1>1. n \in Nat /\ Sized(n) /\ T \in TableOf(n)
  BY SizeIs DEF GoodTable
<1>2. PICK e : e = Bucket(TombstoneKey, NoMapValue)
  OBVIOUS
<1>3. e \in BucketType /\ e.key = TombstoneKey /\ e.value = NoMapValue /\ ~ IsEntry(e)
  BY <1>2, Markers DEF Bucket, BucketType, IsEntry
<1>4. U \in TableOf(n) /\ \A i \in 0 .. n - 1 : U[i] = IF i = t THEN e ELSE T[i]
  <2>1. U = [T EXCEPT ![t] = e]
    BY <1>2, Zenon DEF Put
  <2> QED BY <1>1, <1>3, <2>1 DEF TableOf
<1>5. OnlyEntriesHaveValues(U, n)
  BY <1>3, <1>4 DEF OnlyEntriesHaveValues, GoodTable
<1>6. HasKey(U, n, EmptyKey)
  <2>1. PICK i \in 0 .. n - 1 : T[i].key = EmptyKey
    BY DEF GoodTable, HasKey
  <2>2. i # t
    BY <2>1, Markers DEF IsEntry
  <2> QED BY <1>4, <2>1, <2>2 DEF HasKey
<1>7. ASSUME NEW i \in 0 .. n - 1, IsEntry(U[i])
      PROVE  \E a \in Nat : EndsAt(U, n, U[i].key, a) /\ Spot(n, U[i].key, a) = i
  <2>1. i # t
    BY <1>3, <1>4, <1>7
  <2>2. U[i] = T[i] /\ IsEntry(T[i])
    BY <1>4, <1>7, <2>1
  <2>3. PICK q \in MapKey : q = T[i].key
    BY <2>2 DEF IsEntry
  <2>4. PICK a \in Nat : EndsAt(T, n, q, a) /\ Spot(n, q, a) = i
    BY <2>2, <2>3 DEF GoodTable, Placed
  <2>5. TombstoneKey # q /\ TombstoneKey # EmptyKey
    BY Markers
  <2>6. ASSUME NEW l \in 0 .. a - 1
        PROVE  U[Spot(n, q, l)].key \notin {q, EmptyKey}
    <3>1. Spot(n, q, l) \in 0 .. n - 1
      <4>1. l \in Nat
        OBVIOUS
      <4> QED BY <1>1, <4>1, SpotIn
    <3>2. T[Spot(n, q, l)].key \notin {q, EmptyKey}
      BY <2>4 DEF EndsAt, GoesOnTo
    <3> QED BY <1>3, <1>4, <2>5, <3>1, <3>2
  <2>7. EndsAt(U, n, q, a)
    BY <2>2, <2>3, <2>4, <2>6 DEF EndsAt, GoesOnTo
  <2> QED BY <2>2, <2>3, <2>4, <2>7
<1>8. GoodTable(U, n)
  BY <1>1, <1>4, <1>5, <1>6, <1>7 DEF GoodTable, Placed
<1>9. ASSUME NEW b, IsEntry(b)
      PROVE  Holds(U, n, b) <=> Holds(T, n, b) /\ b.key # T[t].key
  <2>1. ASSUME Holds(U, n, b) PROVE Holds(T, n, b) /\ b.key # T[t].key
    <3>1. PICK i \in 0 .. n - 1 : U[i] = b
      BY <2>1 DEF Holds
    <3>2. i # t /\ T[i] = b
      BY <1>3, <1>4, <1>9, <3>1
    <3>3. b.key # T[t].key
      <4>1. T[i].key \in MapKey
        BY <1>9, <3>2 DEF IsEntry
      <4>2. T[t].key # T[i].key
        BY <3>2, <4>1, OneEntry
      <4> QED BY <3>2, <4>2
    <3> QED BY <3>2, <3>3 DEF Holds
  <2>2. ASSUME Holds(T, n, b), b.key # T[t].key PROVE Holds(U, n, b)
    <3>1. PICK i \in 0 .. n - 1 : T[i] = b
      BY <2>2 DEF Holds
    <3> QED BY <1>4, <2>2, <3>1 DEF Holds
  <2> QED BY <2>1, <2>2
<1> QED BY <1>8, <1>9

(* An entry gets another value.                                            *)
LEMMA Assigned ==
  ASSUME HashOK, NEW n, NEW T, GoodTable(T, n), NEW t \in 0 .. n - 1, IsEntry(T[t]),
         NEW v \in MapValue, NEW U, U = PutValue(T, t, v)
  PROVE  /\ GoodTable(U, n)
         /\ \A i \in 0 .. n - 1 : U[i].key = T[i].key
         /\ \A b : IsEntry(b) =>
              (Holds(U, n, b) <=>
                 b = Bucket(T[t].key, v) \/ (Holds(T, n, b) /\ b.key # T[t].key))
<1>1. n \in Nat /\ Sized(n) /\ T \in TableOf(n)
  BY SizeIs DEF GoodTable
<1>2. T[t] \in BucketType
  BY <1>1 DEF TableOf
<1>3. [T[t] EXCEPT !.value = v] = Bucket(T[t].key, v)
  BY <1>2 DEF BucketType, Bucket
<1>4. PICK e : e = Bucket(T[t].key, v)
  OBVIOUS
<1>5. e \in BucketType /\ e.key = T[t].key /\ e.value = v /\ IsEntry(e)
  BY <1>2, <1>4 DEF Bucket, BucketType, IsEntry
<1>6. U = [T EXCEPT ![t] = e]
  BY <1>1, <1>3, <1>4 DEF TableOf, PutValue
<1>7. U \in TableOf(n) /\ \A i \in 0 .. n - 1 : U[i] = IF i = t THEN e ELSE T[i]
  BY <1>1, <1>5, <1>6 DEF TableOf
<1>8. \A i \in 0 .. n - 1 : U[i].key = T[i].key
  BY <1>5, <1>7
<1>9. OnlyEntriesHaveValues(U, n)
  <2>1. v # NoMapValue
    BY DenseMapAssumption
  <2> QED BY <1>5, <1>7, <2>1 DEF OnlyEntriesHaveValues, GoodTable
<1>10. HasKey(U, n, EmptyKey)
  BY <1>8 DEF HasKey, GoodTable
<1>11. Placed(U, n)
  <2>1. ASSUME NEW q \in MapKey, NEW a \in Nat, EndsAt(T, n, q, a) PROVE EndsAt(U, n, q, a)
    <3>1. \A l \in Nat : U[Spot(n, q, l)].key = T[Spot(n, q, l)].key
      BY <1>1, <1>8, SpotIn
    <3>2. \A l \in 0 .. a - 1 : l \in Nat
      OBVIOUS
    <3> QED BY <2>1, <3>1, <3>2 DEF EndsAt, GoesOnTo
  <2> SUFFICES ASSUME NEW i \in 0 .. n - 1, IsEntry(U[i])
               PROVE  \E a \in Nat : EndsAt(U, n, U[i].key, a) /\ Spot(n, U[i].key, a) = i
    BY DEF Placed
  <2>2. PICK q \in MapKey : q = U[i].key /\ q = T[i].key /\ IsEntry(T[i])
    BY <1>8 DEF IsEntry
  <2>3. PICK a \in Nat : EndsAt(T, n, q, a) /\ Spot(n, q, a) = i
    BY <2>2 DEF GoodTable, Placed
  <2> QED BY <2>1, <2>2, <2>3
<1>12. GoodTable(U, n)
  BY <1>1, <1>7, <1>9, <1>10, <1>11 DEF GoodTable
<1>13. ASSUME NEW b, IsEntry(b)
       PROVE  Holds(U, n, b) <=> b = e \/ (Holds(T, n, b) /\ b.key # T[t].key)
  <2>1. ASSUME Holds(U, n, b), b # e PROVE Holds(T, n, b) /\ b.key # T[t].key
    <3>1. PICK i \in 0 .. n - 1 : U[i] = b
      BY <2>1 DEF Holds
    <3>2. i # t /\ T[i] = b
      BY <1>7, <2>1, <3>1
    <3>3. T[i].key \in MapKey
      BY <1>13, <3>2 DEF IsEntry
    <3>4. T[t].key # T[i].key
      BY <3>2, <3>3, OneEntry
    <3> QED BY <3>2, <3>4 DEF Holds
  <2>2. Holds(U, n, e)
    BY <1>7 DEF Holds
  <2>3. ASSUME Holds(T, n, b), b.key # T[t].key PROVE Holds(U, n, b)
    <3>1. PICK i \in 0 .. n - 1 : T[i] = b
      BY <2>3 DEF Holds
    <3> QED BY <1>7, <2>3, <3>1 DEF Holds
  <2>4. CASE b = e
    <3>1. Holds(U, n, b)
      BY <2>2, <2>4
    <3> QED BY <2>4, <3>1
  <2>5. CASE b # e
    BY <2>1, <2>3, <2>5, Zenon
  <2> QED BY <2>4, <2>5
<1> QED BY <1>4, <1>8, <1>12, <1>13

-----------------------------------------------------------------------------
(***************************************************************************)
(* How many entries and tombstones there are                               *)
(***************************************************************************)

EntriesOf(T, n) == {i \in 0 .. n - 1 : IsEntry(T[i])}
TombstonesOf(T, n) == {i \in 0 .. n - 1 : T[i].key = TombstoneKey}
NumEntriesOf(T, n) == Cardinality(EntriesOf(T, n))
NumTombstonesOf(T, n) == Cardinality(TombstonesOf(T, n))

(* They can be counted.                                                    *)
LEMMA Countable ==
  ASSUME NEW n \in Nat, NEW T
  PROVE  /\ IsFiniteSet(EntriesOf(T, n)) /\ NumEntriesOf(T, n) \in Nat
         /\ IsFiniteSet(TombstonesOf(T, n)) /\ NumTombstonesOf(T, n) \in Nat
<1>1. IsFiniteSet(0 .. n - 1)
  <2>1. 0 \in Int /\ n - 1 \in Int
    OBVIOUS
  <2> QED BY <2>1, FS_Interval
<1>2. EntriesOf(T, n) \in SUBSET (0 .. n - 1) /\ TombstonesOf(T, n) \in SUBSET (0 .. n - 1)
  BY DEF EntriesOf, TombstonesOf
<1>3. IsFiniteSet(EntriesOf(T, n)) /\ IsFiniteSet(TombstonesOf(T, n))
  BY <1>1, <1>2, FS_Subset
<1> QED BY <1>3, FS_CardinalityType DEF NumEntriesOf, NumTombstonesOf

(* Fewer than buckets leave an empty one.                                  *)
LEMMA EmptyLeft ==
  ASSUME NEW n \in Nat, NEW T \in TableOf(n),
         NumEntriesOf(T, n) + NumTombstonesOf(T, n) < n
  PROVE  HasKey(T, n, EmptyKey)
<1> SUFFICES ASSUME ~ HasKey(T, n, EmptyKey) PROVE FALSE
  OBVIOUS
<1> DEFINE E == EntriesOf(T, n)
           D == TombstonesOf(T, n)
<1>1. E \union D = 0 .. n - 1
  <2>1. \A i \in 0 .. n - 1 : T[i] \in BucketType /\ T[i].key # EmptyKey
    BY DEF TableOf, HasKey
  <2>2. \A i \in 0 .. n - 1 : IsEntry(T[i]) \/ T[i].key = TombstoneKey
    BY <2>1 DEF BucketType, IsEntry
  <2> QED BY <2>2 DEF EntriesOf, TombstonesOf
<1>2. IsFiniteSet(E) /\ IsFiniteSet(D) /\ Cardinality(E) \in Nat /\ Cardinality(D) \in Nat
  BY Countable DEF NumEntriesOf, NumTombstonesOf
<1>3. Cardinality(0 .. n - 1) = n
  <2>1. 0 \in Int /\ n - 1 \in Int
    OBVIOUS
  <2> QED BY <2>1, FS_Interval
<1>4. Cardinality(E) + Cardinality(D) < n
  BY DEF NumEntriesOf, NumTombstonesOf
<1> HIDE DEF E, D
<1>5. Cardinality(E \union D) = Cardinality(E) + Cardinality(D) - Cardinality(E \cap D)
  BY <1>2, FS_Union
<1>6. Cardinality(E \cap D) \in Nat
  BY <1>2, FS_Intersection, FS_CardinalityType
<1>7. PICK x \in Nat, y \in Nat, z \in Nat :
         x = Cardinality(E) /\ y = Cardinality(D) /\ z = Cardinality(E \cap D)
  BY <1>2, <1>6
<1>8. n = x + y - z /\ x + y < n
  BY <1>1, <1>3, <1>4, <1>5, <1>7
<1> QED BY <1>8

(* A bucket is filled with an entry.                                       *)
LEMMA CountFilled ==
  ASSUME NEW n \in Nat, NEW T \in TableOf(n), NEW t \in 0 .. n - 1, ~ IsEntry(T[t]),
         NEW k \in MapKey, NEW v \in MapValue, NEW U, U = Put(T, t, Bucket(k, v))
  PROVE  /\ U \in TableOf(n)
         /\ NumEntriesOf(U, n) = NumEntriesOf(T, n) + 1
         /\ NumTombstonesOf(U, n) =
              IF T[t].key = TombstoneKey THEN NumTombstonesOf(T, n) - 1
              ELSE NumTombstonesOf(T, n)
<1>1. PICK e \in BucketType : e = Bucket(k, v) /\ IsEntry(e) /\ e.key # TombstoneKey
  BY BucketTypes, Markers
<1>2. U \in TableOf(n) /\ \A i \in 0 .. n - 1 : U[i] = IF i = t THEN e ELSE T[i]
  <2>1. U = [T EXCEPT ![t] = e]
    BY <1>1, Zenon DEF Put
  <2> QED BY <1>1, <2>1 DEF TableOf
<1>3. EntriesOf(U, n) = EntriesOf(T, n) \union {t} /\ t \notin EntriesOf(T, n)
  BY <1>1, <1>2 DEF EntriesOf
<1>4. TombstonesOf(U, n) = TombstonesOf(T, n) \ {t}
  BY <1>1, <1>2 DEF TombstonesOf
<1>5. t \in TombstonesOf(T, n) <=> T[t].key = TombstoneKey
  BY DEF TombstonesOf
<1>6. IsFiniteSet(EntriesOf(T, n)) /\ IsFiniteSet(TombstonesOf(T, n))
  BY Countable
<1>7. NumEntriesOf(U, n) = NumEntriesOf(T, n) + 1
  BY <1>3, <1>6, FS_AddElement DEF NumEntriesOf
<1>8. NumTombstonesOf(U, n) =
        IF t \in TombstonesOf(T, n) THEN NumTombstonesOf(T, n) - 1 ELSE NumTombstonesOf(T, n)
  BY <1>4, <1>6, FS_RemoveElement DEF NumTombstonesOf
<1> QED BY <1>2, <1>5, <1>7, <1>8

(* An entry becomes a tombstone.                                           *)
LEMMA CountErased ==
  ASSUME NEW n \in Nat, NEW T \in TableOf(n), NEW t \in 0 .. n - 1, IsEntry(T[t]),
         NEW U, U = Put(T, t, Bucket(TombstoneKey, NoMapValue))
  PROVE  /\ NumEntriesOf(U, n) = NumEntriesOf(T, n) - 1
         /\ NumTombstonesOf(U, n) = NumTombstonesOf(T, n) + 1
<1>1. PICK e \in BucketType : /\ e = Bucket(TombstoneKey, NoMapValue)
                              /\ ~ IsEntry(e) /\ e.key = TombstoneKey
  <2> DEFINE e == Bucket(TombstoneKey, NoMapValue)
  <2>1. e \in BucketType /\ e.key = TombstoneKey
    BY DEF Bucket, BucketType
  <2>2. ~ IsEntry(e)
    BY <2>1, Markers DEF IsEntry
  <2> QED BY <2>1, <2>2
<1>2. \A i \in 0 .. n - 1 : U[i] = IF i = t THEN e ELSE T[i]
  <2>1. U = [T EXCEPT ![t] = e]
    BY <1>1, Zenon DEF Put
  <2> QED BY <1>1, <2>1 DEF TableOf
<1>3. EntriesOf(U, n) = EntriesOf(T, n) \ {t} /\ t \in EntriesOf(T, n)
  BY <1>1, <1>2 DEF EntriesOf
<1>4. TombstonesOf(U, n) = TombstonesOf(T, n) \union {t} /\ t \notin TombstonesOf(T, n)
  <2>1. T[t].key # TombstoneKey
    BY Markers DEF IsEntry
  <2> QED BY <1>1, <1>2, <2>1 DEF TombstonesOf
<1>5. IsFiniteSet(EntriesOf(T, n)) /\ IsFiniteSet(TombstonesOf(T, n))
  BY Countable
<1>6. NumEntriesOf(U, n) = NumEntriesOf(T, n) - 1
  BY <1>3, <1>5, FS_RemoveElement DEF NumEntriesOf
<1>7. NumTombstonesOf(U, n) = NumTombstonesOf(T, n) + 1
  BY <1>4, <1>5, FS_AddElement DEF NumTombstonesOf
<1> QED BY <1>6, <1>7

(* The same keys are as many.                                              *)
LEMMA CountSameKeys ==
  ASSUME NEW n, NEW T, NEW U, \A i \in 0 .. n - 1 : U[i].key = T[i].key
  PROVE  NumEntriesOf(U, n) = NumEntriesOf(T, n) /\ NumTombstonesOf(U, n) = NumTombstonesOf(T, n)
<1>1. EntriesOf(U, n) = EntriesOf(T, n) /\ TombstonesOf(U, n) = TombstonesOf(T, n)
  BY DEF EntriesOf, TombstonesOf, IsEntry
<1> QED BY <1>1 DEF NumEntriesOf, NumTombstonesOf

(* The first buckets of a table hold no more than all of them, and another *)
(* one holds an entry or does not.                                         *)
LEMMA CountPrefix ==
  ASSUME NEW n \in Nat, NEW T, NEW l \in Nat, l < n
  PROVE  /\ NumEntriesOf(T, l + 1) =
              IF IsEntry(T[l]) THEN NumEntriesOf(T, l) + 1 ELSE NumEntriesOf(T, l)
         /\ NumEntriesOf(T, l + 1) <= NumEntriesOf(T, n)
<1>1. EntriesOf(T, l + 1) =
        IF IsEntry(T[l]) THEN EntriesOf(T, l) \union {l} ELSE EntriesOf(T, l)
  <2>1. \A i : i \in 0 .. (l + 1) - 1 <=> i \in 0 .. l - 1 \/ i = l
    OBVIOUS
  <2> QED BY <2>1 DEF EntriesOf
<1>2. l \notin EntriesOf(T, l)
  <2>1. l \notin 0 .. l - 1
    OBVIOUS
  <2> QED BY <2>1 DEF EntriesOf
<1>3. IsFiniteSet(EntriesOf(T, l)) /\ IsFiniteSet(EntriesOf(T, n))
  BY Countable
<1>4. EntriesOf(T, l + 1) \in SUBSET EntriesOf(T, n)
  <2>1. \A i : i \in 0 .. (l + 1) - 1 => i \in 0 .. n - 1
    OBVIOUS
  <2> QED BY <2>1 DEF EntriesOf
<1>5. NumEntriesOf(T, l + 1) <= NumEntriesOf(T, n)
  BY <1>3, <1>4, FS_Subset DEF NumEntriesOf
<1>6. NumEntriesOf(T, l + 1) =
        IF IsEntry(T[l]) THEN NumEntriesOf(T, l) + 1 ELSE NumEntriesOf(T, l)
  <2>1. CASE IsEntry(T[l])
    <3>1. Cardinality(EntriesOf(T, l) \union {l}) = Cardinality(EntriesOf(T, l)) + 1
      BY <1>2, <1>3, FS_AddElement
    <3> QED BY <1>1, <2>1, <3>1 DEF NumEntriesOf
  <2>2. CASE ~ IsEntry(T[l])
    BY <1>1, <2>2 DEF NumEntriesOf
  <2> QED BY <2>1, <2>2
<1> QED BY <1>5, <1>6

-----------------------------------------------------------------------------
(***************************************************************************)
(* Growth                                                                  *)
(***************************************************************************)

(* The table after the i-th bucket of the old one was looked at.           *)
MoveStep(T, e) == IF IsEntry(e) THEN [T EXCEPT ![BucketFor(T, e.key)] = e] ELSE T

(* f holds the tables of the first l steps of a move.                      *)
Moves(f, old, n, l) ==
  /\ DOMAIN f = 0 .. l /\ f = [i \in 0 .. l |-> f[i]]
  /\ f[0] = EmptyTable(n)
  /\ \A i \in 1 .. l : f[i] = MoveStep(f[i - 1], old[i - 1])

(* There are such steps, so many of them as wanted,                        *)
LEMMA MovesExist ==
  ASSUME NEW old, NEW n
  PROVE  \A l \in Nat : \E f : Moves(f, old, n, l)
<1> DEFINE S == {l \in Nat : \E f : Moves(f, old, n, l)}
<1>1. 0 \in S
  <2>1. PICK f : f = [i \in 0 .. 0 |-> EmptyTable(n)]
    OBVIOUS
  <2>2. Moves(f, old, n, 0)
    <3>1. \A i \in 1 .. 0 : FALSE
      OBVIOUS
    <3>2. 0 \in 0 .. 0
      OBVIOUS
    <3> QED BY <2>1, <3>1, <3>2 DEF Moves
  <2> QED BY <2>2
<1>2. ASSUME NEW l \in Nat, l \in S PROVE l + 1 \in S
  <2>1. PICK f : Moves(f, old, n, l)
    BY <1>2
  <2>2. PICK x : x = MoveStep(f[l], old[l])
    OBVIOUS
  <2>3. PICK g : g = [i \in 0 .. l + 1 |-> IF i <= l THEN f[i] ELSE x]
    OBVIOUS
  <2>4. g[0] = f[0]
    BY <2>3
  <2>5. ASSUME NEW i \in 1 .. l + 1 PROVE g[i] = MoveStep(g[i - 1], old[i - 1])
    <3>1. CASE i <= l
      <4>1. g[i] = f[i] /\ g[i - 1] = f[i - 1] /\ i \in 1 .. l
        BY <2>3, <3>1
      <4> QED BY <2>1, <4>1 DEF Moves
    <3>2. CASE i = l + 1
      <4>1. g[i] = x /\ g[i - 1] = f[l] /\ i - 1 = l
        BY <2>3, <3>2
      <4> QED BY <2>2, <4>1
    <3> QED BY <3>1, <3>2
  <2>6. DOMAIN g = 0 .. l + 1 /\ g = [i \in 0 .. l + 1 |-> g[i]]
    BY <2>3
  <2>7. Moves(g, old, n, l + 1)
    BY <2>1, <2>4, <2>5, <2>6 DEF Moves
  <2> QED BY <2>7
<1> HIDE DEF S
<1>3. Nat \subseteq S
  BY <1>1, <1>2, Induction
<1> QED BY <1>3 DEF S

(* and Moved is the last.                                                  *)
LEMMA MovedIs ==
  ASSUME NEW m \in Nat, NEW old, DOMAIN old = 0 .. m - 1, NEW n
  PROVE  \E f : Moves(f, old, n, m) /\ Moved(old, n) = f[m]
<1>1. NumBucketsOf(old) = m
  BY TableSize
<1> DEFINE Def(f) ==
      f = [i \in 0 .. m |->
             IF i = 0 THEN EmptyTable(n)
             ELSE IF IsEntry(old[i - 1])
                  THEN [f[i - 1] EXCEPT ![BucketFor(f[i - 1], old[i - 1].key)] = old[i - 1]]
                  ELSE f[i - 1]]
<1>2. PICK g : Moves(g, old, n, m)
  BY MovesExist
<1>3. Def(g)
  <2>1. \A i \in 0 .. m : i # 0 => i \in 1 .. m
    OBVIOUS
  <2>2. \A i \in 0 .. m : g[i] = IF i = 0 THEN EmptyTable(n) ELSE MoveStep(g[i - 1], old[i - 1])
    BY <1>2, <2>1 DEF Moves
  <2>3. g = [i \in 0 .. m |-> g[i]]
    BY <1>2 DEF Moves
  <2> QED BY <2>2, <2>3 DEF MoveStep
<1> DEFINE f == CHOOSE x : Def(x)
<1>4. Def(f)
  <2> HIDE DEF Def
  <2> QED BY <1>3
<1>5. Moved(old, n) = f[m]
  BY <1>1 DEF Moved
<1> HIDE DEF f
<1>6. Moves(f, old, n, m)
  <2>1. DOMAIN f = 0 .. m /\ f = [i \in 0 .. m |-> f[i]]
    BY <1>4
  <2>2. f[0] = EmptyTable(n)
    <3>1. 0 \in 0 .. m
      OBVIOUS
    <3> QED BY <1>4, <3>1
  <2>3. ASSUME NEW i \in 1 .. m PROVE f[i] = MoveStep(f[i - 1], old[i - 1])
    <3>1. i \in 0 .. m /\ i # 0
      OBVIOUS
    <3> QED BY <1>4, <3>1 DEF MoveStep
  <2> QED BY <2>1, <2>2, <2>3 DEF Moves
<1> QED BY <1>5, <1>6

(* A new table is a good one, without entries and tombstones.              *)
LEMMA EmptyIsGood ==
  ASSUME NEW n, Sized(n)
  PROVE  /\ GoodTable(EmptyTable(n), n)
         /\ \A b : IsEntry(b) => ~ Holds(EmptyTable(n), n, b)
         /\ NumEntriesOf(EmptyTable(n), n) = 0 /\ NumTombstonesOf(EmptyTable(n), n) = 0
<1>1. n \in Nat /\ n >= 2
  BY SizeIs
<1>2. PICK T : T = EmptyTable(n)
  OBVIOUS
<1>3. PICK e \in BucketType : /\ e = EmptyBucket /\ e.key = EmptyKey /\ e.value = NoMapValue
                              /\ ~ IsEntry(e) /\ e.key # TombstoneKey
  <2>1. EmptyBucket \in BucketType
    BY DEF EmptyBucket, Bucket, BucketType
  <2>2. EmptyBucket.key = EmptyKey /\ EmptyBucket.value = NoMapValue
    BY DEF EmptyBucket, Bucket
  <2> QED BY <2>1, <2>2, Markers DEF IsEntry
<1>4. T \in TableOf(n) /\ \A i \in 0 .. n - 1 : T[i] = e
  BY <1>2, <1>3 DEF EmptyTable, TableOf
<1>5. HasKey(T, n, EmptyKey)
  <2>1. 0 \in 0 .. n - 1
    BY <1>1
  <2> QED BY <1>3, <1>4, <2>1 DEF HasKey
<1>6. GoodTable(T, n)
  BY <1>3, <1>4, <1>5 DEF GoodTable, OnlyEntriesHaveValues, Placed
<1>7. EntriesOf(T, n) = {} /\ TombstonesOf(T, n) = {}
  BY <1>3, <1>4 DEF EntriesOf, TombstonesOf
<1>8. NumEntriesOf(T, n) = 0 /\ NumTombstonesOf(T, n) = 0
  BY <1>7, FS_EmptySet DEF NumEntriesOf, NumTombstonesOf
<1>9. \A b : IsEntry(b) => ~ Holds(T, n, b)
  BY <1>3, <1>4 DEF Holds
<1> QED BY <1>2, <1>6, <1>8, <1>9

(* T is a good table with the entries of the first l buckets of an old one *)
(* and no tombstones.                                                      *)
Carries(T, n, old, l) ==
  /\ GoodTable(T, n)
  /\ NumEntriesOf(T, n) = NumEntriesOf(old, l) /\ NumTombstonesOf(T, n) = 0
  /\ \A b : IsEntry(b) => (Holds(T, n, b) <=> Holds(old, l, b))

(* One more is moved.                                                      *)
LEMMA CarriesNext ==
  ASSUME HashOK, NEW m, NEW old, GoodTable(old, m), NEW n, Sized(n),
         NumEntriesOf(old, m) < n,
         NEW l \in Nat, l < m, NEW T, Carries(T, n, old, l)
  PROVE  Carries(MoveStep(T, old[l]), n, old, l + 1)
<1>1. /\ m \in Nat /\ n \in Nat /\ l \in 0 .. m - 1 /\ old[l] \in BucketType
      /\ T \in TableOf(n) /\ GoodTable(T, n)
  BY SizeIs DEF GoodTable, TableOf, Carries
<1>2. \A b : Holds(old, l + 1, b) <=> Holds(old, l, b) \/ b = old[l]
  <2>1. \A i : i \in 0 .. (l + 1) - 1 <=> i \in 0 .. l - 1 \/ i = l
    OBVIOUS
  <2> QED BY <2>1 DEF Holds
<1>3. /\ NumEntriesOf(old, l + 1) =
           IF IsEntry(old[l]) THEN NumEntriesOf(old, l) + 1 ELSE NumEntriesOf(old, l)
      /\ NumEntriesOf(old, l + 1) <= NumEntriesOf(old, m)
  BY <1>1, CountPrefix
<1>4. CASE ~ IsEntry(old[l])
  <2>1. MoveStep(T, old[l]) = T
    BY <1>4 DEF MoveStep
  <2>2. \A b : IsEntry(b) => (Holds(old, l + 1, b) <=> Holds(old, l, b))
    BY <1>2, <1>4
  <2> QED BY <1>3, <1>4, <2>1, <2>2 DEF Carries
<1>5. CASE IsEntry(old[l])
  <2>1. PICK k \in MapKey, v \in MapValue : old[l] = Bucket(k, v)
    <3>1. old[l].value # NoMapValue
      BY <1>1, <1>5 DEF GoodTable, OnlyEntriesHaveValues
    <3>2. old[l].key \in MapKey /\ old[l].value \in MapValue
      BY <1>1, <1>5, <3>1 DEF BucketType, IsEntry
    <3>3. old[l] = Bucket(old[l].key, old[l].value)
      BY <1>1 DEF BucketType, Bucket
    <3> QED BY <3>2, <3>3
  <2>2. old[l].key = k
    BY <2>1 DEF Bucket
  <2>3. ~ HasKey(T, n, k)
    <3> SUFFICES ASSUME HasKey(T, n, k) PROVE FALSE
      OBVIOUS
    <3>1. PICK i \in 0 .. n - 1 : T[i].key = k
      BY DEF HasKey
    <3>2. IsEntry(T[i]) /\ Holds(T, n, T[i])
      BY <3>1 DEF IsEntry, Holds
    <3>3. Holds(old, l, T[i])
      BY <3>2 DEF Carries
    <3>4. PICK j \in 0 .. l - 1 : old[j] = T[i]
      BY <3>3 DEF Holds
    <3>5. j \in 0 .. m - 1 /\ j # l
      BY <1>1
    <3> QED BY <1>1, <2>2, <3>1, <3>4, <3>5, OneEntry
  <2>4. PICK i \in Nat : EndsAt(T, n, k, i)
    BY <1>1, EndExists DEF GoodTable
  <2>5. PICK t \in 0 .. n - 1 : t = Spot(n, k, i)
    BY SpotIn
  <2>6. BucketFor(T, k) = t
    BY <1>1, <2>4, <2>5, BucketForEnd
  <2>7. T[t].key = EmptyKey /\ ~ IsEntry(T[t])
    BY <1>1, <2>3, <2>4, <2>5, EndHasKey, Markers DEF IsEntry
  <2>8. PICK U : U = Put(T, t, Bucket(k, v))
    OBVIOUS
  <2>9. MoveStep(T, old[l]) = U
    BY <1>5, <2>1, <2>2, <2>6, <2>8 DEF MoveStep, Put
  <2>10. /\ U \in TableOf(n)
         /\ NumEntriesOf(U, n) = NumEntriesOf(T, n) + 1
         /\ NumTombstonesOf(U, n) = NumTombstonesOf(T, n)
    <3>1. T[t].key # TombstoneKey
      BY <2>7, Markers
    <3> QED BY <1>1, <2>7, <2>8, <3>1, CountFilled
  <2>11. NumEntriesOf(U, n) = NumEntriesOf(old, l + 1) /\ NumTombstonesOf(U, n) = 0
    BY <1>3, <1>5, <2>10 DEF Carries
  <2>12. HasKey(U, n, EmptyKey)
    <3>1. NumEntriesOf(U, n) \in Nat /\ NumEntriesOf(old, m) \in Nat
      BY <1>1, Countable
    <3>2. NumEntriesOf(U, n) + NumTombstonesOf(U, n) < n
      BY <1>1, <1>3, <2>11, <3>1
    <3> QED BY <1>1, <2>10, <3>2, EmptyLeft
  <2>13. /\ GoodTable(U, n)
         /\ \A b : IsEntry(b) => (Holds(U, n, b) <=> Holds(T, n, b) \/ b = Bucket(k, v))
    <3>1. i \in 0 .. n - 1 /\ GoesOnTo(T, n, k, i)
      BY <2>4 DEF EndsAt
    <3>2. \A a \in 0 .. i - 1 : Spot(n, k, a) # t
      BY <1>1, <2>4, <2>5, FilledEnd
    <3> QED BY <1>1, <2>3, <2>5, <2>7, <2>8, <2>12, <3>1, <3>2, Filled
  <2>14. \A b : IsEntry(b) => (Holds(U, n, b) <=> Holds(old, l + 1, b))
    BY <1>2, <2>1, <2>13 DEF Carries
  <2> QED BY <2>9, <2>11, <2>13, <2>14 DEF Carries
<1> QED BY <1>4, <1>5

(* A move carries every entry into a table they leave room in.             *)
LEMMA MovedCarries ==
  ASSUME HashOK, NEW m \in Nat, NEW old, DOMAIN old = 0 .. m - 1,
         m = 0 \/ GoodTable(old, m), NEW n, Sized(n), NumEntriesOf(old, m) < n
  PROVE  Carries(Moved(old, n), n, old, m)
<1>1. PICK f : Moves(f, old, n, m) /\ Moved(old, n) = f[m]
  BY MovedIs
<1> DEFINE S == {l \in Nat : l <= m => Carries(f[l], n, old, l)}
<1>2. 0 \in S
  <2>1. f[0] = EmptyTable(n)
    BY <1>1 DEF Moves
  <2>2. \A i \in 0 .. 0 - 1 : FALSE
    OBVIOUS
  <2>3. EntriesOf(old, 0) = {}
    BY <2>2 DEF EntriesOf
  <2>4. NumEntriesOf(old, 0) = 0
    BY <2>3, FS_EmptySet DEF NumEntriesOf
  <2>5. \A b : ~ Holds(old, 0, b)
    BY <2>2 DEF Holds
  <2>6. Carries(f[0], n, old, 0)
    BY <2>1, <2>4, <2>5, EmptyIsGood DEF Carries
  <2> QED BY <2>6
<1>3. ASSUME NEW l \in Nat, l \in S PROVE l + 1 \in S
  <2> SUFFICES ASSUME l + 1 <= m PROVE Carries(f[l + 1], n, old, l + 1)
    OBVIOUS
  <2>1. Carries(f[l], n, old, l) /\ l < m /\ m # 0
    BY <1>3
  <2>2. f[l + 1] = MoveStep(f[l], old[l])
    <3>1. l + 1 \in 1 .. m /\ (l + 1) - 1 = l
      OBVIOUS
    <3> QED BY <1>1, <3>1 DEF Moves
  <2> QED BY <2>1, <2>2, CarriesNext
<1> HIDE DEF S
<1>4. Nat \subseteq S
  BY <1>2, <1>3, Induction
<1>5. m \in S
  BY <1>4
<1> QED BY <1>1, <1>5 DEF S

(* The sizes of new tables                                                 *)

(* A size is the power of two from itself,                                 *)
LEMMA SizeFromItself ==
  ASSUME NEW n, Sized(n)
  PROVE  PowerOf2From(n) = n
<1>1. PICK m \in Nat \ {0} : n = Pow2[m]
  BY DEF Sized
<1>2. n \in Nat
  BY SizeIs
<1>3. PICK l \in Nat : m = l + 1
  <2>1. m - 1 \in Nat /\ m = (m - 1) + 1
    OBVIOUS
  <2> QED BY <2>1
<1>4. Pow2[l] < n /\ Pow2[m - 1] < n
  <2>1. Pow2[l] \in Nat \ {0} /\ Pow2[l + 1] = 2 * Pow2[l] /\ m - 1 = l
    BY <1>3, Pow2Value
  <2> QED BY <1>1, <1>3, <2>1
<1>5. CeilLog2(n) = m
  BY <1>1, <1>2, <1>4, CeilLog2Is
<1> QED BY <1>1, <1>5 DEF PowerOf2From

(* the one from a number is at least that number,                          *)
LEMMA SizeFrom ==
  ASSUME NEW a \in Nat, a >= 2
  PROVE  Sized(PowerOf2From(a)) /\ PowerOf2From(a) \in Nat /\ PowerOf2From(a) >= a
<1>1. PICK w \in Nat : w = CeilLog2(a) /\ Pow2[w] >= a
  BY CeilLog2Value
<1>2. w # 0
  BY <1>1, Pow2Value
<1>3. Pow2[w] \in Nat
  BY Pow2Value
<1> QED BY <1>1, <1>2, <1>3 DEF PowerOf2From, Sized

(* and no larger than any other size there is.                             *)
LEMMA SizeLeast ==
  ASSUME NEW a \in Nat, NEW m \in Nat, a <= Pow2[m]
  PROVE  PowerOf2From(a) <= Pow2[m] /\ PowerOf2From(a) \in Nat
<1>1. PICK w \in Nat : w = CeilLog2(a) /\ (w = 0 \/ Pow2[w - 1] < a)
  BY CeilLog2Value
<1>2. Pow2[m] \in Nat /\ Pow2[w] \in Nat
  BY Pow2Value
<1>3. w <= m
  <2> SUFFICES ASSUME m < w PROVE FALSE
    BY <1>1
  <2>1. w - 1 \in Nat /\ m <= w - 1
    OBVIOUS
  <2>2. Pow2[m] <= Pow2[w - 1] /\ Pow2[w - 1] \in Nat
    BY <2>1, Pow2Monotonic, Pow2Value
  <2> QED BY <1>1, <1>2, <2>1, <2>2
<1>4. Pow2[w] <= Pow2[m]
  BY <1>3, Pow2Monotonic
<1> QED BY <1>1, <1>2, <1>4 DEF PowerOf2From

(* The least one is one.                                                   *)
LEMMA LeastSize == Sized(MinBuckets) /\ MinBuckets \in Nat /\ MinBuckets >= 2
<1>1. MinBuckets \in Nat /\ MinBuckets >= 2 /\ PowerOf2From(MinBuckets) = MinBuckets
  BY DenseMapAssumption DEF PowerOf2From
<1> QED BY <1>1, SizeFrom

(* grow makes room for what it is asked to.                                *)
LEMMA GrownIs ==
  ASSUME NEW a \in Nat
  PROVE  Sized(GrownSize(a)) /\ GrownSize(a) \in Nat /\ GrownSize(a) >= a
<1>1. CASE a = 0 \/ NextPowerOf2(a - 1) < MinBuckets
  <2>1. GrownSize(a) = MinBuckets
    BY <1>1 DEF GrownSize
  <2>2. a <= MinBuckets
    <3>1. CASE a = 0
      BY <3>1, LeastSize
    <3>2. CASE a # 0 /\ NextPowerOf2(a - 1) < MinBuckets
      <4>1. NextPowerOf2(a - 1) = PowerOf2From(a)
        <5>1. (a - 1) + 1 = a
          OBVIOUS
        <5> QED BY <5>1 DEF NextPowerOf2
      <4>2. CASE a >= 2
        <5>1. PowerOf2From(a) \in Nat /\ PowerOf2From(a) >= a
          BY <4>2, SizeFrom
        <5> QED BY <3>2, <4>1, <5>1, LeastSize
      <4> QED BY <3>2, <4>2, LeastSize
    <3> QED BY <1>1, <3>1, <3>2
  <2> QED BY <2>1, <2>2, LeastSize
<1>2. CASE a # 0 /\ ~ (NextPowerOf2(a - 1) < MinBuckets)
  <2>1. GrownSize(a) = PowerOf2From(a)
    <3>1. (a - 1) + 1 = a
      OBVIOUS
    <3> QED BY <1>2, <3>1 DEF NextPowerOf2, GrownSize
  <2>2. a >= 2
    <3> SUFFICES ASSUME a = 1 PROVE FALSE
      BY <1>2
    <3>1. NextPowerOf2(a - 1) = PowerOf2From(1)
      <4>1. (1 - 1) + 1 = 1
        OBVIOUS
      <4> QED BY <4>1 DEF NextPowerOf2
    <3>2. PowerOf2From(1) = 1
      BY SmallLogs, SmallPowers DEF PowerOf2From
    <3> QED BY <1>2, <3>1, <3>2, LeastSize
  <2> QED BY <2>1, <2>2, SizeFrom
<1> QED BY <1>1, <1>2

-----------------------------------------------------------------------------
(***************************************************************************)
(* The map                                                                 *)
(***************************************************************************)

(* The table and its counters.                                             *)
TableInv ==
  /\ HashOK
  /\ NumBuckets \in 0 .. MaxBuckets
  /\ DOMAIN Buckets = 0 .. NumBuckets - 1
  /\ NumBuckets = 0 \/ GoodTable(Buckets, NumBuckets)
  /\ NumEntries = NumEntriesOf(Buckets, NumBuckets)
  /\ NumTombstones = NumTombstonesOf(Buckets, NumBuckets)

(* The tombstone an insertion may fill: the first of its probe.            *)
TombstoneSeen(T, n, k, i, t) ==
  \/ t = NoBucket /\ \A j \in 0 .. i - 1 : T[Spot(n, k, j)].key # TombstoneKey
  \/ \E j \in 0 .. i - 1 :
       /\ t = Spot(n, k, j) /\ T[t].key = TombstoneKey
       /\ \A l \in 0 .. j - 1 : T[Spot(n, k, l)].key # TombstoneKey

(* The operation is at the i-th bucket of its probe.                       *)
ProbedTo(o, T, n, i) ==
  /\ i \in 0 .. n - 1
  /\ o.bucket = Spot(n, o.key, i) /\ o.amt = (i + 1) % n
  /\ GoesOnTo(T, n, o.key, i)
  /\ TombstoneSeen(T, n, o.key, i, o.tombstone)

OpType ==
  [name : {"none"} \union Finds \union Inserts, key : MapKey \union {EmptyKey},
   value : MapValue \union {NoMapValue}, bucket : Nat, amt : Nat, tombstone : Nat]

ProbeInv ==
  /\ op \in OpType
  /\ op.name # "none" => op.key \in MapKey
  /\ op.name \in Inserts => op.value \in MapValue
  /\ op.name # "none" /\ NumBuckets # 0 =>
       \E i \in Nat : ProbedTo(op, Buckets, NumBuckets, i)

MapInv == TableInv /\ ProbeInv

(* An empty bucket is no entry.                                            *)
LEMMA NotFull ==
  ASSUME NEW n \in Nat, NEW T, HasKey(T, n, EmptyKey)
  PROVE  NumEntriesOf(T, n) < n
<1>1. PICK i \in 0 .. n - 1 : T[i].key = EmptyKey
  BY DEF HasKey
<1>2. i \notin EntriesOf(T, n) /\ EntriesOf(T, n) \in SUBSET (0 .. n - 1)
  BY <1>1, Markers DEF EntriesOf, IsEntry
<1>3. IsFiniteSet(0 .. n - 1) /\ Cardinality(0 .. n - 1) = n
  <2>1. 0 \in Int /\ n - 1 \in Int
    OBVIOUS
  <2> QED BY <2>1, FS_Interval
<1>4. /\ Cardinality(EntriesOf(T, n)) <= n
      /\ n = Cardinality(EntriesOf(T, n)) => 0 .. n - 1 = EntriesOf(T, n)
  BY <1>2, <1>3, FS_Subset
<1>5. Cardinality(EntriesOf(T, n)) # n
  BY <1>1, <1>2, <1>4
<1>6. Cardinality(EntriesOf(T, n)) \in Nat
  BY Countable DEF NumEntriesOf
<1> QED BY <1>4, <1>5, <1>6 DEF NumEntriesOf

(* A table without buckets has no entries.                                 *)
LEMMA NoBuckets ==
  ASSUME NEW T
  PROVE  /\ NumEntriesOf(T, 0) = 0 /\ NumTombstonesOf(T, 0) = 0
         /\ \A b : ~ Holds(T, 0, b)
         /\ \A k : ~ HasKey(T, 0, k)
<1>1. \A i : i \notin 0 .. 0 - 1
  OBVIOUS
<1>2. EntriesOf(T, 0) = {} /\ TombstonesOf(T, 0) = {}
  BY <1>1 DEF EntriesOf, TombstonesOf
<1> QED BY <1>1, <1>2, FS_EmptySet DEF NumEntriesOf, NumTombstonesOf, Holds, HasKey

(* What the table invariant says of the numbers.                           *)
LEMMA TableNumbers ==
  ASSUME TableInv
  PROVE  /\ NumBuckets \in Nat /\ NumEntries \in Nat /\ NumTombstones \in Nat
         /\ NumBuckets = 0 => NumEntries = 0 /\ NumTombstones = 0
         /\ NumBuckets # 0 => NumEntries < NumBuckets /\ NumBuckets >= 2
<1>1. NumBuckets \in Nat
  BY DenseMapAssumption DEF TableInv
<1>2. NumEntries \in Nat /\ NumTombstones \in Nat
  BY <1>1, Countable DEF TableInv
<1>3. NumBuckets = 0 => NumEntries = 0 /\ NumTombstones = 0
  BY NoBuckets DEF TableInv
<1>4. NumBuckets # 0 => NumEntries < NumBuckets /\ NumBuckets >= 2
  BY <1>1, NotFull, SizeIs DEF TableInv, GoodTable
<1> QED BY <1>1, <1>2, <1>3, <1>4

(* An entry is put into a table that keeps an empty bucket: the old one,   *)
(* or one the others were carried to.  A table that was swept is not the   *)
(* old one, which had a tombstone.                                         *)
LEMMA RoomForInsert ==
  ASSUME TableInv
  PROVE  \/ /\ TableForInsert = Buckets /\ NumBuckets # 0
            /\ NumEntries + 1 + NumTombstones < NumBuckets
         \/ /\ TableForInsert # Buckets
            /\ \E n : /\ Sized(n) /\ NumEntries + 1 < n
                      /\ Carries(TableForInsert, n, Buckets, NumBuckets)
<1>1. PICK n \in Nat, e \in Nat, t \in Nat :
         /\ n = NumBuckets /\ e = NumEntries /\ t = NumTombstones
         /\ n = 0 => e = 0
         /\ n # 0 => e < n /\ n >= 2
         /\ e = NumEntriesOf(Buckets, n) /\ t = NumTombstonesOf(Buckets, n)
  <2>1. NumEntries = NumEntriesOf(Buckets, NumBuckets) /\ NumTombstones = NumTombstonesOf(Buckets, NumBuckets)
    BY DEF TableInv
  <2> QED BY <2>1, TableNumbers
<1>2. ASSUME NEW a \in Nat, e < GrownSize(a)
      PROVE  /\ Carries(Grown(a), GrownSize(a), Buckets, n)
             /\ Grown(a) = Buckets => GrownSize(a) = n /\ t = 0
  <2>1. Sized(GrownSize(a)) /\ GrownSize(a) \in Nat
    BY GrownIs
  <2>2. Carries(Grown(a), GrownSize(a), Buckets, n)
    BY <1>1, <1>2, <2>1, MovedCarries DEF Grown, TableInv
  <2>3. ASSUME Grown(a) = Buckets PROVE GrownSize(a) = n /\ t = 0
    <3>1. Grown(a) \in TableOf(GrownSize(a)) /\ NumTombstonesOf(Grown(a), GrownSize(a)) = 0
      BY <2>2 DEF Carries, GoodTable
    <3>2. DOMAIN Grown(a) = 0 .. GrownSize(a) - 1
      BY <3>1 DEF TableOf
    <3>3. NumBucketsOf(Grown(a)) = GrownSize(a)
      BY <2>1, <3>2, TableSize
    <3>4. GrownSize(a) = n
      BY <1>1, <2>3, <3>3 DEF NumBuckets
    <3> QED BY <1>1, <2>3, <3>1, <3>4
  <2> QED BY <2>2, <2>3
<1>3. CASE (e + 1) * 4 >= n * 3
  <2>1. TableForInsert = Grown(n * 2)
    BY <1>1, <1>3 DEF TableForInsert
  <2>2. PICK a \in Nat : a = n * 2
    OBVIOUS
  <2>3. PICK g \in Nat : g = GrownSize(a) /\ Sized(g) /\ g >= a /\ g >= 2
    BY GrownIs, SizeIs
  <2>4. e + 1 < g /\ e < g /\ g # n
    BY <1>1, <2>2, <2>3
  <2>5. Carries(Grown(a), g, Buckets, n) /\ Grown(a) # Buckets
    BY <1>2, <2>3, <2>4
  <2> QED BY <1>1, <2>1, <2>2, <2>3, <2>4, <2>5
<1>4. CASE ~ ((e + 1) * 4 >= n * 3) /\ n - (e + 1 + t) <= n \div 8
  <2>1. TableForInsert = Grown(n)
    BY <1>1, <1>4 DEF TableForInsert
  <2>2. n # 0 /\ e + 1 < n
    BY <1>1, <1>4
  <2>3. PICK g \in Nat : g = GrownSize(n) /\ Sized(g) /\ g >= n
    BY GrownIs
  <2>4. e + 1 < g /\ e < g
    BY <2>2, <2>3
  <2>5. t # 0
    <3> SUFFICES ASSUME t = 0 PROVE FALSE
      OBVIOUS
    <3>1. PICK q \in Nat : q = n \div 8 /\ 8 * q <= n
      <4>1. n \div 8 \in Nat /\ 8 * (n \div 8) <= n
        OBVIOUS
      <4> QED BY <4>1
    <3>2. n - (e + 1) <= q /\ (e + 1) * 4 < n * 3
      BY <1>4, <3>1
    <3> QED BY <2>2, <3>1, <3>2
  <2>6. Carries(Grown(n), g, Buckets, n) /\ Grown(n) # Buckets
    BY <1>2, <2>3, <2>4, <2>5
  <2> QED BY <1>1, <2>1, <2>3, <2>4, <2>6
<1>5. CASE ~ ((e + 1) * 4 >= n * 3) /\ ~ (n - (e + 1 + t) <= n \div 8)
  <2>1. TableForInsert = Buckets
    BY <1>1, <1>5 DEF TableForInsert
  <2>2. n # 0
    BY <1>1, <1>5
  <2>3. e + 1 + t < n
    <3>1. n \div 8 \in Nat
      OBVIOUS
    <3> QED BY <1>5, <3>1
  <2> QED BY <1>1, <2>1, <2>2, <2>3
<1> QED BY <1>3, <1>4, <1>5

(* The next table, and that it is one.                                     *)
LEMMA GoodTableNext ==
  ASSUME hash' = hash, NEW n, NumBuckets' = n, GoodTable(Buckets', n)
  PROVE  GoodTable(Buckets, NumBuckets)'
BY DEF GoodTable, OnlyEntriesHaveValues, HasKey, Placed, EndsAt, GoesOnTo, Spot, Sized,
       TableOf, IsEntry

(* What a step shows of the table it leaves.                               *)
LEMMA TableInvNext ==
  ASSUME TableInv, hash' = hash, NEW n \in 0 .. MaxBuckets, DOMAIN (Buckets') = 0 .. n - 1,
         n = 0 \/ GoodTable(Buckets', n),
         NumEntries' = NumEntriesOf(Buckets', n),
         NumTombstones' = NumTombstonesOf(Buckets', n)
  PROVE  TableInv' /\ NumBuckets' = n
<1>1. n \in Nat
  BY DenseMapAssumption
<1>2. NumBuckets' = n
  <2>1. NumBucketsOf(Buckets') = n
    BY <1>1, TableSize
  <2> QED BY <2>1 DEF NumBuckets
<1>3. n = 0 \/ GoodTable(Buckets, NumBuckets)'
  BY <1>2, GoodTableNext
<1>4. HashOK'
  BY DEF TableInv, HashOK
<1> QED BY <1>2, <1>3, <1>4 DEF TableInv, NumEntriesOf, NumTombstonesOf, EntriesOf, TombstonesOf, IsEntry

(* The operation after the step that may begin at the hash of its key.     *)
LEMMA OpTypeOf ==
  ASSUME TableInv, NEW name \in {"none"} \union Finds \union Inserts,
         NEW k \in MapKey, NEW v \in MapValue \union {NoMapValue}, NEW b \in Nat, NEW a \in Nat,
         NEW t \in Nat
  PROVE  [name |-> name, key |-> k, value |-> v, bucket |-> b, amt |-> a, tombstone |-> t]
           \in OpType
BY DEF OpType

(* What op is when nothing is under way.                                   *)
LEMMA NoOpIs == NoOp \in OpType /\ NoOp.name = "none"
BY DenseMapAssumption DEF NoOp, OpType, NoBucket

(* Nothing is under way.                                                   *)
LEMMA IdleInv ==
  ASSUME op' = NoOp
  PROVE  ProbeInv'
<1>1. op' \in OpType /\ op'.name = "none"
  BY NoOpIs
<1>2. "none" \notin Inserts
  BY DEF Inserts
<1> QED BY <1>1, <1>2 DEF ProbeInv, OpType

(* Where a probe is, if the table stays.                                   *)
LEMMA ProbedToNext ==
  ASSUME hash' = hash, Buckets' = Buckets, NEW i, ProbedTo(op', Buckets, NumBuckets, i)
  PROVE  ProbedTo(op, Buckets, NumBuckets, i)'
BY DEF ProbedTo, TombstoneSeen, GoesOnTo, Spot, NumBuckets, NumBucketsOf

(* A step that touches no bucket.                                          *)
LEMMA TableStays ==
  ASSUME TableInv,
         UNCHANGED << hash, Buckets, NumEntries, NumTombstones >>
  PROVE  TableInv' /\ NumBuckets' = NumBuckets
<1>1. NumBuckets' = NumBuckets
  BY DEF NumBuckets
<1>2. NumBuckets = 0 \/ GoodTable(Buckets', NumBuckets)
  BY DEF TableInv
<1> QED BY <1>1, <1>2, TableInvNext DEF TableInv

(* An operation begins.                                                    *)
LEMMA BeginInv ==
  ASSUME MapInv, NEW name \in Finds \union Inserts, NEW k \in MapKey,
         NEW v \in MapValue \union {NoMapValue}, name \in Inserts => v \in MapValue,
         begin(name, k, v)
  PROVE  MapInv'
<1>1. TableInv' /\ NumBuckets' = NumBuckets
  BY TableStays DEF MapInv, begin
<1>2. PICK n \in Nat : n = NumBuckets
  BY TableNumbers DEF MapInv
<1>3. PICK b : b = IF n = 0 THEN 0 ELSE hash[k] % n
  OBVIOUS
<1>4. op' = [name |-> name, key |-> k, value |-> v, bucket |-> b, amt |-> 1,
             tombstone |-> NoBucket]
  BY <1>2, <1>3 DEF begin, NoOp
<1>5. NoBucket \in Nat
  BY DenseMapAssumption DEF NoBucket
<1>6. CASE n = 0
  <2>1. b \in Nat
    BY <1>3, <1>6
  <2>2. op' \in OpType
    BY <1>4, <1>5, <2>1, OpTypeOf DEF MapInv
  <2> QED BY <1>1, <1>2, <1>4, <1>6, <2>2 DEF MapInv, ProbeInv, OpType
<1>7. CASE n # 0
  <2>1. Sized(n) /\ n >= 2 /\ HashOK
    BY <1>2, <1>7, TableNumbers DEF MapInv, TableInv, GoodTable
  <2>2. b = Spot(n, k, 0) /\ b \in 0 .. n - 1
    <3>1. Spot(n, k, 0) \in 0 .. n - 1
      BY <2>1, SpotIn
    <3> QED BY <1>3, <1>7, <2>1, <3>1, SpotFirst
  <2>3. op' \in OpType
    <3>1. b \in Nat
      BY <2>2
    <3> QED BY <1>4, <1>5, <3>1, OpTypeOf DEF MapInv
  <2>4. ProbedTo(op', Buckets, n, 0)
    <3>1. 0 \in 0 .. n - 1 /\ \A j : j \notin 0 .. 0 - 1
      BY <2>1
    <3>2. (0 + 1) % n = 1
      BY <2>1
    <3> QED BY <1>4, <2>2, <3>1, <3>2 DEF ProbedTo, GoesOnTo, TombstoneSeen
  <2>5. ProbedTo(op, Buckets, NumBuckets, 0)'
    BY <1>2, <2>4, ProbedToNext DEF begin
  <2> QED BY <1>1, <1>4, <2>3, <2>5 DEF MapInv, ProbeInv, OpType
<1> QED BY <1>6, <1>7

(* What is known of a probe under way.                                     *)
LEMMA Probe ==
  ASSUME MapInv, op.name # "none", NumBuckets # 0
  PROVE  /\ HashOK /\ Sized(NumBuckets) /\ NumBuckets \in Nat /\ op.key \in MapKey
         /\ GoodTable(Buckets, NumBuckets)
         /\ \E i \in Nat : ProbedTo(op, Buckets, NumBuckets, i)
         /\ op.bucket \in 0 .. NumBuckets - 1
<1>1. /\ HashOK /\ Sized(NumBuckets) /\ NumBuckets \in Nat /\ op.key \in MapKey
      /\ GoodTable(Buckets, NumBuckets)
  BY TableNumbers DEF MapInv, TableInv, ProbeInv, GoodTable
<1>2. PICK i \in Nat : ProbedTo(op, Buckets, NumBuckets, i)
  BY DEF MapInv, ProbeInv
<1>3. op.bucket \in 0 .. NumBuckets - 1
  BY <1>1, <1>2, SpotIn DEF ProbedTo
<1> QED BY <1>1, <1>2, <1>3

(* It goes on.                                                             *)
LEMMA ProbeNextInv ==
  ASSUME MapInv, probeNext
  PROVE  MapInv'
<1>1. TableInv' /\ NumBuckets' = NumBuckets
  BY TableStays DEF MapInv, probeNext
<1>2. op.name # "none" /\ NumBuckets # 0 /\ Buckets[op.bucket].key \notin {op.key, EmptyKey}
  BY DEF probeNext, Probing, This
<1>3. PICK n \in Nat, k \in MapKey, T \in {Buckets} :
         /\ n = NumBuckets /\ k = op.key /\ T = Buckets
         /\ HashOK /\ Sized(n) /\ GoodTable(T, n)
  BY <1>2, Probe
<1>4. PICK i \in Nat : ProbedTo(op, T, n, i)
  BY <1>2, <1>3, Probe
<1>5. n >= 2
  BY <1>3, SizeIs
<1>6. PICK e \in Nat : EndsAt(T, n, k, e)
  BY <1>3, EndExists DEF GoodTable
<1>7. PICK b : b = op.bucket /\ b = Spot(n, k, i) /\ b \in 0 .. n - 1
  BY <1>3, <1>4, SpotIn DEF ProbedTo
<1>8. GoesOnTo(T, n, k, i + 1)
  <2> SUFFICES ASSUME NEW j \in 0 .. (i + 1) - 1 PROVE T[Spot(n, k, j)].key \notin {k, EmptyKey}
    BY DEF GoesOnTo
  <2>1. CASE j = i
    BY <1>2, <1>3, <1>7, <2>1
  <2>2. CASE j # i
    <3>1. j \in 0 .. i - 1
      BY <2>2
    <3> QED BY <1>3, <1>4, <3>1 DEF ProbedTo, GoesOnTo
  <2> QED BY <2>1, <2>2
<1>9. i + 1 \in 0 .. n - 1
  <2>1. ~ (e <= i)
    <3> SUFFICES ASSUME e <= i PROVE FALSE
      OBVIOUS
    <3>1. e \in 0 .. (i + 1) - 1
      OBVIOUS
    <3> QED BY <1>6, <1>8, <3>1 DEF EndsAt, GoesOnTo
  <2>2. e \in 0 .. n - 1
    BY <1>6 DEF EndsAt
  <2> QED BY <2>1, <2>2
<1>10. PICK t : t = IF T[b].key = TombstoneKey /\ op.tombstone = NoBucket THEN b ELSE op.tombstone
  OBVIOUS
<1>11. op' = [op EXCEPT !.bucket = (@ + op.amt) % n, !.amt = (@ + 1) % n, !.tombstone = t]
  BY <1>3, <1>7, <1>10 DEF probeNext, This
<1>12. op \in OpType
  BY DEF MapInv, ProbeInv
<1>13. /\ op'.name = op.name /\ op'.key = k /\ op'.value = op.value
       /\ op'.bucket = (b + op.amt) % n /\ op'.amt = (op.amt + 1) % n /\ op'.tombstone = t
  BY <1>3, <1>7, <1>11, <1>12 DEF OpType
<1>14. op'.bucket = Spot(n, k, i + 1) /\ op'.amt = ((i + 1) + 1) % n
  <2>1. op.amt = (i + 1) % n
    BY <1>3, <1>4 DEF ProbedTo
  <2> QED BY <1>3, <1>7, <1>13, <2>1, SpotNext
<1>15. TombstoneSeen(T, n, k, i + 1, t)
  <2>0. TombstoneSeen(T, n, k, i, op.tombstone)
    BY <1>3, <1>4 DEF ProbedTo
  <2>1. CASE T[b].key = TombstoneKey /\ op.tombstone = NoBucket
    <3>1. t = b /\ i \in 0 .. (i + 1) - 1
      BY <1>10, <2>1
    <3>2. \A j \in 0 .. i - 1 : T[Spot(n, k, j)].key # TombstoneKey
      <4>1. \A j \in 0 .. i - 1 : Spot(n, k, j) # NoBucket
        <5> SUFFICES ASSUME NEW j \in 0 .. i - 1 PROVE Spot(n, k, j) # NoBucket
          OBVIOUS
        <5>1. j \in Nat
          OBVIOUS
        <5>2. Spot(n, k, j) \in 0 .. n - 1
          BY <1>3, <5>1, SpotIn
        <5>3. n <= MaxBuckets /\ MaxBuckets \in Nat
          BY <1>3, DenseMapAssumption DEF MapInv, TableInv
        <5> QED BY <5>2, <5>3 DEF NoBucket
      <4> QED BY <2>0, <2>1, <4>1 DEF TombstoneSeen
    <3> QED BY <1>7, <2>1, <3>1, <3>2 DEF TombstoneSeen
  <2>2. CASE T[b].key = TombstoneKey /\ op.tombstone # NoBucket
    <3>1. t = op.tombstone
      BY <1>10, <2>2
    <3>2. PICK j \in 0 .. i - 1 :
             /\ t = Spot(n, k, j) /\ T[t].key = TombstoneKey
             /\ \A l \in 0 .. j - 1 : T[Spot(n, k, l)].key # TombstoneKey
      BY <2>0, <2>2, <3>1 DEF TombstoneSeen
    <3>3. j \in 0 .. (i + 1) - 1
      OBVIOUS
    <3> QED BY <3>2, <3>3 DEF TombstoneSeen
  <2>3. CASE T[b].key # TombstoneKey
    <3>1. t = op.tombstone
      BY <1>10, <2>3
    <3>2. CASE t = NoBucket /\ \A j \in 0 .. i - 1 : T[Spot(n, k, j)].key # TombstoneKey
      <4>1. \A j \in 0 .. (i + 1) - 1 : j \in 0 .. i - 1 \/ j = i
        OBVIOUS
      <4> QED BY <1>7, <2>3, <3>2, <4>1 DEF TombstoneSeen
    <3>3. CASE \E j \in 0 .. i - 1 :
                 /\ t = Spot(n, k, j) /\ T[t].key = TombstoneKey
                 /\ \A l \in 0 .. j - 1 : T[Spot(n, k, l)].key # TombstoneKey
      <4>1. \A j \in 0 .. i - 1 : j \in 0 .. (i + 1) - 1
        OBVIOUS
      <4> QED BY <3>3, <4>1 DEF TombstoneSeen
    <3> QED BY <2>0, <3>1, <3>2, <3>3 DEF TombstoneSeen
  <2> QED BY <2>1, <2>2, <2>3
<1>16. ProbedTo(op', T, n, i + 1)
  BY <1>8, <1>9, <1>13, <1>14, <1>15 DEF ProbedTo
<1>17. ProbedTo(op, Buckets, NumBuckets, i + 1)'
  BY <1>3, <1>16, ProbedToNext DEF probeNext
<1>18. op' \in OpType
  <2>1. t \in Nat
    BY <1>7, <1>10, <1>12 DEF OpType
  <2>2. Spot(n, k, i + 1) \in Nat
    <3>1. i + 1 \in Nat
      OBVIOUS
    <3> QED BY <1>3, <3>1, SpotIn
  <2>3. ((i + 1) + 1) % n \in Nat
    BY <1>5, DivMod
  <2>4. op'.bucket \in Nat /\ op'.amt \in Nat
    BY <1>14, <2>2, <2>3
  <2>5. (op.bucket + op.amt) % n \in Nat /\ (op.amt + 1) % n \in Nat
    BY <1>7, <1>13, <2>4
  <2> QED BY <1>11, <1>12, <2>1, <2>5 DEF OpType
<1>19. ProbeInv'
  <2>1. i + 1 \in Nat
    OBVIOUS
  <2>2. op'.name # "none" => op'.key \in MapKey
    BY <1>3, <1>13
  <2>3. op'.name \in Inserts => op'.value \in MapValue
    BY <1>13 DEF MapInv, ProbeInv
  <2> QED BY <1>17, <1>18, <2>1, <2>2, <2>3 DEF ProbeInv
<1> QED BY <1>1, <1>19 DEF MapInv

(***************************************************************************)
(* What the map holds                                                      *)
(***************************************************************************)

ContentsIn(T, n) ==
  [k \in MapKey |->
     IF HasKey(T, n, k) THEN T[CHOOSE i \in 0 .. n - 1 : T[i].key = k].value ELSE NoMapValue]

(* A good table, or none, holds for every key the values of its entries.   *)
LEMMA ContentsAre ==
  ASSUME HashOK, NEW n \in Nat, NEW T, n = 0 \/ GoodTable(T, n)
  PROVE  /\ ContentsIn(T, n) \in [MapKey -> MapValue \union {NoMapValue}]
         /\ \A k \in MapKey, v \in MapValue :
              ContentsIn(T, n)[k] = v <=> Holds(T, n, Bucket(k, v))
         /\ \A k \in MapKey : ContentsIn(T, n)[k] = NoMapValue <=> ~ HasKey(T, n, k)
<1>1. PICK c : c = ContentsIn(T, n)
  OBVIOUS
<1>2. ASSUME NEW k \in MapKey, HasKey(T, n, k)
      PROVE  \E i \in 0 .. n - 1 : /\ T[i].key = k /\ c[k] = T[i].value /\ c[k] \in MapValue
                                   /\ T[i] = Bucket(k, c[k])
  <2>1. PICK i : i = CHOOSE j \in 0 .. n - 1 : T[j].key = k
    OBVIOUS
  <2>2. i \in 0 .. n - 1 /\ T[i].key = k
    BY <1>2, <2>1 DEF HasKey
  <2>3. c[k] = T[i].value
    BY <1>1, <1>2, <2>1 DEF ContentsIn
  <2>4. GoodTable(T, n)
    BY <1>2, NoBuckets
  <2>5. T[i] \in BucketType
    BY <2>2, <2>4 DEF GoodTable, TableOf
  <2>6. T[i].value # NoMapValue
    BY <2>2, <2>4 DEF GoodTable, OnlyEntriesHaveValues, IsEntry
  <2> QED BY <2>2, <2>3, <2>5, <2>6 DEF BucketType, Bucket
<1>3. ASSUME NEW k \in MapKey, ~ HasKey(T, n, k)
      PROVE  c[k] = NoMapValue
  BY <1>1, <1>3 DEF ContentsIn
<1>4. c \in [MapKey -> MapValue \union {NoMapValue}]
  <2>1. \A k \in MapKey : c[k] \in MapValue \union {NoMapValue}
    BY <1>2, <1>3
  <2>2. c = [k \in MapKey |-> c[k]]
    BY <1>1 DEF ContentsIn
  <2> QED BY <2>1, <2>2
<1>5. \A k \in MapKey : c[k] = NoMapValue <=> ~ HasKey(T, n, k)
  BY <1>2, <1>3, DenseMapAssumption
<1>6. ASSUME NEW k \in MapKey, NEW v \in MapValue
      PROVE  c[k] = v <=> Holds(T, n, Bucket(k, v))
  <2>1. ASSUME c[k] = v PROVE Holds(T, n, Bucket(k, v))
    <3>1. HasKey(T, n, k)
      BY <1>3, <2>1, DenseMapAssumption
    <3>2. PICK i \in 0 .. n - 1 : T[i] = Bucket(k, c[k])
      BY <1>2, <3>1
    <3> QED BY <2>1, <3>2 DEF Holds
  <2>2. ASSUME Holds(T, n, Bucket(k, v)) PROVE c[k] = v
    <3>1. PICK j \in 0 .. n - 1 : T[j] = Bucket(k, v)
      BY <2>2 DEF Holds
    <3>2. T[j].key = k /\ T[j].value = v
      BY <3>1 DEF Bucket
    <3>3. HasKey(T, n, k)
      BY <3>2 DEF HasKey
    <3>4. PICK i \in 0 .. n - 1 : T[i].key = k /\ c[k] = T[i].value
      BY <1>2, <3>3
    <3>5. GoodTable(T, n)
      BY <3>3, NoBuckets
    <3>6. i = j
      BY <3>2, <3>4, <3>5, OneEntry
    <3> QED BY <3>2, <3>4, <3>6
  <2> QED BY <2>1, <2>2
<1> QED BY <1>1, <1>4, <1>5, <1>6

(* The same, but for one key.                                              *)
With(c, k, x) == [c EXCEPT ![k] = x]

(* The table the specification maps to the dictionary is this one.         *)
LEMMA ContentsIs ==
  ASSUME NEW n, DOMAIN Buckets = 0 .. n - 1
  PROVE  Contents = ContentsIn(Buckets, n)
BY DEF Contents, ContentsIn, HasKey

(* The contents after a step are those of the table after it.              *)
LEMMA ContentsNext ==
  ASSUME NEW n, DOMAIN (Buckets') = 0 .. n - 1
  PROVE  Contents' = ContentsIn(Buckets', n)
BY DEF Contents, ContentsIn, HasKey

(* Two tables that hold the same entries but for those of one key hold the *)
(* same for the others.                                                    *)
LEMMA ContentsChange ==
  ASSUME HashOK, NEW n \in Nat, NEW T, n = 0 \/ GoodTable(T, n),
         NEW m \in Nat, NEW U, m = 0 \/ GoodTable(U, m),
         NEW k \in MapKey, NEW x \in MapValue \union {NoMapValue},
         \A b : IsEntry(b) /\ b.key # k => (Holds(U, m, b) <=> Holds(T, n, b)),
         \A v \in MapValue : Holds(U, m, Bucket(k, v)) <=> v = x
  PROVE  ContentsIn(U, m) = With(ContentsIn(T, n), k, x)
<1>1. PICK c \in [MapKey -> MapValue \union {NoMapValue}] :
         /\ c = ContentsIn(T, n)
         /\ \A l \in MapKey, v \in MapValue : c[l] = v <=> Holds(T, n, Bucket(l, v))
  BY ContentsAre
<1>2. PICK d \in [MapKey -> MapValue \union {NoMapValue}] :
         /\ d = ContentsIn(U, m)
         /\ \A l \in MapKey, v \in MapValue : d[l] = v <=> Holds(U, m, Bucket(l, v))
  BY ContentsAre
<1>3. ASSUME NEW l \in MapKey PROVE d[l] = IF l = k THEN x ELSE c[l]
  <2>1. CASE l = k
    <3>1. \A v \in MapValue : d[k] = v <=> v = x
      BY <1>2
    <3>2. d[k] \in MapValue \union {NoMapValue}
      OBVIOUS
    <3> QED BY <2>1, <3>1, <3>2
  <2>2. CASE l # k
    <3>1. \A v \in MapValue : IsEntry(Bucket(l, v)) /\ Bucket(l, v).key = l
      BY BucketTypes
    <3>2. \A v \in MapValue : Holds(U, m, Bucket(l, v)) <=> Holds(T, n, Bucket(l, v))
      BY <2>2, <3>1
    <3>3. \A v \in MapValue : d[l] = v <=> c[l] = v
      BY <1>1, <1>2, <3>2
    <3>4. d[l] \in MapValue \union {NoMapValue} /\ c[l] \in MapValue \union {NoMapValue}
      OBVIOUS
    <3> QED BY <2>2, <3>3, <3>4
  <2> QED BY <2>1, <2>2
<1>4. d = [c EXCEPT ![k] = x]
  BY <1>3
<1> QED BY <1>1, <1>2, <1>4 DEF With

-----------------------------------------------------------------------------
(***************************************************************************)
(* The ends of the operations: the invariant, and the dictionary           *)
(***************************************************************************)

(* Nothing is in a table of no buckets, so it is as any other.             *)
LEMMA TheTable ==
  ASSUME MapInv
  PROVE  /\ HashOK /\ NumBuckets \in Nat /\ NumBuckets \in 0 .. MaxBuckets
         /\ DOMAIN Buckets = 0 .. NumBuckets - 1
         /\ NumBuckets = 0 \/ GoodTable(Buckets, NumBuckets)
         /\ NumEntries = NumEntriesOf(Buckets, NumBuckets)
         /\ NumTombstones = NumTombstonesOf(Buckets, NumBuckets)
         /\ Contents = ContentsIn(Buckets, NumBuckets)
BY TableNumbers, ContentsIs DEF MapInv, TableInv

(* The entry a probe found.                                                *)
LEMMA FoundEntry ==
  ASSUME MapInv, Probing, This.key = op.key
  PROVE  /\ op.bucket \in 0 .. NumBuckets - 1 /\ IsEntry(Buckets[op.bucket])
         /\ Buckets[op.bucket].key = op.key
         /\ op.key \in MapKey /\ NumBuckets # 0 /\ GoodTable(Buckets, NumBuckets)
         /\ Contents[op.key] = This.value /\ This.value \in MapValue
<1>1. op.name # "none" /\ NumBuckets # 0
  BY DEF Probing
<1>2. /\ op.bucket \in 0 .. NumBuckets - 1 /\ op.key \in MapKey /\ NumBuckets \in Nat /\ HashOK
      /\ GoodTable(Buckets, NumBuckets)
  BY <1>1, Probe
<1>3. Buckets[op.bucket].key = op.key /\ IsEntry(Buckets[op.bucket])
  BY <1>2 DEF This, IsEntry
<1>4. Buckets[op.bucket] \in BucketType
  BY <1>2 DEF GoodTable, TableOf
<1>5. Buckets[op.bucket].value # NoMapValue
  BY <1>2, <1>3 DEF GoodTable, OnlyEntriesHaveValues
<1>6. This.value \in MapValue /\ Buckets[op.bucket] = Bucket(op.key, This.value)
  BY <1>3, <1>4, <1>5 DEF This, BucketType, Bucket
<1>7. Holds(Buckets, NumBuckets, Bucket(op.key, This.value))
  BY <1>2, <1>6 DEF Holds
<1>8. ContentsIn(Buckets, NumBuckets)[op.key] = This.value
  BY <1>2, <1>6, <1>7, ContentsAre
<1> QED BY <1>1, <1>2, <1>3, <1>6, <1>8, TheTable

(* A lookup of a key that is there, and an insertion that finds it.        *)
LEMMA FoundKept ==
  ASSUME MapInv, found, op.name \notin {"insert_or_assign", "erase"}
  PROVE  MapInv' /\ Map!Next
<1>1. Probing /\ This.key = op.key
  BY DEF found
<1>2. op.name \in {"lookup", "try_emplace"}
  BY <1>1 DEF Probing, MapInv, ProbeInv, OpType, Finds, Inserts
<1>3. /\ UNCHANGED << hash, Buckets, NumEntries, NumTombstones >>
      /\ op' = NoOp /\ mapAnswer' = This.value
  BY <1>2 DEF found, Done
<1>4. MapInv'
  BY <1>3, TableStays, IdleInv DEF MapInv
<1>5. Contents' = Contents
  BY <1>3 DEF Contents
<1>6. op.key \in MapKey /\ Contents[op.key] = This.value /\ This.value # NoMapValue
  BY <1>1, FoundEntry, DenseMapAssumption
<1>7. CASE op.name = "lookup"
  <2>1. Map!Lookup(op.key)
    BY <1>3, <1>5, <1>6 DEF Map!Lookup
  <2> QED BY <1>4, <1>6, <2>1 DEF Map!Next
<1>8. CASE op.name = "try_emplace"
  <2>1. op.value \in MapValue
    BY <1>8 DEF MapInv, ProbeInv, Inserts
  <2>2. Contents = [Contents EXCEPT ![op.key] = Contents[op.key]]
    BY DEF Contents
  <2>3. Map!Insert(op.key, op.value)
    BY <1>3, <1>5, <1>6, <2>2 DEF Map!Insert
  <2> QED BY <1>4, <1>6, <2>1, <2>3 DEF Map!Next
<1> QED BY <1>2, <1>7, <1>8

(* A step that leaves a good table, or none, of which it is known how what *)
(* it holds of one key has changed.                                        *)
LEMMA TableChanges ==
  ASSUME MapInv, hash' = hash, op' = NoOp,
         NEW m \in 0 .. MaxBuckets, DOMAIN (Buckets') = 0 .. m - 1,
         m = 0 \/ GoodTable(Buckets', m),
         NumEntries' = NumEntriesOf(Buckets', m),
         NumTombstones' = NumTombstonesOf(Buckets', m),
         NEW k \in MapKey, NEW x \in MapValue \union {NoMapValue},
         \A b : IsEntry(b) =>
           (Holds(Buckets', m, b) <=>
              \/ Holds(Buckets, NumBuckets, b) /\ b.key # k
              \/ x # NoMapValue /\ b = Bucket(k, x))
  PROVE  MapInv' /\ Contents' = With(Contents, k, x)
<1>1. TableInv'
  BY TableInvNext DEF MapInv
<1>2. ProbeInv'
  BY IdleInv
<1>3. m \in Nat
  BY DenseMapAssumption
<1>4. \A b : IsEntry(b) /\ b.key # k =>
        (Holds(Buckets', m, b) <=> Holds(Buckets, NumBuckets, b))
  BY DEF Bucket
<1>5. ASSUME NEW v \in MapValue PROVE Holds(Buckets', m, Bucket(k, v)) <=> v = x
  <2>1. IsEntry(Bucket(k, v)) /\ Bucket(k, v).key = k /\ Bucket(k, v).value = v
    BY BucketTypes
  <2>2. Bucket(k, v) = Bucket(k, x) <=> v = x
    BY DEF Bucket
  <2>3. v # NoMapValue
    BY DenseMapAssumption
  <2> QED BY <2>1, <2>2, <2>3
<1>6. PICK U : U = Buckets'
  OBVIOUS
<1>7. ContentsIn(U, m) = With(ContentsIn(Buckets, NumBuckets), k, x)
  <2>1. \A b : IsEntry(b) /\ b.key # k => (Holds(U, m, b) <=> Holds(Buckets, NumBuckets, b))
    BY <1>4, <1>6
  <2>2. \A v \in MapValue : Holds(U, m, Bucket(k, v)) <=> v = x
    BY <1>5, <1>6
  <2>3. m = 0 \/ GoodTable(U, m)
    BY <1>6
  <2>4. PICK T, n : T = Buckets /\ n = NumBuckets
    OBVIOUS
  <2>5. HashOK /\ n \in Nat /\ (n = 0 \/ GoodTable(T, n))
    BY <2>4, TheTable
  <2>6. \A b : IsEntry(b) /\ b.key # k => (Holds(U, m, b) <=> Holds(T, n, b))
    BY <2>1, <2>4
  <2>7. ContentsIn(U, m) = With(ContentsIn(T, n), k, x)
    BY <1>3, <2>2, <2>3, <2>5, <2>6, ContentsChange
  <2> QED BY <2>4, <2>7
<1>8. Contents' = ContentsIn(U, m)
  BY <1>6, ContentsNext
<1> QED BY <1>1, <1>2, <1>7, <1>8, TheTable DEF MapInv

(* insert_or_assign of a key that is there.                                *)
LEMMA FoundAssigned ==
  ASSUME MapInv, found, op.name = "insert_or_assign"
  PROVE  MapInv' /\ Map!Next
<1>1. Probing /\ This.key = op.key
  BY DEF found
<1>2. PICK n \in Nat, k \in MapKey, t \in Nat, v \in MapValue :
        /\ n = NumBuckets /\ k = op.key /\ t = op.bucket /\ v = op.value
        /\ n # 0 /\ n \in 0 .. MaxBuckets /\ t \in 0 .. n - 1
  <2>1. op.value \in MapValue
    BY DEF MapInv, ProbeInv, Inserts
  <2> QED BY <1>1, <2>1, FoundEntry, TheTable
<1>3. /\ hash' = hash /\ op' = NoOp /\ mapAnswer' = v
      /\ Buckets' = PutValue(Buckets, t, v)
      /\ NumEntries' = NumEntries /\ NumTombstones' = NumTombstones
  BY <1>2 DEF found, Done, PutValue
<1>4. IsEntry(Buckets[t]) /\ Buckets[t].key = k /\ GoodTable(Buckets, n) /\ HashOK
  BY <1>1, <1>2, FoundEntry, TheTable
<1>5. PICK U : U = Buckets'
  OBVIOUS
<1>6. /\ GoodTable(U, n)
      /\ \A i \in 0 .. n - 1 : U[i].key = Buckets[i].key
      /\ \A b : IsEntry(b) =>
           (Holds(U, n, b) <=>
              b = Bucket(k, v) \/ (Holds(Buckets, n, b) /\ b.key # k))
  <2>1. U = PutValue(Buckets, t, v)
    BY <1>3, <1>5
  <2> QED BY <1>2, <1>4, <2>1, Assigned
<1>7. NumEntries' = NumEntriesOf(U, n) /\ NumTombstones' = NumTombstonesOf(U, n)
  BY <1>2, <1>3, <1>6, CountSameKeys, TheTable
<1>8. DOMAIN U = 0 .. n - 1
  BY <1>6 DEF GoodTable, TableOf
<1>9. v # NoMapValue
  BY DenseMapAssumption
<1>10. MapInv' /\ Contents' = With(Contents, k, v)
  <2>1. /\ DOMAIN (Buckets') = 0 .. n - 1 /\ GoodTable(Buckets', n)
        /\ NumEntries' = NumEntriesOf(Buckets', n)
        /\ NumTombstones' = NumTombstonesOf(Buckets', n)
    BY <1>5, <1>6, <1>7, <1>8
  <2>2. \A b : IsEntry(b) =>
           (Holds(Buckets', n, b) <=>
              \/ Holds(Buckets, NumBuckets, b) /\ b.key # k
              \/ v # NoMapValue /\ b = Bucket(k, v))
    BY <1>2, <1>5, <1>6, <1>9
  <2> QED BY <1>2, <1>3, <2>1, <2>2, TableChanges
<1>11. Map!Assign(k, v)
  BY <1>3, <1>10 DEF Map!Assign, With
<1> QED BY <1>10, <1>11 DEF Map!Next

(* erase.                                                                  *)
LEMMA FoundErased ==
  ASSUME MapInv, found, op.name = "erase"
  PROVE  MapInv' /\ Map!Next
<1>1. Probing /\ This.key = op.key
  BY DEF found
<1>2. PICK n \in Nat, k \in MapKey, t \in Nat :
        /\ n = NumBuckets /\ k = op.key /\ t = op.bucket
        /\ n # 0 /\ n \in 0 .. MaxBuckets /\ t \in 0 .. n - 1
  BY <1>1, FoundEntry, TheTable
<1>3. /\ hash' = hash /\ op' = NoOp /\ mapAnswer' = This.value
      /\ Buckets' = Put(Buckets, t, Bucket(TombstoneKey, NoMapValue))
      /\ NumEntries' = NumEntries - 1 /\ NumTombstones' = NumTombstones + 1
  BY <1>2 DEF found, Done, Put
<1>4. /\ IsEntry(Buckets[t]) /\ Buckets[t].key = k /\ GoodTable(Buckets, n) /\ HashOK
      /\ Contents[k] = This.value
  BY <1>1, <1>2, FoundEntry, TheTable
<1>5. PICK U : U = Buckets'
  OBVIOUS
<1>6. U = Put(Buckets, t, Bucket(TombstoneKey, NoMapValue))
  BY <1>3, <1>5
<1>7. /\ GoodTable(U, n)
      /\ \A b : IsEntry(b) => (Holds(U, n, b) <=> Holds(Buckets, n, b) /\ b.key # k)
  BY <1>2, <1>4, <1>6, Erased
<1>8. NumEntries' = NumEntriesOf(U, n) /\ NumTombstones' = NumTombstonesOf(U, n)
  <2>1. Buckets \in TableOf(n)
    BY <1>4 DEF GoodTable
  <2>2. NumEntriesOf(U, n) = NumEntriesOf(Buckets, n) - 1
        /\ NumTombstonesOf(U, n) = NumTombstonesOf(Buckets, n) + 1
    BY <1>2, <1>4, <1>6, <2>1, CountErased
  <2> QED BY <1>2, <1>3, <2>2, TheTable
<1>9. DOMAIN U = 0 .. n - 1
  BY <1>7 DEF GoodTable, TableOf
<1>10. MapInv' /\ Contents' = With(Contents, k, NoMapValue)
  <2>1. \A b : IsEntry(b) =>
           (Holds(Buckets', n, b) <=>
              \/ Holds(Buckets, NumBuckets, b) /\ b.key # k
              \/ NoMapValue # NoMapValue /\ b = Bucket(k, NoMapValue))
    BY <1>2, <1>5, <1>7
  <2>2. /\ DOMAIN (Buckets') = 0 .. n - 1 /\ GoodTable(Buckets', n)
        /\ NumEntries' = NumEntriesOf(Buckets', n)
        /\ NumTombstones' = NumTombstonesOf(Buckets', n)
    BY <1>5, <1>7, <1>8, <1>9
  <2> QED BY <1>2, <1>3, <2>1, <2>2, TableChanges
<1>11. Map!Erase(k)
  BY <1>3, <1>4, <1>10 DEF Map!Erase, With
<1> QED BY <1>10, <1>11 DEF Map!Next

(* found keeps the invariant, and is a step of the dictionary.             *)
LEMMA FoundInv ==
  ASSUME MapInv, found
  PROVE  MapInv' /\ Map!Next
BY FoundKept, FoundAssigned, FoundErased

(* A probe that ended at an empty bucket, or in a table without buckets:   *)
(* the key is not there.                                                   *)
LEMMA KeyAbsent ==
  ASSUME MapInv, ProbeEnded
  PROVE  /\ op.key \in MapKey /\ ~ HasKey(Buckets, NumBuckets, op.key)
         /\ Contents[op.key] = NoMapValue
         /\ NumBuckets # 0 =>
              \E i \in Nat : /\ ProbedTo(op, Buckets, NumBuckets, i)
                             /\ EndsAt(Buckets, NumBuckets, op.key, i)
                             /\ Buckets[op.bucket].key = EmptyKey
<1>1. op.key \in MapKey
  BY DEF MapInv, ProbeInv, ProbeEnded
<1>2. CASE NumBuckets = 0
  <2>1. ~ HasKey(Buckets, NumBuckets, op.key)
    BY <1>2, NoBuckets
  <2> QED BY <1>1, <1>2, <2>1, TheTable, ContentsAre
<1>3. CASE NumBuckets # 0
  <2>1. /\ HashOK /\ NumBuckets \in Nat /\ GoodTable(Buckets, NumBuckets)
        /\ op.bucket \in 0 .. NumBuckets - 1
    BY <1>3, Probe DEF ProbeEnded
  <2>2. PICK i \in Nat : ProbedTo(op, Buckets, NumBuckets, i)
    BY <1>3, Probe DEF ProbeEnded
  <2>3. Buckets[op.bucket].key = EmptyKey
    BY <1>3 DEF ProbeEnded, This
  <2>4. EndsAt(Buckets, NumBuckets, op.key, i) /\ op.bucket = Spot(NumBuckets, op.key, i)
    BY <2>2, <2>3 DEF ProbedTo, EndsAt
  <2>5. ~ HasKey(Buckets, NumBuckets, op.key)
    <3>1. op.key # EmptyKey
      BY <1>1, Markers
    <3> QED BY <1>1, <2>1, <2>3, <2>4, <3>1, EndHasKey
  <2>6. Contents[op.key] = NoMapValue
    BY <1>1, <2>1, <2>5, TheTable, ContentsAre
  <2> QED BY <1>1, <2>2, <2>3, <2>4, <2>5, <2>6
<1> QED BY <1>2, <1>3

(* notFound keeps the invariant, and is a step of the dictionary.          *)
LEMMA NotFoundInv ==
  ASSUME MapInv, notFound
  PROVE  MapInv' /\ Map!Next
<1>1. /\ UNCHANGED << hash, Buckets, NumEntries, NumTombstones >>
      /\ op' = NoOp /\ mapAnswer' = NoMapValue /\ ProbeEnded /\ op.name \in Finds
  BY DEF notFound, Done
<1>2. MapInv'
  BY <1>1, TableStays, IdleInv DEF MapInv
<1>3. Contents' = Contents
  BY <1>1 DEF Contents
<1>4. op.key \in MapKey /\ Contents[op.key] = NoMapValue
  BY <1>1, KeyAbsent
<1>5. Map!Lookup(op.key)
  BY <1>1, <1>3, <1>4 DEF Map!Lookup
<1> QED BY <1>2, <1>4, <1>5 DEF Map!Next

(* What an insertion leaves: the entries there were and its own.           *)
Inserted(m) ==
  /\ m \in 0 .. MaxBuckets /\ GoodTable(Buckets', m)
  /\ NumEntries' = NumEntriesOf(Buckets', m)
  /\ NumTombstones' = NumTombstonesOf(Buckets', m)
  /\ \A b : IsEntry(b) =>
       (Holds(Buckets', m, b) <=>
          Holds(Buckets, NumBuckets, b) \/ b = Bucket(op.key, op.value))

(* It fills a tombstone of its probe or the bucket at its end.             *)
LEMMA InsertedKept ==
  ASSUME MapInv, insert, TableForInsert = Buckets, NumBuckets # 0,
         NumEntries + 1 + NumTombstones < NumBuckets
  PROVE  Inserted(NumBuckets)
<1>1. /\ ProbeEnded /\ op.name \in Inserts
      /\ NumEntries' = NumEntries + 1
  BY DEF insert
<1>2. PICK n \in Nat, k \in MapKey, v \in MapValue, T \in {Buckets} :
        /\ n = NumBuckets /\ k = op.key /\ v = op.value /\ T = Buckets
        /\ HashOK /\ GoodTable(T, n) /\ Sized(n) /\ n \in 0 .. MaxBuckets
        /\ NumEntries = NumEntriesOf(T, n) /\ NumTombstones = NumTombstonesOf(T, n)
        /\ ~ HasKey(T, n, k)
  <2>1. op.value \in MapValue
    BY <1>1 DEF MapInv, ProbeInv
  <2>2. Sized(NumBuckets)
    BY TheTable DEF GoodTable
  <2> QED BY <1>1, <2>1, <2>2, TheTable, KeyAbsent
<1>3. PICK i \in Nat : /\ ProbedTo(op, T, n, i) /\ EndsAt(T, n, k, i)
                       /\ T[op.bucket].key = EmptyKey
  BY <1>1, <1>2, KeyAbsent
<1>4. PICK t : t = IF op.tombstone = NoBucket THEN op.bucket ELSE op.tombstone
  OBVIOUS
<1>5. /\ Buckets' = Put(T, t, Bucket(k, v))
      /\ NumTombstones' = IF T[t].key = EmptyKey THEN NumTombstones ELSE NumTombstones - 1
  BY <1>2, <1>4 DEF insert, Put
<1>6. PICK j \in Nat :
        /\ j \in 0 .. n - 1 /\ t = Spot(n, k, j) /\ GoesOnTo(T, n, k, j)
        /\ \A l \in 0 .. j - 1 : Spot(n, k, l) # t
        /\ T[t].key \in {EmptyKey, TombstoneKey}
  <2>1. \A l \in Nat : Spot(n, k, l) \in 0 .. n - 1
    BY <1>2, SpotIn
  <2>2. n <= MaxBuckets /\ MaxBuckets \in Nat
    BY <1>2, DenseMapAssumption
  <2>3. \A l \in Nat : Spot(n, k, l) # NoBucket
    BY <2>1, <2>2 DEF NoBucket
  <2>4. i \in 0 .. n - 1 /\ GoesOnTo(T, n, k, i)
    BY <1>3 DEF EndsAt
  <2>5. CASE op.tombstone = NoBucket
    <3>1. t = Spot(n, k, i) /\ T[t].key = EmptyKey
      BY <1>2, <1>3, <1>4, <2>5 DEF ProbedTo
    <3>2. \A l \in 0 .. i - 1 : Spot(n, k, l) # t
      BY <1>2, <1>3, <3>1, FilledEnd
    <3> QED BY <2>4, <3>1, <3>2
  <2>6. CASE op.tombstone # NoBucket
    <3>1. t = op.tombstone
      BY <1>4, <2>6
    <3>2. PICK j \in 0 .. i - 1 :
             /\ t = Spot(n, k, j) /\ T[t].key = TombstoneKey
             /\ \A l \in 0 .. j - 1 : T[Spot(n, k, l)].key # TombstoneKey
      BY <1>2, <1>3, <2>6, <3>1 DEF ProbedTo, TombstoneSeen
    <3>3. \A l \in 0 .. j - 1 : l \in 0 .. i - 1 /\ Spot(n, k, l) # t
      BY <3>2
    <3>4. GoesOnTo(T, n, k, j)
      BY <2>4, <3>3 DEF GoesOnTo
    <3>5. j \in Nat /\ j \in 0 .. n - 1
      BY <2>4
    <3> QED BY <3>2, <3>3, <3>4, <3>5
  <2> QED BY <2>5, <2>6
<1>7. t \in 0 .. n - 1
  BY <1>2, <1>6, SpotIn
<1>8. ~ IsEntry(T[t])
  BY <1>6, Markers DEF IsEntry
<1>9. T \in TableOf(n)
  BY <1>2 DEF GoodTable
<1>10. PICK U : U = Buckets' /\ U = Put(T, t, Bucket(k, v))
  BY <1>5
<1>11. /\ U \in TableOf(n)
       /\ NumEntriesOf(U, n) = NumEntriesOf(T, n) + 1
       /\ NumTombstonesOf(U, n) =
            IF T[t].key = TombstoneKey THEN NumTombstonesOf(T, n) - 1
            ELSE NumTombstonesOf(T, n)
  BY <1>7, <1>8, <1>9, <1>10, CountFilled
<1>12. NumEntries' = NumEntriesOf(U, n) /\ NumTombstones' = NumTombstonesOf(U, n)
  BY <1>1, <1>2, <1>5, <1>6, <1>11, Markers
<1>13. HasKey(U, n, EmptyKey)
  <2>1. NumEntriesOf(T, n) \in Nat /\ NumTombstonesOf(T, n) \in Nat
    BY Countable
  <2>2. NumEntriesOf(U, n) + NumTombstonesOf(U, n) < n
    BY <1>2, <1>11, <2>1
  <2> QED BY <1>11, <2>2, EmptyLeft
<1>14. /\ GoodTable(U, n)
       /\ \A b : IsEntry(b) => (Holds(U, n, b) <=> Holds(T, n, b) \/ b = Bucket(k, v))
  BY <1>2, <1>6, <1>7, <1>8, <1>10, <1>13, Filled
<1> QED BY <1>2, <1>10, <1>12, <1>14 DEF Inserted

(* A table it was carried to is probed again.                              *)
LEMMA InsertedGrown ==
  ASSUME MapInv, insert, TableForInsert # Buckets,
         NEW m, Sized(m), NumEntries + 1 < m, Carries(TableForInsert, m, Buckets, NumBuckets)
  PROVE  Inserted(m)
<1>1. /\ ProbeEnded /\ op.name \in Inserts
      /\ NumEntries' = NumEntries + 1 /\ NumTombstones' = 0
      /\ NumBucketsOf(TableForInsert) <= MaxBuckets
  BY DEF insert
<1>2. PICK k \in MapKey, v \in MapValue, T \in {TableForInsert} :
        /\ k = op.key /\ v = op.value /\ T = TableForInsert
        /\ HashOK /\ ~ HasKey(Buckets, NumBuckets, k)
        /\ NumEntries = NumEntriesOf(Buckets, NumBuckets)
  <2>1. op.value \in MapValue
    BY <1>1 DEF MapInv, ProbeInv
  <2> QED BY <1>1, <2>1, TheTable, KeyAbsent
<1>3. /\ m \in Nat /\ GoodTable(T, m) /\ T \in TableOf(m) /\ HasKey(T, m, EmptyKey)
      /\ NumEntriesOf(T, m) = NumEntries /\ NumTombstonesOf(T, m) = 0
      /\ \A b : IsEntry(b) => (Holds(T, m, b) <=> Holds(Buckets, NumBuckets, b))
  BY <1>2, SizeIs DEF Carries, GoodTable
<1>4. m \in 0 .. MaxBuckets
  <2>1. DOMAIN T = 0 .. m - 1
    BY <1>3 DEF TableOf
  <2>2. NumBucketsOf(T) = m
    BY <1>3, <2>1, TableSize
  <2> QED BY <1>1, <1>2, <1>3, <2>2, DenseMapAssumption
<1>5. ~ HasKey(T, m, k)
  <2> SUFFICES ASSUME HasKey(T, m, k) PROVE FALSE
    OBVIOUS
  <2>1. PICK i \in 0 .. m - 1 : T[i].key = k
    BY DEF HasKey
  <2>2. IsEntry(T[i]) /\ Holds(T, m, T[i])
    BY <2>1 DEF IsEntry, Holds
  <2>3. Holds(Buckets, NumBuckets, T[i])
    BY <1>3, <2>2
  <2> QED BY <1>2, <2>1, <2>3 DEF Holds, HasKey
<1>6. PICK i \in Nat : EndsAt(T, m, k, i)
  BY <1>2, <1>3, EndExists
<1>7. PICK t \in 0 .. m - 1 : t = Spot(m, k, i)
  BY <1>2, SpotIn
<1>8. BucketFor(T, k) = t
  BY <1>3, <1>6, <1>7, BucketForEnd
<1>9. T[t].key = EmptyKey /\ ~ IsEntry(T[t]) /\ T[t].key # TombstoneKey
  BY <1>2, <1>3, <1>5, <1>6, <1>7, EndHasKey, Markers DEF IsEntry
<1>10. Buckets' = Put(T, t, Bucket(k, v))
  BY <1>2, <1>8 DEF insert, Put
<1>11. PICK U : U = Buckets' /\ U = Put(T, t, Bucket(k, v))
  BY <1>10
<1>12. /\ U \in TableOf(m)
       /\ NumEntriesOf(U, m) = NumEntriesOf(T, m) + 1
       /\ NumTombstonesOf(U, m) = NumTombstonesOf(T, m)
  BY <1>3, <1>9, <1>11, CountFilled
<1>13. NumEntries' = NumEntriesOf(U, m) /\ NumTombstones' = NumTombstonesOf(U, m)
  BY <1>1, <1>3, <1>12
<1>14. HasKey(U, m, EmptyKey)
  <2>1. NumEntriesOf(U, m) \in Nat
    BY <1>3, Countable
  <2>2. NumEntriesOf(U, m) + NumTombstonesOf(U, m) < m
    BY <1>3, <1>12, <2>1
  <2> QED BY <1>3, <1>12, <2>2, EmptyLeft
<1>15. /\ GoodTable(U, m)
       /\ \A b : IsEntry(b) => (Holds(U, m, b) <=> Holds(T, m, b) \/ b = Bucket(k, v))
  <2>1. i \in 0 .. m - 1 /\ GoesOnTo(T, m, k, i)
    BY <1>6 DEF EndsAt
  <2>2. \A a \in 0 .. i - 1 : Spot(m, k, a) # t
    BY <1>3, <1>6, <1>7, FilledEnd
  <2> QED BY <1>2, <1>3, <1>5, <1>7, <1>9, <1>11, <1>14, <2>1, <2>2, Filled
<1> QED BY <1>2, <1>3, <1>4, <1>11, <1>13, <1>15 DEF Inserted

(* insert keeps the invariant, and is a step of the dictionary.            *)
LEMMA InsertInv ==
  ASSUME MapInv, insert
  PROVE  MapInv' /\ Map!Next
<1>1. /\ hash' = hash /\ op' = NoOp /\ mapAnswer' = op.value
      /\ ProbeEnded /\ op.name \in Inserts
  BY DEF insert, Done
<1>2. PICK m : Inserted(m)
  BY RoomForInsert, InsertedKept, InsertedGrown DEF MapInv
<1>3. PICK k \in MapKey, v \in MapValue :
        k = op.key /\ v = op.value /\ v # NoMapValue /\ ~ HasKey(Buckets, NumBuckets, k)
  BY <1>1, KeyAbsent, DenseMapAssumption DEF MapInv, ProbeInv
<1>4. DOMAIN (Buckets') = 0 .. m - 1
  BY <1>2 DEF Inserted, GoodTable, TableOf
<1>5. \A b : IsEntry(b) =>
        (Holds(Buckets', m, b) <=>
           \/ Holds(Buckets, NumBuckets, b) /\ b.key # k
           \/ v # NoMapValue /\ b = Bucket(k, v))
  <2>1. \A b : Holds(Buckets, NumBuckets, b) => b.key # k
    BY <1>3 DEF Holds, HasKey
  <2> QED BY <1>2, <1>3, <2>1 DEF Inserted
<1>6. MapInv' /\ Contents' = With(Contents, k, v)
  <2>1. /\ m \in 0 .. MaxBuckets /\ GoodTable(Buckets', m)
        /\ NumEntries' = NumEntriesOf(Buckets', m)
        /\ NumTombstones' = NumTombstonesOf(Buckets', m)
    BY <1>2 DEF Inserted
  <2> QED BY <1>1, <1>4, <1>5, <2>1, TableChanges
<1>7. Map!Assign(k, v)
  BY <1>1, <1>3, <1>6 DEF Map!Assign, With
<1> QED BY <1>6, <1>7 DEF Map!Next

(* The size clear leaves a table with.                                     *)
ClearedSize ==
  IF NumEntries * 4 < NumBuckets /\ NumBuckets > MinBuckets
  THEN IF ShrunkSize \in {0, NumBuckets} THEN ShrunkSize
       ELSE NextPowerOf2((ShrunkSize * 4) \div 3 + 1)
  ELSE NumBuckets

(* It is not larger.                                                       *)
LEMMA ClearedSizeIs ==
  ASSUME MapInv
  PROVE  ClearedSize \in 0 .. MaxBuckets /\ (ClearedSize = 0 \/ Sized(ClearedSize))
<1>1. /\ NumBuckets \in Nat /\ NumBuckets \in 0 .. MaxBuckets /\ MaxBuckets \in Nat
      /\ NumEntries \in Nat
      /\ NumBuckets = 0 \/ Sized(NumBuckets)
  BY TheTable, TableNumbers, DenseMapAssumption DEF MapInv, GoodTable
<1>2. CASE \/ ~ (NumEntries * 4 < NumBuckets /\ NumBuckets > MinBuckets)
           \/ ShrunkSize \in {0, NumBuckets}
  <2>1. ClearedSize \in {0, NumBuckets}
    BY <1>2 DEF ClearedSize
  <2> QED BY <1>1, <2>1
<1>3. CASE /\ NumEntries * 4 < NumBuckets /\ NumBuckets > MinBuckets
           /\ ShrunkSize \notin {0, NumBuckets}
  <2>1. PICK e \in Nat, n \in Nat, s \in {ShrunkSize} :
          /\ e = NumEntries /\ n = NumBuckets /\ s = ShrunkSize
    BY <1>1
  <2>2. NumBuckets # 0 /\ e * 4 < n /\ MinBuckets < n /\ e # 0
    <3>1. NumBuckets # 0
      BY <1>1, <1>3, LeastSize
    <3>2. NumEntries # 0
      BY <1>3 DEF ShrunkSize
    <3> QED BY <1>3, <2>1, <3>1, <3>2
  <2>3. PICK m \in Nat : n = Pow2[m] /\ m # 0
    BY <1>1, <2>1, <2>2 DEF Sized
  <2>4. PICK w \in Nat : MinBuckets = Pow2[w]
    BY LeastSize DEF Sized
  <2>5. 2 * MinBuckets <= n
    <3>1. w < m
      <4> SUFFICES ASSUME m <= w PROVE FALSE
        OBVIOUS
      <4>1. Pow2[m] <= Pow2[w]
        BY Pow2Monotonic
      <4> QED BY <2>2, <2>3, <2>4, <4>1, LeastSize
    <3>2. w + 1 \in Nat /\ w + 1 <= m
      BY <3>1
    <3>3. Pow2[w + 1] <= Pow2[m]
      BY <3>2, Pow2Monotonic
    <3>4. Pow2[w + 1] = 2 * Pow2[w]
      BY Pow2Value
    <3> QED BY <2>3, <2>4, <3>3, <3>4
  <2>6. PICK p \in Nat : p = PowerOf2From(e) /\ 4 * p <= n
    <3>1. \A l \in Nat : Pow2[l + 1] = 2 * Pow2[l] /\ Pow2[l] \in Nat
      BY Pow2Value
    <3>2. Pow2[0] = 1
      BY Pow2Value
    <3>3. m # 1
      <4>1. Pow2[0 + 1] = 2 * Pow2[0]
        BY <3>1
      <4> QED BY <2>2, <2>3, <3>2, <4>1
    <3>4. PICK l \in Nat : m = (l + 1) + 1
      <4>1. m - 2 \in Nat /\ m = ((m - 2) + 1) + 1
        BY <2>3, <3>3
      <4> QED BY <4>1
    <3>5. n = 4 * Pow2[l]
      <4>1. l + 1 \in Nat
        OBVIOUS
      <4>2. Pow2[(l + 1) + 1] = 2 * Pow2[l + 1] /\ Pow2[l + 1] = 2 * Pow2[l] /\ Pow2[l] \in Nat
        BY <3>1, <4>1
      <4> QED BY <2>3, <3>4, <4>2
    <3>6. e <= Pow2[l]
      <4>1. Pow2[l] \in Nat
        BY <3>1
      <4> QED BY <2>2, <3>5, <4>1
    <3>7. PowerOf2From(e) <= Pow2[l] /\ PowerOf2From(e) \in Nat
      BY <3>6, SizeLeast
    <3>8. Pow2[l] \in Nat
      BY <3>1
    <3> QED BY <3>5, <3>7, <3>8
  <2>7. s = IF 2 * p < MinBuckets THEN MinBuckets ELSE 2 * p
    BY <2>1, <2>2, <2>6 DEF ShrunkSize
  <2>8. s \in Nat /\ s >= 2 /\ 2 * s <= n
    BY <2>5, <2>6, <2>7, LeastSize
  <2>9. PICK a \in Nat : a = ((s * 4) \div 3 + 1) + 1 /\ a >= 2 /\ a <= n
    <3>1. PICK q \in Nat : q = (s * 4) \div 3 /\ 3 * q <= s * 4
      <4>1. PICK x \in Nat : x = s * 4
        BY <2>8
      <4>2. x \div 3 \in Nat /\ 3 * (x \div 3) <= x
        OBVIOUS
      <4> QED BY <4>1, <4>2
    <3>2. (q + 1) + 1 \in Nat /\ (q + 1) + 1 >= 2 /\ (q + 1) + 1 <= n
      BY <2>8, <3>1
    <3> QED BY <3>1, <3>2
  <2>10. ClearedSize = PowerOf2From(a)
    BY <1>3, <2>1, <2>9 DEF ClearedSize, NextPowerOf2
  <2>11. Sized(ClearedSize) /\ ClearedSize \in Nat /\ ClearedSize <= n
    BY <2>3, <2>9, <2>10, SizeFrom, SizeLeast
  <2> QED BY <1>1, <2>1, <2>11
<1> QED BY <1>2, <1>3

(* clear keeps the invariant, and is a step of the dictionary.             *)
LEMMA ClearInv ==
  ASSUME MapInv, clear
  PROVE  MapInv' /\ Map!Next
<1>1. /\ hash' = hash /\ op' = op /\ mapAnswer' = mapAnswer /\ op.name = "none"
      /\ NumEntries' = 0 /\ NumTombstones' = 0
      /\ Buckets' = EmptyTable(ClearedSize)
  BY DEF clear, ClearedSize
<1>2. PICK m \in 0 .. MaxBuckets : m = ClearedSize /\ (m = 0 \/ Sized(m))
  BY ClearedSizeIs
<1>3. m \in Nat
  BY DenseMapAssumption
<1>4. PICK U : U = Buckets' /\ U = EmptyTable(m)
  BY <1>1, <1>2
<1>5. DOMAIN U = 0 .. m - 1
  BY <1>4 DEF EmptyTable
<1>6. /\ m = 0 \/ GoodTable(U, m)
      /\ NumEntriesOf(U, m) = 0 /\ NumTombstonesOf(U, m) = 0
      /\ \A b : IsEntry(b) => ~ Holds(U, m, b)
  BY <1>2, <1>4, EmptyIsGood, NoBuckets
<1>7. TableInv'
  <2>1. /\ DOMAIN (Buckets') = 0 .. m - 1 /\ (m = 0 \/ GoodTable(Buckets', m))
        /\ NumEntries' = NumEntriesOf(Buckets', m) /\ NumTombstones' = NumTombstonesOf(Buckets', m)
    BY <1>1, <1>4, <1>5, <1>6
  <2> QED BY <1>1, <1>2, <2>1, TableInvNext DEF MapInv
<1>8. ProbeInv'
  <2>1. "none" \notin Inserts
    BY DEF Inserts
  <2> QED BY <1>1, <2>1 DEF MapInv, ProbeInv, OpType
<1>9. Contents' = [k \in MapKey |-> NoMapValue]
  <2>1. PICK c : c = ContentsIn(U, m)
    OBVIOUS
  <2>2. \A k \in MapKey : ~ HasKey(U, m, k)
    <3> SUFFICES ASSUME NEW k \in MapKey, HasKey(U, m, k) PROVE FALSE
      OBVIOUS
    <3>1. PICK i \in 0 .. m - 1 : U[i].key = k
      BY DEF HasKey
    <3>2. IsEntry(U[i]) /\ Holds(U, m, U[i])
      BY <3>1 DEF IsEntry, Holds
    <3> QED BY <1>6, <3>2
  <2>3. c = [k \in MapKey |-> NoMapValue]
    BY <2>1, <2>2 DEF ContentsIn
  <2>4. Contents' = c
    BY <1>4, <1>5, <2>1, ContentsNext
  <2> QED BY <2>3, <2>4
<1>10. Map!Clear
  BY <1>1, <1>9 DEF Map!Clear
<1> QED BY <1>7, <1>8, <1>10 DEF MapInv, Map!Next

(* The beginning.                                                          *)
LEMMA InitInv ==
  ASSUME MapInit
  PROVE  MapInv /\ Map!Init
<1>1. /\ HashOK /\ Buckets = EmptyTable(0) /\ NumEntries = 0 /\ NumTombstones = 0
      /\ op = NoOp /\ mapAnswer = NoMapValue
  BY DenseMapAssumption DEF MapInit, HashOK
<1>2. DOMAIN Buckets = 0 .. 0 - 1
  BY <1>1 DEF EmptyTable
<1>3. NumBuckets = 0
  <2>1. NumBucketsOf(Buckets) = 0
    BY <1>2, TableSize
  <2> QED BY <2>1 DEF NumBuckets
<1>4. 0 \in 0 .. MaxBuckets
  BY DenseMapAssumption
<1>5. TableInv
  BY <1>1, <1>2, <1>3, <1>4, NoBuckets DEF TableInv
<1>6. ProbeInv
  <2>1. "none" \notin Inserts
    BY DEF Inserts
  <2> QED BY <1>1, <2>1, NoOpIs DEF ProbeInv
<1>7. Contents = [k \in MapKey |-> NoMapValue]
  <2>1. \A k : ~ HasKey(Buckets, 0, k)
    BY NoBuckets
  <2>2. Contents = ContentsIn(Buckets, 0)
    BY <1>2, ContentsIs
  <2> QED BY <2>1, <2>2 DEF ContentsIn
<1> QED BY <1>1, <1>5, <1>6, <1>7 DEF MapInv, Map!Init

(* A step.                                                                 *)
LEMMA StepInv ==
  ASSUME MapInv, MapNext
  PROVE  MapInv' /\ (Map!Next \/ UNCHANGED << Contents, mapAnswer >>)
<1>1. CASE \E k \in MapKey :
             \/ \E name \in Finds : begin(name, k, NoMapValue)
             \/ \E name \in Inserts, v \in MapValue : begin(name, k, v)
  <2>1. PICK k \in MapKey, name \in Finds \union Inserts, v \in MapValue \union {NoMapValue} :
          begin(name, k, v) /\ (name \in Inserts => v \in MapValue)
    <3>1. Finds \cap Inserts = {}
      BY DEF Finds, Inserts
    <3> QED BY <1>1, <3>1
  <2>2. MapInv'
    BY <2>1, BeginInv
  <2>3. UNCHANGED << Contents, mapAnswer >>
    BY <2>1 DEF begin, Contents
  <2> QED BY <2>2, <2>3
<1>2. CASE probeNext
  <2>1. UNCHANGED << Contents, mapAnswer >>
    BY <1>2 DEF probeNext, Contents
  <2> QED BY <1>2, <2>1, ProbeNextInv
<1>3. CASE found
  BY <1>3, FoundInv
<1>4. CASE notFound
  BY <1>4, NotFoundInv
<1>5. CASE insert
  BY <1>5, InsertInv
<1>6. CASE clear
  BY <1>6, ClearInv
<1> QED BY <1>1, <1>2, <1>3, <1>4, <1>5, <1>6 DEF MapNext, goOn

(* No step: neither the invariant nor the dictionary notices.              *)
LEMMA StutterInv ==
  ASSUME MapInv, UNCHANGED mapVars
  PROVE  MapInv' /\ UNCHANGED << Contents, mapAnswer >>
<1>1. UNCHANGED << hash, Buckets, NumEntries, NumTombstones, op, mapAnswer >>
  BY DEF mapVars
<1>2. TableInv'
  BY <1>1, TableStays DEF MapInv
<1>3. ProbeInv'
  <2>1. CASE op.name # "none" /\ NumBuckets # 0
    <3>1. PICK i \in Nat : ProbedTo(op, Buckets, NumBuckets, i)
      BY <2>1, Probe
    <3>2. ProbedTo(op, Buckets, NumBuckets, i)'
      BY <1>1, <3>1, ProbedToNext
    <3> QED BY <1>1, <3>2 DEF MapInv, ProbeInv
  <2>2. CASE ~ (op.name # "none" /\ NumBuckets # 0)
    <3>1. NumBuckets' = NumBuckets
      BY <1>1 DEF NumBuckets
    <3> QED BY <1>1, <2>2, <3>1 DEF MapInv, ProbeInv
  <2> QED BY <2>1, <2>2
<1>4. UNCHANGED << Contents, mapAnswer >>
  BY <1>1 DEF Contents
<1> QED BY <1>2, <1>3, <1>4 DEF MapInv

-----------------------------------------------------------------------------

(* The table is always one in which every probe comes to its end, and the  *)
(* operation under way is on that probe.                                   *)
THEOREM MapInvariant == MapSpec => []MapInv
<1>1. MapInit => MapInv
  BY InitInv
<1>2. MapInv /\ [MapNext]_mapVars => MapInv'
  BY StepInv, StutterInv
<1> QED BY <1>1, <1>2, PTL DEF MapSpec

(* NumEntries and NumTombstones, by which insertions decide on growth, are *)
(* what they say, and the size is a power of two.                          *)
THEOREM CountersTrue == MapSpec => []CountsAreTrue
<1>1. MapInv => CountsAreTrue
  <2> SUFFICES ASSUME MapInv PROVE CountsAreTrue
    OBVIOUS
  <2>1. NumBuckets = 0 \/ PowerOf2From(NumBuckets) = NumBuckets
    BY TheTable, SizeFromItself DEF GoodTable
  <2>2. NumEntries = Cardinality({i \in DOMAIN Buckets : IsEntry(Buckets[i])})
    BY TheTable DEF NumEntriesOf, EntriesOf
  <2>3. NumTombstones = Cardinality({i \in DOMAIN Buckets : Buckets[i].key = TombstoneKey})
    BY TheTable DEF NumTombstonesOf, TombstonesOf
  <2>4. \A i \in DOMAIN Buckets : Buckets[i].value = NoMapValue <=> ~IsEntry(Buckets[i])
    <3>1. CASE NumBuckets = 0
      <4>1. DOMAIN Buckets = {}
        BY <3>1, TheTable
      <4> QED BY <4>1
    <3>2. CASE NumBuckets # 0
      BY <3>2, TheTable DEF GoodTable, OnlyEntriesHaveValues
    <3> QED BY <3>1, <3>2
  <2> QED BY <2>1, <2>2, <2>3, <2>4 DEF CountsAreTrue
<1> QED BY <1>1, MapInvariant, PTL

(* LookupBucketFor comes to every entry, and so to the only one of its key. *)
THEOREM EntriesFound == MapSpec => []EntriesReachable
<1>1. MapInv => EntriesReachable
  <2> SUFFICES ASSUME MapInv, NEW i \in DOMAIN Buckets, IsEntry(Buckets[i])
               PROVE  BucketFor(Buckets, Buckets[i].key) = i
    BY DEF EntriesReachable
  <2>1. PICK n \in Nat : n = NumBuckets /\ i \in 0 .. n - 1 /\ GoodTable(Buckets, n)
    BY TheTable
  <2>2. PICK k : k = Buckets[i].key
    OBVIOUS
  <2>3. PICK j \in Nat : EndsAt(Buckets, n, k, j) /\ Spot(n, k, j) = i
    BY <2>1, <2>2 DEF GoodTable, Placed
  <2>4. Buckets \in TableOf(n)
    BY <2>1 DEF GoodTable
  <2> QED BY <2>1, <2>2, <2>3, <2>4, BucketForEnd
<1> QED BY <1>1, MapInvariant, PTL

(* What keeps the loops of doFind and LookupBucketFor from running for     *)
(* ever: the probe of every key ends within as many buckets as there are,  *)
(* and the operation under way is on its way to that end.                  *)
EndOfProbe(k, j) == Buckets[ProbeAt(Buckets, k, j)].key \in {k, EmptyKey}
ProbesEnd ==
  NumBuckets # 0 =>
    /\ \A k \in MapKey : \E j \in 0 .. NumBuckets - 1 : EndOfProbe(k, j)
    /\ op.name # "none" =>
         \E i \in 0 .. NumBuckets - 1, j \in 0 .. NumBuckets - 1 :
           /\ i <= j /\ EndOfProbe(op.key, j)
           /\ op.bucket = ProbeAt(Buckets, op.key, i)

(* Every probe of a reachable table is finite, for every hash function and *)
(* sequence of operations: some bucket always stays empty, and a quadratic *)
(* probe of a power of two comes to it (InsertIntoBucketImpl's comment).   *)
THEOREM ProbesAreFinite == MapSpec => []ProbesEnd
<1>1. MapInv => ProbesEnd
  <2> SUFFICES ASSUME MapInv, NumBuckets # 0
               PROVE  /\ \A k \in MapKey : \E j \in 0 .. NumBuckets - 1 : EndOfProbe(k, j)
                      /\ op.name # "none" =>
                           \E i \in 0 .. NumBuckets - 1, j \in 0 .. NumBuckets - 1 :
                             /\ i <= j /\ EndOfProbe(op.key, j)
                             /\ op.bucket = ProbeAt(Buckets, op.key, i)
    BY DEF ProbesEnd
  <2>1. PICK n \in Nat : n = NumBuckets
    BY TheTable
  <2>2. HashOK /\ GoodTable(Buckets, n)
    BY <2>1, TheTable
  <2>3. \A k, j : ProbeAt(Buckets, k, j) = Spot(n, k, j)
    BY <2>1 DEF ProbeAt, Spot, Tri, NumBuckets
  <2>4. ASSUME NEW k \in MapKey PROVE \E j \in Nat : EndsAt(Buckets, n, k, j)
    BY <2>2, EndExists DEF GoodTable
  <2>5. ASSUME NEW k \in MapKey PROVE \E j \in 0 .. NumBuckets - 1 : EndOfProbe(k, j)
    <3>1. PICK j \in Nat : EndsAt(Buckets, n, k, j)
      BY <2>4
    <3> QED BY <2>1, <2>3, <3>1 DEF EndsAt, EndOfProbe
  <2>6. ASSUME op.name # "none"
        PROVE  \E i \in 0 .. NumBuckets - 1, j \in 0 .. NumBuckets - 1 :
                 /\ i <= j /\ EndOfProbe(op.key, j)
                 /\ op.bucket = ProbeAt(Buckets, op.key, i)
    <3>1. op.key \in MapKey /\ \E i \in Nat : ProbedTo(op, Buckets, n, i)
      BY <2>1, <2>6 DEF MapInv, ProbeInv
    <3>2. PICK i \in Nat : ProbedTo(op, Buckets, n, i)
      BY <3>1
    <3>3. PICK j \in Nat : EndsAt(Buckets, n, op.key, j)
      BY <2>4, <3>1
    <3>4. i \in 0 .. n - 1 /\ op.bucket = Spot(n, op.key, i)
          /\ \A l \in 0 .. i - 1 : Buckets[Spot(n, op.key, l)].key \notin {op.key, EmptyKey}
      BY <3>2 DEF ProbedTo, GoesOnTo
    <3>5. j \in 0 .. n - 1 /\ Buckets[Spot(n, op.key, j)].key \in {op.key, EmptyKey}
      BY <3>3 DEF EndsAt
    <3>6. i <= j
      <4>1. ~ (j \in 0 .. i - 1)
        BY <3>4, <3>5
      <4> QED BY <4>1
    <3>7. EndOfProbe(op.key, j) /\ op.bucket = ProbeAt(Buckets, op.key, i)
      BY <2>3, <3>4, <3>5 DEF EndOfProbe
    <3> QED BY <2>1, <3>4, <3>5, <3>6, <3>7
  <2> QED BY <2>5, <2>6
<1> QED BY <1>1, MapInvariant, PTL

(* Through growth, sweeps and tombstones the table is a map from keys to   *)
(* values: every operation answers and changes what a dictionary would.    *)
THEOREM MapImplementsDictionary == MapSpec => ImplementsDictionary
<1>1. MapInit => Map!Init
  BY InitInv
<1>2. MapInv /\ [MapNext]_mapVars => [Map!Next]_<< Contents, mapAnswer >>
  BY StepInv, StutterInv
<1> QED BY <1>1, <1>2, MapInvariant, PTL DEF MapSpec, ImplementsDictionary, Map!Spec

(***************************************************************************)
(*                          The characters of a string                     *)
(***************************************************************************)

(***************************************************************************)
(* Pieces one behind the other.                                            *)
(***************************************************************************)

(* f[i] is the first i of the n pieces s[1], s[2] ... in one sequence.     *)
Fronts(f, s, n) ==
  /\ DOMAIN f = 0 .. n /\ f[0] = << >>
  /\ \A i \in 1 .. n : f[i] = f[i - 1] \o s[i]

(* g[i] is the pieces from the i-th on that are left, with z behind them.  *)
Rests(g, s, n, z) ==
  /\ DOMAIN g = 0 .. n /\ g[n] = z
  /\ \A i \in 1 .. n : g[i - 1] = s[i] \o g[i]

(* Only the last k + 1 of them.                                            *)
LastRests(g, s, n, z, k) ==
  /\ DOMAIN g = n - k .. n /\ g[n] = z
  /\ \A i \in 1 .. n : i > n - k => g[i - 1] = s[i] \o g[i]

Pieces(s, n) == \A i \in 1 .. n : s[i] \in Seq(Nat)

(* Both exist,                                                             *)
LEMMA FrontsExist ==
  ASSUME NEW s
  PROVE  \A n \in Nat : \E f : Fronts(f, s, n)
<1> DEFINE S == {n \in Nat : \E f : Fronts(f, s, n)}
<1>1. 0 \in S
  <2>1. PICK f : f = [i \in 0 .. 0 |-> << >>]
    OBVIOUS
  <2>2. f[0] = << >> /\ DOMAIN f = 0 .. 0
    BY <2>1
  <2>3. \A i \in 1 .. 0 : FALSE
    OBVIOUS
  <2>4. Fronts(f, s, 0)
    BY <2>2, <2>3 DEF Fronts
  <2> QED BY <2>4
<1>2. ASSUME NEW n \in Nat, n \in S PROVE n + 1 \in S
  <2>1. PICK f : Fronts(f, s, n)
    BY <1>2
  <2>2. PICK x : x = f[n] \o s[n + 1]
    OBVIOUS
  <2>3. PICK g : g = [i \in 0 .. n + 1 |-> IF i <= n THEN f[i] ELSE x]
    OBVIOUS
  <2>4. DOMAIN g = 0 .. n + 1 /\ g[0] = << >>
    BY <2>1, <2>3 DEF Fronts
  <2>5. ASSUME NEW i \in 1 .. n + 1 PROVE g[i] = g[i - 1] \o s[i]
    <3>1. CASE i <= n
      <4>1. g[i] = f[i] /\ g[i - 1] = f[i - 1] /\ i \in 1 .. n
        BY <2>3, <3>1
      <4> QED BY <2>1, <4>1 DEF Fronts
    <3>2. CASE i = n + 1
      <4>1. g[i] = x /\ g[i - 1] = f[n]
        BY <2>3, <3>2
      <4> QED BY <2>2, <3>2, <4>1
    <3>3. i <= n \/ i = n + 1
      OBVIOUS
    <3> QED BY <3>1, <3>2, <3>3
  <2>6. Fronts(g, s, n + 1)
    BY <2>4, <2>5 DEF Fronts
  <2> QED BY <2>6
<1> HIDE DEF S
<1>3. Nat \subseteq S
  BY <1>1, <1>2, Induction
<1> QED BY <1>3 DEF S

(* from behind as from the front,                                          *)
LEMMA RestsExist ==
  ASSUME NEW s, NEW n \in Nat, NEW z
  PROVE  \E g : Rests(g, s, n, z)
<1> DEFINE S == {k \in Nat : k <= n => \E g : LastRests(g, s, n, z, k)}
<1>1. 0 \in S
  <2>1. PICK g : g = [i \in n - 0 .. n |-> z]
    OBVIOUS
  <2>2. DOMAIN g = n - 0 .. n /\ g[n] = z
    BY <2>1
  <2>3. ~ \E i \in 1 .. n : i > n - 0
    OBVIOUS
  <2>4. LastRests(g, s, n, z, 0)
    BY <2>2, <2>3 DEF LastRests
  <2> QED BY <2>4
<1>2. ASSUME NEW k \in Nat, k \in S PROVE k + 1 \in S
  <2>1. ASSUME k + 1 <= n PROVE \E g : LastRests(g, s, n, z, k + 1)
    <3>1. PICK g : LastRests(g, s, n, z, k)
      BY <1>2, <2>1
    <3>2. PICK x : x = s[n - k] \o g[n - k]
      OBVIOUS
    <3>3. PICK h : h = [i \in n - (k + 1) .. n |-> IF i >= n - k THEN g[i] ELSE x]
      OBVIOUS
    <3>4. DOMAIN h = n - (k + 1) .. n /\ h[n] = g[n] /\ g[n] = z
      BY <2>1, <3>1, <3>3 DEF LastRests
    <3>5. ASSUME NEW i \in 1 .. n, i > n - (k + 1) PROVE h[i - 1] = s[i] \o h[i]
      <4>1. CASE i > n - k
        <5>1. h[i] = g[i] /\ h[i - 1] = g[i - 1]
          BY <2>1, <3>3, <4>1
        <5> QED BY <3>1, <4>1, <5>1 DEF LastRests
      <4>2. CASE i = n - k
        <5>1. h[i] = g[i] /\ h[i - 1] = x
          BY <2>1, <3>3, <4>2
        <5> QED BY <3>2, <4>2, <5>1
      <4>3. i > n - k \/ i = n - k
        BY <3>5
      <4> QED BY <4>1, <4>2, <4>3
    <3>6. LastRests(h, s, n, z, k + 1)
      BY <3>4, <3>5 DEF LastRests
    <3> QED BY <3>6
  <2> QED BY <2>1
<1>3. n \in S
  <2> HIDE DEF S
  <2> QED BY <1>1, <1>2, Induction
<1>4. PICK g : LastRests(g, s, n, z, n)
  BY <1>3
<1>5. n - n = 0 /\ \A i \in 1 .. n : i > 0
  OBVIOUS
<1>6. Rests(g, s, n, z)
  BY <1>4, <1>5 DEF Rests, LastRests
<1> QED BY <1>6

(* and they are sequences of numbers, if the pieces are.                   *)
LEMMA FrontsType ==
  ASSUME NEW s, NEW n \in Nat, NEW f, Fronts(f, s, n), Pieces(s, n)
  PROVE  \A i \in 0 .. n : f[i] \in Seq(Nat)
<1> DEFINE S == {i \in Nat : i <= n => f[i] \in Seq(Nat)}
<1>1. 0 \in S
  BY EmptySeq DEF Fronts
<1>2. ASSUME NEW i \in Nat, i \in S PROVE i + 1 \in S
  <2> SUFFICES ASSUME i + 1 <= n PROVE f[i + 1] \in Seq(Nat)
    OBVIOUS
  <2>1. i + 1 \in 1 .. n /\ (i + 1) - 1 = i
    OBVIOUS
  <2>2. f[i + 1] = f[i] \o s[i + 1] /\ s[i + 1] \in Seq(Nat)
    BY <2>1 DEF Fronts, Pieces
  <2>3. f[i] \in Seq(Nat)
    BY <1>2
  <2> QED BY <2>2, <2>3, ConcatProperties
<1> HIDE DEF S
<1>3. Nat \subseteq S
  BY <1>1, <1>2, Induction
<1> QED BY <1>3 DEF S

(* What is left of such pieces is one, too.                                *)
LEMMA RestsType ==
  ASSUME NEW s, NEW n \in Nat, NEW z \in Seq(Nat), NEW g, Rests(g, s, n, z), Pieces(s, n)
  PROVE  \A i \in 0 .. n : g[i] \in Seq(Nat)
<1> DEFINE S == {k \in Nat : k <= n => g[n - k] \in Seq(Nat)}
<1>1. 0 \in S
  BY DEF Rests
<1>2. ASSUME NEW k \in Nat, k \in S PROVE k + 1 \in S
  <2> SUFFICES ASSUME k + 1 <= n PROVE g[n - (k + 1)] \in Seq(Nat)
    OBVIOUS
  <2>1. n - k \in 1 .. n /\ (n - k) - 1 = n - (k + 1)
    OBVIOUS
  <2>2. g[n - (k + 1)] = s[n - k] \o g[n - k] /\ s[n - k] \in Seq(Nat)
    BY <2>1 DEF Rests, Pieces
  <2>3. g[n - k] \in Seq(Nat)
    BY <1>2
  <2> QED BY <2>2, <2>3, ConcatProperties
<1> HIDE DEF S
<1>3. Nat \subseteq S
  BY <1>1, <1>2, Induction
<1>4. ASSUME NEW i \in 0 .. n PROVE g[i] \in Seq(Nat)
  <2>1. n - i \in Nat /\ n - i <= n /\ n - (n - i) = i
    OBVIOUS
  <2>2. n - i \in S
    BY <1>3, <2>1
  <2> QED BY <2>1, <2>2 DEF S
<1> QED BY <1>4

(* Three pieces, put together from either end,                            *)
LEMMA ThreePieces ==
  ASSUME NEW a \in Seq(Nat), NEW b \in Seq(Nat), NEW c \in Seq(Nat)
  PROVE  (a \o b) \o c = a \o (b \o c)
BY ConcatAssociative

(* and all of them, the first i of them read.                              *)
Joined(f, g, i) == f[i] \o g[i] = g[0]

(* What the pieces are is all the same, read from the front or from behind. *)
LEMMA FrontsAreRests ==
  ASSUME NEW s, NEW n \in Nat, NEW z \in Seq(Nat), Pieces(s, n),
         NEW f, Fronts(f, s, n), NEW g, Rests(g, s, n, z)
  PROVE  f[n] \o z = g[0]
<1> DEFINE S == {i \in Nat : i <= n => Joined(f, g, i)}
<1>0. /\ \A i \in 0 .. n : f[i] \in Seq(Nat)
      /\ \A i \in 0 .. n : g[i] \in Seq(Nat)
  BY FrontsType, RestsType
<1>1. 0 \in S
  <2>1. f[0] = << >> /\ g[0] \in Seq(Nat)
    BY <1>0 DEF Fronts
  <2>2. << >> \o g[0] = g[0]
    BY <2>1, ConcatEmptySeq
  <2> QED BY <2>1, <2>2 DEF Joined
<1>2. ASSUME NEW i \in Nat, i \in S PROVE i + 1 \in S
  <2>1. ASSUME i + 1 <= n PROVE Joined(f, g, i + 1)
    <3>1. i + 1 \in 1 .. n /\ (i + 1) - 1 = i /\ i \in 0 .. n /\ i + 1 \in 0 .. n
      BY <2>1
    <3>2. PICK p : p = s[i + 1]
      OBVIOUS
    <3>3. f[i + 1] = f[i] \o p /\ g[i] = p \o g[i + 1] /\ p \in Seq(Nat)
      <4>1. f[i + 1] = f[(i + 1) - 1] \o s[i + 1]
        BY <3>1 DEF Fronts
      <4>2. g[(i + 1) - 1] = s[i + 1] \o g[i + 1]
        BY <3>1 DEF Rests
      <4>3. s[i + 1] \in Seq(Nat)
        BY <3>1 DEF Pieces
      <4> QED BY <3>1, <3>2, <4>1, <4>2, <4>3
    <3>4. PICK a \in Seq(Nat), b \in Seq(Nat) : a = f[i] /\ b = g[i + 1]
      BY <1>0, <3>1
    <3>5. (a \o p) \o b = a \o (p \o b)
      BY <3>3, ThreePieces
    <3>6. a \o g[i] = g[0]
      <4>1. Joined(f, g, i)
        <5>1. i <= n
          BY <2>1
        <5> QED BY <1>2, <5>1
      <4> QED BY <4>1, <3>4 DEF Joined
    <3> QED BY <3>3, <3>4, <3>5, <3>6 DEF Joined
  <2> QED BY <2>1
<1>3. n \in S
  <2> HIDE DEF S
  <2> QED BY <1>1, <1>2, Induction
<1>4. g[n] = z /\ Joined(f, g, n)
  BY <1>3 DEF Rests
<1> QED BY <1>4 DEF Joined

(* What FlattenSeq returns: all of its pieces.                             *)
LEMMA FlattenIs ==
  ASSUME NEW q, NEW n \in Nat, Len(q) = n, n = 0 => q = << >>, Pieces(q, n)
  PROVE  \E f : Fronts(f, q, n) /\ FlattenSeq(q) = f[n]
<1>1. CASE n = 0
  <2>1. PICK f : Fronts(f, q, 0)
    BY FrontsExist
  <2>2. FlattenSeq(q) = << >>
    BY <1>1 DEF FlattenSeq
  <2> QED BY <1>1, <2>1, <2>2 DEF Fronts
<1>2. CASE n # 0
  <2> DEFINE Def(h) == h = [i \in 1 .. n |-> IF i = 1 THEN q[i] ELSE h[i - 1] \o q[i]]
  <2>1. PICK f : Fronts(f, q, n)
    BY FrontsExist
  <2>2. PICK g : g = [i \in 1 .. n |-> f[i]]
    OBVIOUS
  <2>3. Def(g)
    <3>1. ASSUME NEW i \in 1 .. n PROVE g[i] = IF i = 1 THEN q[i] ELSE g[i - 1] \o q[i]
      <4>1. g[i] = f[i] /\ f[i] = f[i - 1] \o q[i] /\ q[i] \in Seq(Nat)
        BY <2>1, <2>2 DEF Fronts, Pieces
      <4>2. CASE i = 1
        <5>1. f[i - 1] = << >>
          BY <2>1, <4>2 DEF Fronts
        <5>2. << >> \o q[i] = q[i]
          BY <4>1, ConcatEmptySeq
        <5> QED BY <4>1, <4>2, <5>1, <5>2
      <4>3. CASE i # 1
        <5>1. g[i - 1] = f[i - 1]
          BY <2>2, <4>3
        <5> QED BY <4>1, <4>3, <5>1
      <4> QED BY <4>2, <4>3
    <3>2. g = [i \in 1 .. n |-> g[i]]
      BY <2>2
    <3> QED BY <3>1, <3>2
  <2> DEFINE h == CHOOSE x : Def(x)
  <2>4. Def(h)
    <3> HIDE DEF Def
    <3> QED BY <2>3
  <2>5. FlattenSeq(q) = h[n]
    BY <1>2 DEF FlattenSeq
  <2> HIDE DEF h
  <2>6. PICK e : e = [i \in 0 .. n |-> IF i = 0 THEN << >> ELSE h[i]]
    OBVIOUS
  <2>7. e[n] = h[n]
    BY <1>2, <2>6
  <2>8. ASSUME NEW i \in 1 .. n PROVE e[i] = e[i - 1] \o q[i]
    <3>1. e[i] = h[i] /\ h[i] = (IF i = 1 THEN q[i] ELSE h[i - 1] \o q[i]) /\ q[i] \in Seq(Nat)
      <4>1. e[i] = h[i]
        BY <2>6
      <4>2. h[i] = IF i = 1 THEN q[i] ELSE h[i - 1] \o q[i]
        BY <2>4
      <4>3. q[i] \in Seq(Nat)
        BY DEF Pieces
      <4> QED BY <4>1, <4>2, <4>3
    <3>2. CASE i = 1
      <4>1. e[i - 1] = << >>
        BY <2>6, <3>2
      <4>2. << >> \o q[i] = q[i]
        BY <3>1, ConcatEmptySeq
      <4> QED BY <3>1, <3>2, <4>1, <4>2
    <3>3. CASE i # 1
      <4>1. e[i - 1] = h[i - 1]
        BY <2>6, <3>3
      <4> QED BY <3>1, <3>3, <4>1
    <3> QED BY <3>2, <3>3
  <2>9. DOMAIN e = 0 .. n /\ e[0] = << >>
    BY <2>6
  <2>10. Fronts(e, q, n)
    BY <2>8, <2>9 DEF Fronts
  <2> QED BY <2>5, <2>7, <2>10
<1> QED BY <1>1, <1>2

(***************************************************************************)
(* The octets of a character.                                              *)
(***************************************************************************)

(* So many are enough, and no fewer.                                       *)
NeedsOctets(c, n) == c < 128 ^ n /\ \A j \in 1 .. n - 1 : c >= 128 ^ j

(* Five octets are enough for every character (CharactersAssumption).      *)
LEMMA OctetsNeeded ==
  ASSUME NEW c \in Character
  PROVE  \E n \in 1 .. 5 : NeedsOctets(c, n)
<1>1. c \in Nat /\ c \div 128 ^ 4 < 128
  BY CharactersAssumption
<1>2. c < 34359738368
  BY <1>1
<1>3. 128 ^ 1 = 128 /\ 128 ^ 2 = 16384 /\ 128 ^ 3 = 2097152 /\ 128 ^ 4 = 268435456
      /\ 128 ^ 5 = 34359738368
  OBVIOUS
<1>4. CASE c < 128
  <2>1. NeedsOctets(c, 1)
    BY <1>3, <1>4 DEF NeedsOctets
  <2> QED BY <2>1
<1>5. CASE c >= 128 /\ c < 16384
  <2>1. \A j \in 1 .. 2 - 1 : j = 1
    OBVIOUS
  <2>2. NeedsOctets(c, 2)
    BY <1>3, <1>5, <2>1 DEF NeedsOctets
  <2> QED BY <2>2
<1>6. CASE c >= 16384 /\ c < 2097152
  <2>1. \A j \in 1 .. 3 - 1 : j = 1 \/ j = 2
    OBVIOUS
  <2>2. c >= 128 ^ 1 /\ c >= 128 ^ 2
    BY <1>1, <1>3, <1>6
  <2>3. NeedsOctets(c, 3)
    BY <1>3, <1>6, <2>1, <2>2 DEF NeedsOctets
  <2> QED BY <2>3
<1>7. CASE c >= 2097152 /\ c < 268435456
  <2>1. \A j \in 1 .. 4 - 1 : j = 1 \/ j = 2 \/ j = 3
    OBVIOUS
  <2>2. c >= 128 ^ 1 /\ c >= 128 ^ 2 /\ c >= 128 ^ 3
    BY <1>1, <1>3, <1>7
  <2>3. NeedsOctets(c, 4)
    BY <1>3, <1>7, <2>1, <2>2 DEF NeedsOctets
  <2> QED BY <2>3
<1>8. CASE c >= 268435456
  <2>1. \A j \in 1 .. 5 - 1 : j = 1 \/ j = 2 \/ j = 3 \/ j = 4
    OBVIOUS
  <2>2. c >= 128 ^ 1 /\ c >= 128 ^ 2 /\ c >= 128 ^ 3 /\ c >= 128 ^ 4
    BY <1>1, <1>3, <1>8
  <2>3. NeedsOctets(c, 5)
    BY <1>2, <1>3, <2>1, <2>2 DEF NeedsOctets
  <2> QED BY <2>3
<1> QED BY <1>1, <1>4, <1>5, <1>6, <1>7, <1>8

(* The octet that holds the i-th seven bits of c.                          *)
OctetOf(c, n, i) == BitsOf(c, 7 * (i - 1), 7) + (IF i < n THEN 128 ELSE 0)

(* What an encoder writes of a character, octet by octet.                  *)
LEMMA OctetsAre ==
  ASSUME NEW c \in Character
  PROVE  \E n \in 1 .. 5 : /\ NeedsOctets(c, n)
                           /\ OctetsOf(c) = [i \in 1 .. n |-> OctetOf(c, n, i)]
<1> DEFINE n == CHOOSE k \in 1 .. 5 : c < 128 ^ k /\ \A j \in 1 .. k - 1 : c >= 128 ^ j
<1>1. n \in 1 .. 5 /\ NeedsOctets(c, n)
  BY OctetsNeeded DEF NeedsOctets
<1>2. OctetsOf(c) = [i \in 1 .. n |-> OctetOf(c, n, i)]
  BY DEF OctetsOf, OctetOf
<1> HIDE DEF n
<1> QED BY <1>1, <1>2

(* What an octet adds to the integer under way, and whether it is the last. *)
OctetAdded(c, n, k, octet) ==
  /\ octet \in Nat
  /\ octet < 128 <=> k + 1 = n
  /\ (c % 128 ^ k) + BitsOf(octet, 0, 7) * 2 ^ (7 * k) = c % 128 ^ (k + 1)

(* readOctet adds an octet's bits above those that were there, and sees    *)
(* at its highest bit whether it is the last one.                          *)
LEMMA OctetAdds ==
  ASSUME NEW c \in Nat, NEW n \in 1 .. 5, NeedsOctets(c, n),
         NEW k \in 0 .. 2, k < n, NEW octet, octet = OctetOf(c, n, k + 1)
  PROVE  OctetAdded(c, n, k, octet)
<1> USE DEF OctetAdded
<1>1. CASE k = 0
  <2>1. OctetOf(c, n, 1) = (c % 128) + (IF 1 < n THEN 128 ELSE 0)
    <3>1. 7 * (1 - 1) = 0 /\ 2 ^ 0 = 1 /\ 2 ^ 7 = 128 /\ c \div 1 = c
      OBVIOUS
    <3> QED BY <3>1 DEF OctetOf, BitsOf
  <2>2. c % 128 \in 0 .. 127 /\ k + 1 = 1
    BY <1>1
  <2>3. octet \in Nat /\ octet % 128 = c % 128 /\ (octet < 128 <=> k + 1 = n)
    BY <2>1, <2>2
  <2>4. BitsOf(octet, 0, 7) = octet % 128
    BY <2>3 DEF BitsOf
  <2>5. 128 ^ k = 1 /\ 128 ^ (k + 1) = 128 /\ 2 ^ (7 * k) = 1 /\ c % 1 = 0
    BY <1>1
  <2> QED BY <2>2, <2>3, <2>4, <2>5
<1>2. CASE k = 1
  <2>1. OctetOf(c, n, 2) = ((c \div 128) % 128) + (IF 2 < n THEN 128 ELSE 0)
    <3>1. 7 * (2 - 1) = 7 /\ 2 ^ 7 = 128
      OBVIOUS
    <3> QED BY <3>1 DEF OctetOf, BitsOf
  <2>2. (c \div 128) % 128 \in 0 .. 127 /\ k + 1 = 2
    BY <1>2
  <2>3. octet \in Nat /\ octet % 128 = (c \div 128) % 128 /\ (octet < 128 <=> k + 1 = n)
    BY <2>1, <2>2
  <2>4. BitsOf(octet, 0, 7) = octet % 128
    BY <2>3 DEF BitsOf
  <2>5. 128 ^ k = 128 /\ 128 ^ (k + 1) = 16384 /\ 2 ^ (7 * k) = 128
    BY <1>2
  <2>6. PICK x \in Nat : x = (c \div 128) % 128 /\ (c % 128) + x * 128 = c % 16384
    OBVIOUS
  <2>7. BitsOf(octet, 0, 7) = x
    BY <2>3, <2>4, <2>6
  <2>8. BitsOf(octet, 0, 7) * 2 ^ (7 * k) = x * 128
    BY <2>5, <2>7
  <2>9. c % 128 ^ k = c % 128 /\ c % 128 ^ (k + 1) = c % 16384
    BY <2>5
  <2> QED BY <2>3, <2>6, <2>8, <2>9
<1>3. CASE k = 2
  <2>1. OctetOf(c, n, 3) = ((c \div 16384) % 128) + (IF 3 < n THEN 128 ELSE 0)
    <3>1. 7 * (3 - 1) = 14 /\ 2 ^ 7 = 128 /\ 2 ^ 14 = 16384
      OBVIOUS
    <3> QED BY <3>1 DEF OctetOf, BitsOf
  <2>2. (c \div 16384) % 128 \in 0 .. 127 /\ k + 1 = 3
    BY <1>3
  <2>3. octet \in Nat /\ octet % 128 = (c \div 16384) % 128 /\ (octet < 128 <=> k + 1 = n)
    BY <2>1, <2>2
  <2>4. BitsOf(octet, 0, 7) = octet % 128
    BY <2>3 DEF BitsOf
  <2>5. 128 ^ k = 16384 /\ 128 ^ (k + 1) = 2097152 /\ 2 ^ (7 * k) = 16384
    BY <1>3
  <2>6. PICK x \in Nat :
          x = (c \div 16384) % 128 /\ (c % 16384) + x * 16384 = c % 2097152
    OBVIOUS
  <2>7. BitsOf(octet, 0, 7) = x
    BY <2>3, <2>4, <2>6
  <2>8. BitsOf(octet, 0, 7) * 2 ^ (7 * k) = x * 16384
    BY <2>5, <2>7
  <2>9. c % 128 ^ k = c % 16384 /\ c % 128 ^ (k + 1) = c % 2097152
    BY <2>5
  <2> QED BY <2>3, <2>6, <2>8, <2>9
<1>4. k = 0 \/ k = 1 \/ k = 2
  OBVIOUS
<1> QED BY <1>1, <1>2, <1>3, <1>4

(* The last octet completes the character.                                 *)
LEMMA OctetCompletes ==
  ASSUME NEW c \in Nat, NEW n \in 1 .. 5, NeedsOctets(c, n)
  PROVE  /\ n <= 3 => c % 128 ^ n = c
         /\ TooLong(c) <=> n > 3
<1>1. 128 ^ 1 = 128 /\ 128 ^ 2 = 16384 /\ 128 ^ 3 = 2097152
  BY SMT
<1>2. TooLong(c) <=> c >= 2097152
  BY SMT, <1>1 DEF TooLong, UnicodeReads
<1>3. CASE n <= 3
  <2>1. n = 1 \/ n = 2 \/ n = 3
    BY SMT, <1>3
  <2>2. c < 128 ^ n
    BY SMT DEF NeedsOctets
  <2>3. CASE n = 1
    <3>1. c < 128
      BY SMT, <1>1, <2>2, <2>3
    <3> QED BY SMT, <1>1, <1>2, <1>3, <2>3, <3>1
  <2>4. CASE n = 2
    <3>1. c < 16384
      BY SMT, <1>1, <2>2, <2>4
    <3> QED BY SMT, <1>1, <1>2, <1>3, <2>4, <3>1
  <2>5. CASE n = 3
    <3>1. c < 2097152
      BY SMT, <1>1, <2>2, <2>5
    <3> QED BY SMT, <1>1, <1>2, <1>3, <2>5, <3>1
  <2> QED BY SMT, <2>1, <2>3, <2>4, <2>5
<1>4. CASE n > 3
  <2>1. 3 \in 1 .. n - 1
    BY SMT, <1>4
  <2>2. \A j \in 1 .. n - 1 : c >= 128 ^ j
    BY DEF NeedsOctets
  <2>3. c >= 128 ^ 3
    BY ONLY Zenon, <2>1, <2>2
  <2> QED BY SMT, <1>1, <1>2, <1>4, <2>3
<1> QED BY SMT, <1>3, <1>4

(***************************************************************************)
(* The bytes of a character.                                               *)
(***************************************************************************)

(* The bytes of a number, by how many they are.                            *)
TwoBytes(e, v, x, y) == v = x * 64 + y /\ e = << 192 + x, 128 + y >>
ThreeBytes(e, v, x, y, z) ==
  v = x * 4096 + y * 64 + z /\ e = << 224 + x, 128 + y, 128 + z >>
FourBytes(e, v, x, y, z, w) ==
  /\ v = x * 262144 + y * 4096 + z * 64 + w
  /\ e = << 240 + x, 128 + y, 128 + z, 128 + w >>

(* The bytes e are UTF-8 for the number v.                                 *)
Utf8Of(e, v) ==
  \/ v \in 0 .. 127 /\ e = << v >>
  \/ \E x \in 0 .. 31, y \in 0 .. 63 : TwoBytes(e, v, x, y)
  \/ \E x \in 0 .. 15, y \in 0 .. 63, z \in 0 .. 63 : ThreeBytes(e, v, x, y, z)
  \/ \E x \in 0 .. 7, y \in 0 .. 63, z \in 0 .. 63, w \in 0 .. 63 : FourBytes(e, v, x, y, z, w)

(* What a character decodes to is in the range of Unicode.                 *)
LEMMA ValidIs ==
  ASSUME NEW c \in Nat
  PROVE  Valid(c) \in Nat /\ Valid(c) <= kMaxVal
BY SMT DEF Valid, kMaxVal, kInvalidRune

(* RuneEncoder writes UTF-8, and the replacement for what has none.        *)
LEMMA EncodeIs ==
  ASSUME NEW c \in Nat
  PROVE  Utf8Of(Encode(c), Valid(c))
<1>1. CASE c <= 127
  <2>1. Encode(c) = << c >>
    BY SMT, <1>1 DEF Encode, kMaxVal
  <2>2. Valid(c) = c
    BY SMT, <1>1 DEF Valid, kMaxVal
  <2>3. c \in 0 .. 127
    BY SMT, <1>1
  <2> QED BY Zenon, <2>1, <2>2, <2>3 DEF Utf8Of
<1>2. CASE 127 < c /\ c <= 2047
  <2>1. PICK x \in 0 .. 31 : x = (c \div 64) % 32
    BY SMT
  <2>2. PICK y \in 0 .. 63 : y = c % 64
    BY SMT
  <2>3. BitsOf(c, 6, 5) = x /\ BitsOf(c, 0, 6) = y
    BY SMT, <2>1, <2>2 DEF BitsOf
  <2>4. Encode(c) = << 192 + x, 128 + y >>
    BY SMT, <1>2, <2>3 DEF Encode, kMaxVal
  <2>5. c = x * 64 + y
    BY SMT, <1>2, <2>1, <2>2
  <2>6. Valid(c) = c
    BY SMT, <1>2 DEF Valid, kMaxVal
  <2>7. TwoBytes(Encode(c), Valid(c), x, y)
    BY <2>4, <2>5, <2>6 DEF TwoBytes
  <2> QED BY Zenon, <2>7 DEF Utf8Of
<1>3. CASE 2047 < c /\ c <= 65535
  <2>1. PICK x \in 0 .. 15 : x = (c \div 4096) % 16
    BY SMT
  <2>2. PICK y \in 0 .. 63 : y = (c \div 64) % 64
    BY SMT
  <2>3. PICK z \in 0 .. 63 : z = c % 64
    BY SMT
  <2>4. BitsOf(c, 12, 4) = x /\ BitsOf(c, 6, 6) = y /\ BitsOf(c, 0, 6) = z
    BY SMT, <2>1, <2>2, <2>3 DEF BitsOf
  <2>5. Encode(c) = << 224 + x, 128 + y, 128 + z >>
    BY SMT, <1>3, <2>4 DEF Encode, kMaxVal
  <2>6. c = x * 4096 + y * 64 + z
    BY SMT, <1>3, <2>1, <2>2, <2>3
  <2>7. Valid(c) = c
    BY SMT, <1>3 DEF Valid, kMaxVal
  <2>8. ThreeBytes(Encode(c), Valid(c), x, y, z)
    BY SMT, <2>5, <2>6, <2>7 DEF ThreeBytes
  <2> QED BY Zenon, <2>8 DEF Utf8Of
<1>4. CASE 65535 < c /\ c <= kMaxVal
  <2>1. PICK x \in 0 .. 7 : x = (c \div 262144) % 8
    BY SMT
  <2>2. PICK y \in 0 .. 63 : y = (c \div 4096) % 64
    BY SMT
  <2>3. PICK z \in 0 .. 63 : z = (c \div 64) % 64
    BY SMT
  <2>4. PICK w \in 0 .. 63 : w = c % 64
    BY SMT
  <2>5. /\ BitsOf(c, 18, 3) = x /\ BitsOf(c, 12, 6) = y
        /\ BitsOf(c, 6, 6) = z /\ BitsOf(c, 0, 6) = w
    BY SMT, <2>1, <2>2, <2>3, <2>4 DEF BitsOf
  <2>6. Encode(c) = << 240 + x, 128 + y, 128 + z, 128 + w >>
    BY SMT, <1>4, <2>5 DEF Encode, kMaxVal
  <2>7. c = x * 262144 + y * 4096 + z * 64 + w
    BY SMT, <1>4, <2>1, <2>2, <2>3, <2>4 DEF kMaxVal
  <2>8. Valid(c) = c
    BY SMT, <1>4 DEF Valid, kMaxVal
  <2>9. FourBytes(Encode(c), Valid(c), x, y, z, w)
    BY SMT, <2>6, <2>7, <2>8 DEF FourBytes
  <2> QED BY Zenon, <2>9 DEF Utf8Of
<1>5. CASE c > kMaxVal
  <2>1. Encode(c) = << 239, 191, 189 >>
    BY SMT, <1>5 DEF Encode, kMaxVal
  <2>2. Valid(c) = 65533
    BY SMT, <1>5 DEF Valid, kMaxVal, kInvalidRune
  <2>3. PICK x \in 0 .. 15, y \in 0 .. 63, z \in 0 .. 63 : x = 15 /\ y = 63 /\ z = 61
    BY SMT
  <2>4. ThreeBytes(Encode(c), Valid(c), x, y, z)
    BY SMT, <2>1, <2>2, <2>3 DEF ThreeBytes
  <2> QED BY Zenon, <2>4 DEF Utf8Of
<1> QED BY SMT, <1>1, <1>2, <1>3, <1>4, <1>5 DEF kMaxVal

(* The bits of the bytes behind the first,                                 *)
LEMMA TrailBits ==
  ASSUME NEW x \in 0 .. 63, NEW b, b = 128 + x
  PROVE  BitsOf(b, 6, 2) = 2 /\ BitsOf(b, 0, 6) = x
BY SMT DEF BitsOf

(* and of the first, which tells how many there are.                       *)
LEMMA LeadOfOne ==
  ASSUME NEW b \in 0 .. 127
  PROVE  UnitLen(b) = 1
BY SMT DEF UnitLen, BitsOf

(* The lead byte of two bytes: its length, and the bits it carries,        *)
LEMMA LeadOfTwo ==
  ASSUME NEW x \in 0 .. 31, NEW b, b = 192 + x
  PROVE  UnitLen(b) = 2 /\ BitsOf(b, 0, 5) = x
BY SMT DEF UnitLen, BitsOf

(* of three bytes,                                                         *)
LEMMA LeadOfThree ==
  ASSUME NEW x \in 0 .. 15, NEW b, b = 224 + x
  PROVE  UnitLen(b) = 3 /\ BitsOf(b, 0, 4) = x
BY SMT DEF UnitLen, BitsOf

(* and of four.                                                            *)
LEMMA LeadOfFour ==
  ASSUME NEW x \in 0 .. 7, NEW b, b = 240 + x
  PROVE  UnitLen(b) = 4 /\ BitsOf(b, 0, 3) = x
BY SMT DEF UnitLen, BitsOf

(* A sequence that another was put in front of.                            *)
LEMMA BehindPiece ==
  ASSUME NEW e \in Seq(Nat), NEW r \in Seq(Nat), NEW q, q = e \o r
  PROVE  /\ q \in Seq(Nat) /\ Len(q) = Len(e) + Len(r)
         /\ \A i \in 1 .. Len(e) : q[i] = e[i]
         /\ SubSeq(q, Len(e) + 1, Len(q)) = r
<1>1. /\ q \in Seq(Nat) /\ Len(q) = Len(e) + Len(r)
      /\ \A i \in 1 .. Len(e) + Len(r) : q[i] = IF i <= Len(e) THEN e[i] ELSE r[i - Len(e)]
  BY ConcatProperties
<1>2. PICK a \in Nat, b \in Nat : a = Len(e) /\ b = Len(r)
  BY LenProperties
<1>3. \A i \in a + 1 .. a + b : q[i] \in Nat
  <2>1. ASSUME NEW i \in a + 1 .. a + b PROVE q[i] \in Nat
    <3>1. i \in 1 .. Len(q)
      BY <1>1, <1>2
    <3> QED BY <1>1, <3>1, ElementOfSeq
  <2> QED BY <2>1
<1>4. PICK s : s = SubSeq(q, a + 1, a + b)
  OBVIOUS
<1>5. /\ s \in Seq(Nat) /\ Len(s) = b
      /\ \A i \in 1 .. b : s[i] = q[a + i]
  <2>1. PICK m \in Int, n \in Int : m = a + 1 /\ n = a + b
    OBVIOUS
  <2>2. /\ s \in Seq(Nat)
        /\ Len(s) = IF m <= n THEN n - m + 1 ELSE 0
        /\ \A i \in 1 .. n - m + 1 : s[i] = q[m + i - 1]
    <3>1. s = SubSeq(q, m, n) /\ \A i \in m .. n : q[i] \in Nat
      BY <1>3, <1>4, <2>1
    <3>2. m \in Int /\ n \in Int /\ \A i \in m .. n : q[i] \in Nat
      BY <3>1
    <3>3. /\ SubSeq(q, m, n) \in Seq(Nat)
          /\ Len(SubSeq(q, m, n)) = IF m <= n THEN n - m + 1 ELSE 0
          /\ \A i \in 1 .. n - m + 1 : SubSeq(q, m, n)[i] = q[m + i - 1]
      BY ONLY <3>2, SubSeqProperties
    <3> QED BY Zenon, <3>1, <3>3
  <2>3. n - m + 1 = b /\ \A i \in 1 .. b : m + i - 1 = a + i
    BY <2>1
  <2>4. Len(s) = b
    BY <2>1, <2>2
  <2> QED BY <2>2, <2>3, <2>4
<1>6. ASSUME NEW i \in 1 .. b PROVE s[i] = r[i]
  <2>1. a + i \in 1 .. a + b /\ ~ (a + i <= a) /\ (a + i) - a = i
    OBVIOUS
  <2> QED BY <1>1, <1>2, <1>5, <2>1
<1>7. s = r
  BY <1>2, <1>5, <1>6, SeqEqual
<1>8. \A i \in 1 .. a : q[i] = e[i]
  <2>1. \A i \in 1 .. a : i \in 1 .. a + b /\ i <= a
    OBVIOUS
  <2> QED BY <1>1, <1>2, <2>1
<1> QED BY <1>1, <1>2, <1>4, <1>7, <1>8

(* What RuneDecoder makes of UTF-8 at the start of Data: all of its bytes  *)
(* and no others, and the number.                                          *)
Decodes(e, v) ==
  /\ UnitLen(Data[1]) = Len(e)
  /\ checkTrailSeq(Len(e))
  /\ decodeImpl(Len(e)) = v

(* UTF-8 is one to four bytes.                                             *)
LEMMA Utf8Type ==
  ASSUME NEW e, NEW v, Utf8Of(e, v)
  PROVE  e \in Seq(Nat) /\ Len(e) \in 1 .. 4
<1>1. CASE v \in 0 .. 127 /\ e = << v >>
  BY SMT, <1>1
<1>2. ASSUME NEW x \in 0 .. 31, NEW y \in 0 .. 63, TwoBytes(e, v, x, y)
      PROVE  e \in Seq(Nat) /\ Len(e) \in 1 .. 4
  BY SMT, <1>2 DEF TwoBytes
<1>3. ASSUME NEW x \in 0 .. 15, NEW y \in 0 .. 63, NEW z \in 0 .. 63, ThreeBytes(e, v, x, y, z)
      PROVE  e \in Seq(Nat) /\ Len(e) \in 1 .. 4
  BY SMT, <1>3 DEF ThreeBytes
<1>4. ASSUME NEW x \in 0 .. 7, NEW y \in 0 .. 63, NEW z \in 0 .. 63, NEW w \in 0 .. 63,
             FourBytes(e, v, x, y, z, w)
      PROVE  e \in Seq(Nat) /\ Len(e) \in 1 .. 4
  BY SMT, <1>4 DEF FourBytes
<1> QED BY Zenon, <1>1, <1>2, <1>3, <1>4 DEF Utf8Of

(* What the decoder makes of the bytes that Encode wrote (UnitLen,         *)
(* checkTrailSeq, decodeImpl).                                             *)
LEMMA Utf8Decodes ==
  ASSUME NEW e, NEW v, Utf8Of(e, v), \A i \in 1 .. Len(e) : Data[i] = e[i]
  PROVE  Decodes(e, v)
<1>1. CASE v \in 0 .. 127 /\ e = << v >>
  <2>1. Len(e) = 1 /\ e[1] = v
    BY SMT, <1>1
  <2>2. Data[1] = v
    BY SMT, <2>1
  <2>3. UnitLen(Data[1]) = 1
    BY <1>1, <2>2, LeadOfOne
  <2>4. \A i \in 2 .. 1 : FALSE
    OBVIOUS
  <2>5. checkTrailSeq(1)
    BY Zenon, <2>4 DEF checkTrailSeq
  <2>6. decodeImpl(1) = v
    BY SMT, <2>2 DEF decodeImpl
  <2> QED BY <2>1, <2>3, <2>5, <2>6 DEF Decodes
<1>2. ASSUME NEW x \in 0 .. 31, NEW y \in 0 .. 63, TwoBytes(e, v, x, y)
      PROVE  Decodes(e, v)
  <2>1. Len(e) = 2 /\ e[1] = 192 + x /\ e[2] = 128 + y
    BY SMT, <1>2 DEF TwoBytes
  <2>2. Data[1] = 192 + x /\ Data[2] = 128 + y
    BY SMT, <2>1
  <2>3. UnitLen(Data[1]) = 2 /\ BitsOf(Data[1], 0, 5) = x
    BY Zenon, <2>2, LeadOfTwo
  <2>4. BitsOf(Data[2], 6, 2) = 2 /\ BitsOf(Data[2], 0, 6) = y
    BY Zenon, <2>2, TrailBits
  <2>5. checkTrailSeq(2)
    <3>1. \A i \in 2 .. 2 : i = 2
      OBVIOUS
    <3> QED BY <2>4, <3>1 DEF checkTrailSeq
  <2>6. decodeImpl(2) = x * 64 + y
    <3>1. decodeImpl(2) = BitsOf(Data[1], 0, 5) * 2 ^ 6 + BitsOf(Data[2], 0, 6) * 2 ^ 0
      BY SMT DEF decodeImpl
    <3> QED BY SMT, <2>3, <2>4, <3>1
  <2> QED BY <1>2, <2>1, <2>3, <2>5, <2>6 DEF Decodes, TwoBytes
<1>3. ASSUME NEW x \in 0 .. 15, NEW y \in 0 .. 63, NEW z \in 0 .. 63, ThreeBytes(e, v, x, y, z)
      PROVE  Decodes(e, v)
  <2>1. Len(e) = 3 /\ e[1] = 224 + x /\ e[2] = 128 + y /\ e[3] = 128 + z
    BY SMT, <1>3 DEF ThreeBytes
  <2>2. Data[1] = 224 + x /\ Data[2] = 128 + y /\ Data[3] = 128 + z
    BY SMT, <2>1
  <2>3. UnitLen(Data[1]) = 3 /\ BitsOf(Data[1], 0, 4) = x
    BY Zenon, <2>2, LeadOfThree
  <2>4. /\ BitsOf(Data[2], 6, 2) = 2 /\ BitsOf(Data[2], 0, 6) = y
        /\ BitsOf(Data[3], 6, 2) = 2 /\ BitsOf(Data[3], 0, 6) = z
    <3>1. BitsOf(Data[2], 6, 2) = 2 /\ BitsOf(Data[2], 0, 6) = y
      BY Zenon, <2>2, TrailBits
    <3>2. BitsOf(Data[3], 6, 2) = 2 /\ BitsOf(Data[3], 0, 6) = z
      BY Zenon, <2>2, TrailBits
    <3> QED BY <3>1, <3>2
  <2>5. checkTrailSeq(3)
    <3>1. \A i \in 2 .. 3 : i = 2 \/ i = 3
      OBVIOUS
    <3> QED BY <2>4, <3>1 DEF checkTrailSeq
  <2>6. decodeImpl(3) = x * 4096 + y * 64 + z
    <3>1. decodeImpl(3) = BitsOf(Data[1], 0, 4) * 2 ^ 12 + BitsOf(Data[2], 0, 6) * 2 ^ 6
                          + BitsOf(Data[3], 0, 6) * 2 ^ 0
      BY SMT DEF decodeImpl
    <3> QED BY SMT, <2>3, <2>4, <3>1
  <2> QED BY <1>3, <2>1, <2>3, <2>5, <2>6 DEF Decodes, ThreeBytes
<1>4. ASSUME NEW x \in 0 .. 7, NEW y \in 0 .. 63, NEW z \in 0 .. 63, NEW w \in 0 .. 63,
             FourBytes(e, v, x, y, z, w)
      PROVE  Decodes(e, v)
  <2>1. Len(e) = 4 /\ e[1] = 240 + x /\ e[2] = 128 + y /\ e[3] = 128 + z /\ e[4] = 128 + w
    BY SMT, <1>4 DEF FourBytes
  <2>2. Data[1] = 240 + x /\ Data[2] = 128 + y /\ Data[3] = 128 + z /\ Data[4] = 128 + w
    BY SMT, <2>1
  <2>3. UnitLen(Data[1]) = 4 /\ BitsOf(Data[1], 0, 3) = x
    BY Zenon, <2>2, LeadOfFour
  <2>4. /\ BitsOf(Data[2], 6, 2) = 2 /\ BitsOf(Data[2], 0, 6) = y
        /\ BitsOf(Data[3], 6, 2) = 2 /\ BitsOf(Data[3], 0, 6) = z
        /\ BitsOf(Data[4], 6, 2) = 2 /\ BitsOf(Data[4], 0, 6) = w
    <3>1. BitsOf(Data[2], 6, 2) = 2 /\ BitsOf(Data[2], 0, 6) = y
      BY Zenon, <2>2, TrailBits
    <3>2. BitsOf(Data[3], 6, 2) = 2 /\ BitsOf(Data[3], 0, 6) = z
      BY Zenon, <2>2, TrailBits
    <3>3. BitsOf(Data[4], 6, 2) = 2 /\ BitsOf(Data[4], 0, 6) = w
      BY Zenon, <2>2, TrailBits
    <3> QED BY <3>1, <3>2, <3>3
  <2>5. checkTrailSeq(4)
    <3>1. \A i \in 2 .. 4 : i = 2 \/ i = 3 \/ i = 4
      OBVIOUS
    <3> QED BY <2>4, <3>1 DEF checkTrailSeq
  <2>6. decodeImpl(4) = x * 262144 + y * 4096 + z * 64 + w
    <3>1. decodeImpl(4) = BitsOf(Data[1], 0, 3) * 2 ^ 18 + BitsOf(Data[2], 0, 6) * 2 ^ 12
                          + BitsOf(Data[3], 0, 6) * 2 ^ 6 + BitsOf(Data[4], 0, 6) * 2 ^ 0
      BY SMT DEF decodeImpl
    <3> QED BY SMT, <2>3, <2>4, <3>1
  <2> QED BY SMT, <1>4, <2>1, <2>3, <2>5, <2>6 DEF Decodes, FourBytes
<1> QED BY Zenon, <1>1, <1>2, <1>3, <1>4 DEF Utf8Of

(* Reading a sequence from its n-th element on.                            *)
LEMMA SuffixStep ==
  ASSUME NEW q \in Seq(Nat), NEW n \in Nat, n < Len(q)
  PROVE  /\ Head(SubSeq(q, n + 1, Len(q))) = q[n + 1]
         /\ Tail(SubSeq(q, n + 1, Len(q))) = SubSeq(q, n + 2, Len(q))
<1>1. Len(q) \in Nat
  BY LenProperties
<1>2. PICK m \in 1 .. Len(q) : m = n + 1 /\ m + 1 = n + 2
  BY <1>1
<1>3. Len(q) \in m .. Len(q)
  BY <1>1
<1>4. Head(SubSeq(q, m, Len(q))) = q[m] /\ Tail(SubSeq(q, m, Len(q))) = SubSeq(q, m + 1, Len(q))
  BY <1>3, HeadTailOfSubSeq
<1> QED BY <1>2, <1>4

(***************************************************************************)
(* The characters of the text, in octets and in bytes.                     *)
(***************************************************************************)
OctetPieces == [i \in 1 .. Len(text) |-> OctetsOf(text[i])]
Utf8Pieces == [i \in 1 .. Len(text) |-> Encode(text[i])]

(* p is the octets of c, n of them.                                        *)
OctetPiece(p, c, n) ==
  /\ c \in Nat /\ n \in 1 .. 5 /\ NeedsOctets(c, n)
  /\ p \in Seq(Nat) /\ Len(p) = n
  /\ \A j \in 1 .. n : p[j] = OctetOf(c, n, j)

(* An octet is a number.                                                   *)
LEMMA OctetOfType ==
  ASSUME NEW c \in Nat, NEW n \in 1 .. 5, NEW j \in 1 .. 5
  PROVE  OctetOf(c, n, j) \in Nat
<1>1. ASSUME NEW a \in Nat, a > 0 PROVE (c \div a) % 128 \in Nat
  <2>1. c \div a \in Nat
    BY SMT, <1>1
  <2> QED BY SMT, <2>1
<1>2. PICK e \in {0, 7, 14, 21, 28} : e = 7 * (j - 1)
  BY SMT
<1>3. 2 ^ e \in Nat /\ 2 ^ e > 0
  <2>1. CASE e = 0
    BY SMT, <2>1
  <2>2. CASE e = 7
    BY SMT, <2>2
  <2>3. CASE e = 14
    BY SMT, <2>3
  <2>4. CASE e = 21
    BY SMT, <2>4
  <2>5. CASE e = 28
    BY SMT, <2>5
  <2> QED BY <2>1, <2>2, <2>3, <2>4, <2>5
<1>4. PICK a \in Nat : a = 2 ^ e /\ a > 0
  BY <1>3
<1>5. BitsOf(c, e, 7) = (c \div a) % 128
  <2>1. 2 ^ 7 = 128
    BY SMT
  <2> QED BY SMT, <1>4, <2>1 DEF BitsOf
<1>6. BitsOf(c, e, 7) \in Nat
  BY <1>1, <1>4, <1>5
<1> QED BY SMT, <1>2, <1>6 DEF OctetOf

(* What the octets and the bytes of each character of the text are.        *)
LEMMA PiecesAre ==
  ASSUME text \in Seq(Character)
  PROVE  /\ Len(text) \in Nat
         /\ \A i \in 1 .. Len(text) :
              /\ text[i] \in Character /\ text[i] \in Nat
              /\ \E n \in 1 .. 5 : OctetPiece(OctetPieces[i], text[i], n)
              /\ Utf8Pieces[i] = Encode(text[i])
              /\ Utf8Of(Utf8Pieces[i], Valid(text[i]))
         /\ Pieces(OctetPieces, Len(text)) /\ Pieces(Utf8Pieces, Len(text))
<1>1. Len(text) \in Nat /\ \A i \in 1 .. Len(text) : text[i] \in Character
  BY LenProperties, ElementOfSeq
<1>2. ASSUME NEW i \in 1 .. Len(text)
      PROVE  /\ text[i] \in Character /\ text[i] \in Nat
             /\ \E n \in 1 .. 5 : OctetPiece(OctetPieces[i], text[i], n)
             /\ Utf8Pieces[i] = Encode(text[i])
             /\ Utf8Of(Utf8Pieces[i], Valid(text[i]))
  <2>1. PICK c \in Character : c = text[i]
    BY <1>1
  <2>2. c \in Nat
    BY CharactersAssumption
  <2>3. PICK n \in 1 .. 5 : /\ NeedsOctets(c, n)
                            /\ OctetsOf(c) = [j \in 1 .. n |-> OctetOf(c, n, j)]
    BY OctetsAre
  <2>4. PICK p : p = OctetsOf(c)
    OBVIOUS
  <2>5. p \in [1 .. n -> Nat] /\ \A j \in 1 .. n : p[j] = OctetOf(c, n, j)
    <3>1. ASSUME NEW j \in 1 .. n PROVE OctetOf(c, n, j) \in Nat
      <4>1. j \in 1 .. 5
        OBVIOUS
      <4> QED BY Zenon, <2>2, <4>1, OctetOfType
    <3> QED BY <2>3, <2>4, <3>1
  <2>6. p \in Seq(Nat) /\ Len(p) = n
    BY <2>5
  <2>7. OctetPieces[i] = p
    BY <2>1, <2>4 DEF OctetPieces
  <2>8. OctetPiece(p, c, n)
    BY <2>2, <2>3, <2>5, <2>6 DEF OctetPiece
  <2>9. Utf8Pieces[i] = Encode(c)
    BY <2>1 DEF Utf8Pieces
  <2>10. Utf8Of(Encode(c), Valid(c))
    BY <2>2, EncodeIs
  <2> QED BY <2>1, <2>2, <2>7, <2>8, <2>9, <2>10
<1>3. Pieces(OctetPieces, Len(text))
  <2>1. ASSUME NEW i \in 1 .. Len(text) PROVE OctetPieces[i] \in Seq(Nat)
    <3>1. PICK n \in 1 .. 5 : OctetPiece(OctetPieces[i], text[i], n)
      BY <1>2
    <3> QED BY <3>1 DEF OctetPiece
  <2> QED BY <2>1 DEF Pieces
<1>4. Pieces(Utf8Pieces, Len(text))
  <2>1. ASSUME NEW i \in 1 .. Len(text) PROVE Utf8Pieces[i] \in Seq(Nat)
    <3>1. Utf8Of(Utf8Pieces[i], Valid(text[i]))
      BY <1>2
    <3> QED BY <3>1, Utf8Type
  <2> QED BY <2>1 DEF Pieces
<1> QED BY <1>1, <1>2, <1>3, <1>4

(***************************************************************************)
(* The invariant: so many characters have been read, and so many octets of *)
(* the next; or so many have been decoded.                                 *)
(***************************************************************************)
NothingDecoded == [found |-> << >>, valid |-> TRUE]

ReadAt(g, f, k, n) ==
  /\ left = Len(text) - k
  /\ Data = f[k]
  /\ octets = SubSeq(g[k], n + 1, Len(g[k]))
  /\ k = Len(text) => n = 0
  /\ k < Len(text) =>
       /\ n < Len(OctetPieces[k + 1])
       /\ uint = [Value |-> text[k + 1] % 128 ^ n, Multiplier |-> 7 * n, N |-> n]
  /\ \A i \in 1 .. k : ~ TooLong(text[i])

DecodedAt(d, k) ==
  /\ Data = d[k]
  /\ runes.found = [i \in 1 .. k |-> Valid(text[i])]
  /\ runes.valid = (\A i \in 1 .. k : Valid(text[i]) # kInvalidRune)
  /\ octets = Behind
  /\ \A i \in 1 .. Len(text) : ~ TooLong(text[i])

(* The octets g and the bytes f and d of the text, from either end.        *)
TextIn(g, f, d) ==
  /\ Rests(g, OctetPieces, Len(text), Behind)
  /\ Fronts(f, Utf8Pieces, Len(text))
  /\ Rests(d, Utf8Pieces, Len(text), << >>)

PhaseInv(g, f, d) ==
  /\ phase = "read" => /\ runes = NothingDecoded
                       /\ \E k \in 0 .. Len(text), n \in 0 .. 2 : ReadAt(g, f, k, n)
  /\ phase = "decode" => \E k \in 0 .. Len(text) : DecodedAt(d, k)
  /\ phase = "done" => DecodedAt(d, Len(text))
  /\ phase = "failed" => \E i \in 1 .. Len(text) : TooLong(text[i])

CharInv ==
  /\ text \in Seq(Character)
  /\ phase \in {"read", "decode", "done", "failed"}
  /\ \E g, f, d : TextIn(g, f, d) /\ PhaseInv(g, f, d)

(* What the pieces of the text make.                                       *)
LEMMA TextFacts ==
  ASSUME text \in Seq(Character), NEW g, NEW f, NEW d, TextIn(g, f, d)
  PROVE  /\ Len(text) \in Nat
         /\ \A i \in 0 .. Len(text) :
              g[i] \in Seq(Nat) /\ f[i] \in Seq(Nat) /\ d[i] \in Seq(Nat)
         /\ \A i \in 1 .. Len(text) : /\ g[i - 1] = OctetPieces[i] \o g[i]
                                      /\ f[i] = f[i - 1] \o Utf8Pieces[i]
                                      /\ d[i - 1] = Utf8Pieces[i] \o d[i]
         /\ f[0] = << >> /\ f[Len(text)] = d[0]
         /\ g[Len(text)] = Behind /\ d[Len(text)] = << >>
<1>1. /\ Len(text) \in Nat
      /\ Pieces(OctetPieces, Len(text)) /\ Pieces(Utf8Pieces, Len(text))
  BY PiecesAre
<1>2. Behind \in Seq(Nat) /\ << >> \in Seq(Nat)
  BY DEF Behind
<1>3. \A i \in 0 .. Len(text) : g[i] \in Seq(Nat)
  BY <1>1, <1>2, RestsType DEF TextIn
<1>4. \A i \in 0 .. Len(text) : f[i] \in Seq(Nat)
  BY <1>1, FrontsType DEF TextIn
<1>5. \A i \in 0 .. Len(text) : d[i] \in Seq(Nat)
  BY <1>1, <1>2, RestsType DEF TextIn
<1>6. f[Len(text)] \o << >> = d[0]
  BY <1>1, <1>2, FrontsAreRests DEF TextIn
<1>7. f[Len(text)] \o << >> = f[Len(text)]
  <2>1. f[Len(text)] \in Seq(Nat)
    BY <1>1, <1>4
  <2> QED BY <2>1, ConcatEmptySeq
<1> QED BY <1>1, <1>3, <1>4, <1>5, <1>6, <1>7 DEF TextIn, Rests, Fronts

(* The text is cut into the same pieces after a step.                      *)
LEMMA TextStays ==
  ASSUME text' = text, NEW g, NEW f, NEW d, TextIn(g, f, d)
  PROVE  TextIn(g, f, d)' /\ OctetPieces' = OctetPieces /\ Utf8Pieces' = Utf8Pieces
<1>1. OctetPieces' = OctetPieces /\ Utf8Pieces' = Utf8Pieces
  BY DEF OctetPieces, Utf8Pieces
<1> QED BY <1>1 DEF TextIn

(* Nothing is read at first.                                               *)
LEMMA CharInitInv == CharactersInit => CharInv
<1> SUFFICES ASSUME CharactersInit PROVE CharInv
  OBVIOUS
<1>1. text \in Seq(Character)
  <2>1. text \in UNION {[1 .. m -> Character] : m \in 0 .. MaxLength}
    BY DEF CharactersInit, BoundedSeq, SeqOf
  <2>2. PICK m \in 0 .. MaxLength : text \in [1 .. m -> Character]
    BY <2>1
  <2>3. m \in Nat
    BY CharactersAssumption
  <2> QED BY <2>2, <2>3
<1>2. /\ octets = FlattenSeq(OctetPieces) \o Behind
      /\ left = Len(text) /\ uint = NoUInt /\ Data = << >>
      /\ runes = NothingDecoded /\ phase = "read"
  BY DEF CharactersInit, OctetPieces, NothingDecoded
<1>3. PICK m \in Nat : m = Len(text)
  BY <1>1, LenProperties
<1>4. Pieces(OctetPieces, m) /\ Pieces(Utf8Pieces, m)
  BY <1>1, <1>3, PiecesAre
<1>5. PICK f : Fronts(f, Utf8Pieces, m)
  BY FrontsExist
<1>6. Behind \in Seq(Nat)
  BY DEF Behind
<1>7. PICK g : Rests(g, OctetPieces, m, Behind)
  BY RestsExist
<1>8. PICK d : Rests(d, Utf8Pieces, m, << >>)
  BY RestsExist
<1>9. TextIn(g, f, d)
  BY <1>3, <1>5, <1>7, <1>8 DEF TextIn
<1>10. octets = g[0]
  <2>1. Len(OctetPieces) = m /\ (m = 0 => OctetPieces = << >>)
    BY <1>3 DEF OctetPieces
  <2>2. PICK h : Fronts(h, OctetPieces, m) /\ FlattenSeq(OctetPieces) = h[m]
    BY <1>4, <2>1, FlattenIs
  <2>3. h[m] \o Behind = g[0]
    BY <1>4, <1>6, <1>7, <2>2, FrontsAreRests
  <2> QED BY <1>2, <2>2, <2>3
<1>11. octets = SubSeq(g[0], 0 + 1, Len(g[0]))
  <2>1. g[0] \in Seq(Nat)
    <3>1. \A i \in 0 .. Len(text) : g[i] \in Seq(Nat)
      BY <1>1, <1>9, TextFacts
    <3> QED BY <1>3, <3>1
  <2>2. SubSeq(g[0], 1, Len(g[0])) = g[0]
    BY <2>1, SubSeqFull
  <2> QED BY <1>10, <2>2
<1>12. ReadAt(g, f, 0, 0)
  <2>1. left = Len(text) - 0 /\ Data = f[0]
    BY <1>2, <1>3, <1>5 DEF Fronts
  <2>2. ASSUME 0 < Len(text)
        PROVE  /\ 0 < Len(OctetPieces[0 + 1])
               /\ uint = [Value |-> text[0 + 1] % 128 ^ 0, Multiplier |-> 7 * 0, N |-> 0]
    <3>1. 1 \in 1 .. Len(text) /\ 0 + 1 = 1
      BY <1>3, <2>2
    <3>2. text[1] \in Nat /\ \E n \in 1 .. 5 : OctetPiece(OctetPieces[1], text[1], n)
      BY <1>1, <3>1, PiecesAre
    <3>3. 0 < Len(OctetPieces[1])
      BY <3>2 DEF OctetPiece
    <3>4. text[1] % 128 ^ 0 = 0 /\ 7 * 0 = 0
      BY SMT, <3>2
    <3> QED BY <1>2, <3>1, <3>3, <3>4 DEF NoUInt
  <2>3. \A i \in 1 .. 0 : ~ TooLong(text[i])
    OBVIOUS
  <2> QED BY <1>11, <2>1, <2>2, <2>3 DEF ReadAt
<1>13. PhaseInv(g, f, d)
  <2>1. 0 \in 0 .. Len(text) /\ 0 \in 0 .. 2
    BY <1>3
  <2> QED BY <1>2, <1>12, <2>1 DEF PhaseInv
<1> QED BY <1>1, <1>2, <1>9, <1>13 DEF CharInv

(* An octet is read.                                                       *)
LEMMA ReadOctetInv ==
  ASSUME CharInv, readOctet
  PROVE  CharInv'
<1>1. /\ text \in Seq(Character) /\ phase = "read" /\ left > 0
      /\ text' = text /\ runes' = runes /\ octets' = Tail(octets)
  BY DEF CharInv, readOctet
<1>2. PICK g, f, d : TextIn(g, f, d) /\ PhaseInv(g, f, d)
  BY DEF CharInv
<1>3. PICK m \in Nat : m = Len(text)
  BY <1>1, LenProperties
<1>4. PICK k \in 0 .. m, n \in 0 .. 2 : ReadAt(g, f, k, n)
  BY <1>1, <1>2, <1>3 DEF PhaseInv
<1>5. k < m /\ left = m - k
  BY <1>1, <1>3, <1>4 DEF ReadAt
<1>6. PICK i \in 1 .. m : i = k + 1
  BY <1>5
<1>7. PICK c \in Nat, nn \in 1 .. 5, p \in Seq(Nat) :
        c = text[i] /\ p = OctetPieces[i] /\ OctetPiece(p, c, nn)
  <2>1. text[i] \in Nat /\ \E l \in 1 .. 5 : OctetPiece(OctetPieces[i], text[i], l)
    BY <1>1, <1>3, PiecesAre
  <2> QED BY <2>1 DEF OctetPiece
<1>8. /\ p \in Seq(Nat) /\ Len(p) = nn /\ NeedsOctets(c, nn)
      /\ \A j \in 1 .. nn : p[j] = OctetOf(c, nn, j)
  BY <1>7 DEF OctetPiece
<1>9. /\ octets = SubSeq(g[k], n + 1, Len(g[k])) /\ Data = f[k]
      /\ n < nn /\ uint = [Value |-> c % 128 ^ n, Multiplier |-> 7 * n, N |-> n]
      /\ \A j \in 1 .. k : ~ TooLong(text[j])
  BY <1>3, <1>4, <1>5, <1>6, <1>7, <1>8 DEF ReadAt
<1>10. PICK q \in Seq(Nat), r \in Seq(Nat) : q = g[k] /\ r = g[i] /\ q = p \o r
  <2>1. /\ \A j \in 0 .. m : g[j] \in Seq(Nat)
        /\ \A j \in 1 .. m : g[j - 1] = OctetPieces[j] \o g[j]
    BY <1>1, <1>2, <1>3, TextFacts
  <2>2. k \in 0 .. m /\ i \in 0 .. m /\ i - 1 = k
    BY <1>6
  <2> QED BY <1>7, <2>1, <2>2
<1>11. f[i] = f[k] \o Encode(c) /\ f[i] \in Seq(Nat)
  <2>1. \A j \in 0 .. Len(text) :
          g[j] \in Seq(Nat) /\ f[j] \in Seq(Nat) /\ d[j] \in Seq(Nat)
    BY <1>1, <1>2, TextFacts
  <2>2. \A j \in 1 .. Len(text) : f[j] = f[j - 1] \o Utf8Pieces[j]
    BY <1>2 DEF TextIn, Fronts
  <2>3. i \in 0 .. Len(text) /\ i \in 1 .. Len(text) /\ i - 1 = k
    BY <1>3, <1>6
  <2>4. Utf8Pieces[i] = Encode(c)
    BY <1>1, <1>3, <1>7, PiecesAre
  <2>5. f[i] \in Seq(Nat)
    BY <2>1, <2>3
  <2>6. f[i] = f[k] \o Encode(c)
    BY <2>2, <2>3, <2>4
  <2> QED BY <2>5, <2>6
<1>12. /\ Len(q) = nn + Len(r) /\ SubSeq(q, nn + 1, Len(q)) = r
       /\ \A j \in 1 .. nn : q[j] = p[j]
  <2>1. p \in Seq(Nat) /\ r \in Seq(Nat) /\ q = p \o r
    BY <1>10
  <2>2. /\ Len(q) = Len(p) + Len(r) /\ SubSeq(q, Len(p) + 1, Len(q)) = r
        /\ \A j \in 1 .. Len(p) : q[j] = p[j]
    BY ONLY <2>1, BehindPiece
  <2> QED BY <1>8, <2>2
<1>13. PICK octet : octet = Head(octets)
  OBVIOUS
<1>14. octet = OctetOf(c, nn, n + 1) /\ octets' = SubSeq(q, n + 2, Len(q))
  <2>1. Len(r) \in Nat
    BY LenProperties
  <2>2. n < Len(q) /\ n + 1 \in 1 .. nn
    <3>1. n < nn /\ Len(q) = nn + Len(r)
      BY <1>9, <1>12
    <3>2. PICK b \in Nat : b = Len(r)
      BY <2>1
    <3>3. n < nn + b
      BY <3>1
    <3>4. n < Len(q)
      BY <3>1, <3>2, <3>3
    <3>5. n + 1 \in 1 .. nn
      BY <3>1
    <3> QED BY <3>4, <3>5
  <2>3. Head(SubSeq(q, n + 1, Len(q))) = q[n + 1]
        /\ Tail(SubSeq(q, n + 1, Len(q))) = SubSeq(q, n + 2, Len(q))
    BY <2>2, SuffixStep
  <2>4. q[n + 1] = OctetOf(c, nn, n + 1)
    BY <1>8, <1>12, <2>2
  <2> QED BY <1>1, <1>9, <1>10, <1>13, <2>3, <2>4
<1>15. /\ octet \in Nat
       /\ octet < 128 <=> n + 1 = nn
       /\ (c % 128 ^ n) + BitsOf(octet, 0, 7) * 2 ^ (7 * n) = c % 128 ^ (n + 1)
  <2>1. /\ c \in Nat /\ nn \in 1 .. 5 /\ n \in 0 .. 2
        /\ NeedsOctets(c, nn) /\ n < nn /\ octet = OctetOf(c, nn, n + 1)
    BY <1>8, <1>9, <1>14
  <2>2. OctetAdded(c, nn, n, octet)
    BY Zenon, <2>1, OctetAdds
  <2> QED BY Zenon, <2>2 DEF OctetAdded
<1>16. PICK value : value = c % 128 ^ (n + 1)
  OBVIOUS
<1>17. value = uint.Value + BitsOf(octet, 0, 7) * 2 ^ uint.Multiplier /\ uint.N = n
       /\ uint.Multiplier = 7 * n
  BY <1>9, <1>15, <1>16
<1>18. TextIn(g, f, d)' /\ OctetPieces' = OctetPieces
  BY <1>1, <1>2, TextStays
<1>19. nn <= 3 => c % 128 ^ nn = c
  BY <1>8, OctetCompletes
<1>20. TooLong(c) <=> nn > 3
  BY <1>8, OctetCompletes
<1>21. CASE octet < 128
  <2>1. n + 1 = nn /\ nn <= 3 /\ n + 2 = nn + 1 /\ value = c
    BY <1>9, <1>15, <1>16, <1>19, <1>21
  <2>2. Data' = Data \o Encode(value) /\ left' = left - 1 /\ uint' = NoUInt /\ phase' = phase
    BY <1>13, <1>17, <1>21 DEF readOctet
  <2>3. octets' = SubSeq(g[i], 0 + 1, Len(g[i]))
    <3>1. SubSeq(r, 1, Len(r)) = r
      BY SubSeqFull
    <3>2. octets' = r
      BY <1>12, <1>14, <2>1
    <3> QED BY <1>10, <3>1, <3>2
  <2>4. Data' = f[i] /\ left' = Len(text) - i
    BY <1>3, <1>5, <1>6, <1>9, <1>11, <2>1, <2>2
  <2>5. ASSUME i < Len(text)
        PROVE  /\ 0 < Len(OctetPieces[i + 1])
               /\ uint' = [Value |-> text[i + 1] % 128 ^ 0, Multiplier |-> 7 * 0, N |-> 0]
    <3>1. i + 1 \in 1 .. Len(text)
      BY <1>3, <2>5
    <3>2. text[i + 1] \in Nat /\ \E l \in 1 .. 5 : OctetPiece(OctetPieces[i + 1], text[i + 1], l)
      BY <1>1, <3>1, PiecesAre
    <3>3. 0 < Len(OctetPieces[i + 1])
      BY <3>2 DEF OctetPiece
    <3>4. text[i + 1] % 128 ^ 0 = 0 /\ 7 * 0 = 0
      BY SMT, <3>2
    <3> QED BY <2>2, <3>3, <3>4 DEF NoUInt
  <2>6. \A j \in 1 .. i : ~ TooLong(text[j])
    <3>1. ~ TooLong(text[i])
      BY <1>7, <1>20, <2>1
    <3>2. \A j \in 1 .. i : j \in 1 .. k \/ j = i
      BY <1>6
    <3> QED BY <1>9, <3>1, <3>2
  <2>7. ReadAt(g, f, i, 0)'
    BY <1>1, <1>18, <2>3, <2>4, <2>5, <2>6 DEF ReadAt, TooLong
  <2>8. PhaseInv(g, f, d)'
    <3>1. phase' = "read" /\ runes' = NothingDecoded
      BY <1>1, <1>2, <2>2 DEF PhaseInv
    <3>2. i \in 0 .. Len(text') /\ 0 \in 0 .. 2
      BY <1>1, <1>3
    <3> QED BY <2>7, <3>1, <3>2 DEF PhaseInv
  <2> QED BY <1>1, <1>18, <2>2, <2>8 DEF CharInv
<1>22. CASE ~ (octet < 128)
  <2>1. n + 1 < nn
    BY <1>9, <1>15, <1>22
  <2>2. /\ uint' = [Value |-> value, Multiplier |-> 7 * n + 7, N |-> n + 1]
        /\ phase' = IF n + 1 = UnicodeReads THEN "failed" ELSE phase
        /\ Data' = Data /\ left' = left
    BY <1>13, <1>17, <1>22 DEF readOctet
  <2>3. CASE n + 1 = 3
    <3>1. TooLong(text[i])
      BY <1>7, <1>20, <2>1, <2>3
    <3>2. phase' = "failed"
      BY <2>2, <2>3 DEF UnicodeReads
    <3>3. PhaseInv(g, f, d)'
      <4>1. \E j \in 1 .. Len(text) : TooLong(text[j])
        BY <1>3, <3>1
      <4> QED BY <1>1, <3>2, <4>1 DEF PhaseInv, TooLong
    <3> QED BY <1>1, <1>18, <3>2, <3>3 DEF CharInv
  <2>4. CASE n + 1 # 3
    <3>1. PICK l \in 0 .. 2 : l = n + 1
      BY <2>4
    <3>2. phase' = "read" /\ runes' = NothingDecoded
      BY <1>1, <1>2, <2>2, <2>4 DEF UnicodeReads, PhaseInv
    <3>3. octets' = SubSeq(g[k], l + 1, Len(g[k]))
      <4>1. l + 1 = n + 2
        BY <3>1
      <4> QED BY <1>10, <1>14, <4>1
    <3>4. uint' = [Value |-> text[k + 1] % 128 ^ l, Multiplier |-> 7 * l, N |-> l]
      <4>1. 7 * l = 7 * n + 7
        BY <3>1
      <4> QED BY <1>6, <1>7, <1>16, <2>2, <3>1, <4>1
    <3>5. l < Len(OctetPieces[k + 1]) /\ k # Len(text)
      BY <1>3, <1>5, <1>6, <1>7, <1>8, <2>1, <3>1
    <3>6. left' = Len(text) - k /\ Data' = f[k]
      BY <1>3, <1>5, <1>9, <2>2
    <3>7. ReadAt(g, f, k, l)'
      BY <1>1, <1>9, <1>18, <3>3, <3>4, <3>5, <3>6 DEF ReadAt, TooLong
    <3>8. PhaseInv(g, f, d)'
      <4>1. k \in 0 .. Len(text')
        BY <1>1, <1>3
      <4> QED BY <3>2, <3>7, <4>1 DEF PhaseInv
    <3> QED BY <1>1, <1>18, <3>2, <3>8 DEF CharInv
  <2> QED BY <2>3, <2>4
<1> QED BY <1>21, <1>22

(* All of the string is read.                                              *)
LEMMA StringReadInv ==
  ASSUME CharInv, stringRead
  PROVE  CharInv'
<1>1. /\ text \in Seq(Character) /\ phase = "read" /\ left = 0
      /\ text' = text /\ runes' = runes /\ octets' = octets /\ Data' = Data
      /\ phase' = "decode"
  BY DEF CharInv, stringRead
<1>2. PICK g, f, d : TextIn(g, f, d) /\ PhaseInv(g, f, d)
  BY DEF CharInv
<1>3. PICK m \in Nat : m = Len(text)
  BY <1>1, LenProperties
<1>4. PICK k \in 0 .. m, n \in 0 .. 2 : ReadAt(g, f, k, n)
  BY <1>1, <1>2, <1>3 DEF PhaseInv
<1>5. k = m /\ n = 0
  BY <1>1, <1>3, <1>4 DEF ReadAt
<1>6. g[m] = Behind /\ f[m] = d[0]
  BY <1>1, <1>2, <1>3, TextFacts
<1>7. octets = Behind
  <2>1. Behind \in Seq(Nat)
    BY DEF Behind
  <2>2. SubSeq(Behind, 1, Len(Behind)) = Behind
    BY <2>1, SubSeqFull
  <2>3. octets = SubSeq(g[m], 0 + 1, Len(g[m]))
    BY <1>4, <1>5 DEF ReadAt
  <2> QED BY <1>6, <2>2, <2>3
<1>8. Data = d[0] /\ \A i \in 1 .. Len(text) : ~ TooLong(text[i])
  BY <1>3, <1>4, <1>5, <1>6 DEF ReadAt
<1>9. /\ runes.found = [i \in 1 .. 0 |-> Valid(text[i])]
      /\ runes.valid = (\A i \in 1 .. 0 : Valid(text[i]) # kInvalidRune)
  <2>1. runes = NothingDecoded
    BY <1>1, <1>2 DEF PhaseInv
  <2>2. runes.found = << >> /\ runes.valid = TRUE
    BY <2>1 DEF NothingDecoded
  <2>3. 1 .. 0 = {}
    OBVIOUS
  <2>4. << >> = [i \in 1 .. 0 |-> Valid(text[i])]
    BY <2>3
  <2>5. (\A i \in 1 .. 0 : Valid(text[i]) # kInvalidRune) = TRUE
    BY <2>3
  <2> QED BY <2>2, <2>4, <2>5
<1>10. DecodedAt(d, 0)'
  BY <1>1, <1>7, <1>8, <1>9 DEF DecodedAt, TooLong, Valid
<1>11. PhaseInv(g, f, d)'
  <2>1. 0 \in 0 .. Len(text')
    BY <1>1, <1>3
  <2> QED BY <1>1, <1>10, <2>1 DEF PhaseInv
<1> QED BY <1>1, <1>2, <1>11, TextStays DEF CharInv

(* The bytes begin with those, e, of character i, and d[i] is behind them. *)
NextBytes(d, i, e, r) ==
  /\ Utf8Of(e, Valid(text[i])) /\ text[i] \in Nat
  /\ Len(e) \in 1 .. 4 /\ Data \in Seq(Nat) /\ Len(Data) = Len(e) + Len(r)
  /\ \A j \in 1 .. Len(e) : Data[j] = e[j]
  /\ SubSeq(Data, Len(e) + 1, Len(Data)) = r /\ r = d[i]

(* While the text has a character i, they do.                              *)
LEMMA NextPiece ==
  ASSUME text \in Seq(Character), NEW g, NEW f, NEW d, TextIn(g, f, d),
         NEW m \in Nat, m = Len(text), NEW i \in 1 .. m, Data = d[i - 1]
  PROVE  \E e \in Seq(Nat), r \in Seq(Nat) : NextBytes(d, i, e, r)
<1>1. i \in 0 .. m
  OBVIOUS
<1>2. /\ \A j \in 0 .. m : d[j] \in Seq(Nat)
      /\ \A j \in 1 .. m : d[j - 1] = Utf8Pieces[j] \o d[j]
  <2>1. \A j \in 0 .. Len(text) :
          g[j] \in Seq(Nat) /\ f[j] \in Seq(Nat) /\ d[j] \in Seq(Nat)
    BY TextFacts
  <2>2. \A j \in 1 .. Len(text) : d[j - 1] = Utf8Pieces[j] \o d[j]
    BY DEF TextIn, Rests
  <2>3. m = Len(text)
    OBVIOUS
  <2>4. \A j \in 0 .. m : d[j] \in Seq(Nat)
    BY ONLY <2>1, <2>3
  <2>5. \A j \in 1 .. m : d[j - 1] = Utf8Pieces[j] \o d[j]
    BY ONLY <2>2, <2>3, Zenon
  <2> QED BY <2>4, <2>5
<1>3. Utf8Of(Utf8Pieces[i], Valid(text[i])) /\ text[i] \in Nat
  <2>1. i \in 1 .. Len(text)
    OBVIOUS
  <2> QED BY <2>1, PiecesAre
<1>4. PICK e \in Seq(Nat) : e = Utf8Pieces[i] /\ Len(e) \in 1 .. 4
  BY <1>3, Utf8Type
<1>5. PICK r \in Seq(Nat) : r = d[i]
  BY <1>1, <1>2
<1>6. Data = e \o r
  BY <1>1, <1>2, <1>4, <1>5
<1>7. e \in Seq(Nat) /\ r \in Seq(Nat) /\ Data = e \o r
  BY <1>6
<1>8. /\ Data \in Seq(Nat) /\ Len(Data) = Len(e) + Len(r)
      /\ \A j \in 1 .. Len(e) : Data[j] = e[j]
      /\ SubSeq(Data, Len(e) + 1, Len(Data)) = r
  BY ONLY <1>7, BehindPiece
<1>9. Utf8Of(e, Valid(text[i]))
  BY <1>3, <1>4
<1>10. NextBytes(d, i, e, r)
  BY <1>3, <1>4, <1>5, <1>8, <1>9 DEF NextBytes
<1> QED BY <1>10

(* A character is decoded.                                                 *)
LEMMA DecodeInv ==
  ASSUME CharInv, decode
  PROVE  CharInv'
<1>1. /\ text \in Seq(Character) /\ phase = "decode" /\ Data # << >>
      /\ text' = text /\ octets' = octets /\ phase' = "decode"
  BY DEF CharInv, decode
<1>2. PICK g, f, d : TextIn(g, f, d) /\ PhaseInv(g, f, d)
  BY DEF CharInv
<1>3. PICK m \in Nat : m = Len(text)
  BY <1>1, LenProperties
<1>4. PICK k \in 0 .. m : DecodedAt(d, k)
  BY <1>1, <1>2, <1>3 DEF PhaseInv
<1>5. k < m
  <2>1. d[m] = << >>
    BY <1>1, <1>2, <1>3, TextFacts
  <2> QED BY <1>1, <1>4, <2>1 DEF DecodedAt
<1>6. PICK i \in 1 .. m : i = k + 1 /\ i - 1 = k
  BY <1>5
<1>7. PICK e \in Seq(Nat), r \in Seq(Nat) :
        /\ i = k + 1 /\ Utf8Of(e, Valid(text[i])) /\ text[i] \in Nat
        /\ Len(e) \in 1 .. 4 /\ Data \in Seq(Nat) /\ Len(Data) = Len(e) + Len(r)
        /\ \A j \in 1 .. Len(e) : Data[j] = e[j]
        /\ SubSeq(Data, Len(e) + 1, Len(Data)) = r /\ r = d[i]
  <2>1. text \in Seq(Character) /\ TextIn(g, f, d) /\ m = Len(text) /\ Data = d[i - 1]
    BY <1>1, <1>2, <1>3, <1>4, <1>6 DEF DecodedAt
  <2>2. PICK e \in Seq(Nat), r \in Seq(Nat) : NextBytes(d, i, e, r)
    BY <2>1, NextPiece
  <2> QED BY <1>6, <2>2, Zenon DEF NextBytes
<1>8. PICK v \in Nat : v = Valid(text[i]) /\ v <= kMaxVal
  BY <1>7, ValidIs
<1>9. PICK n \in 1 .. 4 : n = Len(e)
  BY <1>7
<1>10. UnitLen(Data[1]) = n /\ checkTrailSeq(n) /\ decodeImpl(n) = v
  <2>1. Decodes(e, v)
    BY <1>7, <1>8, Utf8Decodes
  <2> QED BY <1>9, <2>1 DEF Decodes
<1>11. ~ (n > Len(Data))
  <2>1. Len(r) \in Nat
    BY LenProperties
  <2> QED BY <1>7, <1>9, <2>1
<1>12. /\ Data' = SubSeq(Data, n + 1, Len(Data))
       /\ runes' = [found |-> Append(runes.found, v),
                    valid |-> runes.valid /\ v # kInvalidRune]
  BY <1>8, <1>10, <1>11 DEF decode
<1>13. Data' = d[i]
  BY <1>7, <1>9, <1>12
<1>14. Append(runes.found, v) = [j \in 1 .. i |-> Valid(text[j])]
  <2>1. \A j \in 1 .. i : Valid(text[j]) \in Nat
    <3>1. ASSUME NEW j \in 1 .. m PROVE text[j] \in Nat
      <4>1. j \in 1 .. Len(text)
        BY <1>3
      <4> QED BY <1>1, <4>1, PiecesAre
    <3>2. \A j \in 1 .. i : j \in 1 .. m
      OBVIOUS
    <3> QED BY <3>1, <3>2, ValidIs, Zenon
  <2>2. runes.found = [j \in 1 .. k |-> Valid(text[j])]
    BY <1>4 DEF DecodedAt
  <2>3. PICK s \in Seq(Nat) : s = runes.found /\ Len(s) = k
                              /\ \A j \in 1 .. k : s[j] = Valid(text[j])
    <3>1. \A j \in 1 .. k : Valid(text[j]) \in Nat
      BY <1>6, <2>1
    <3>2. PICK s : s = [j \in 1 .. k |-> Valid(text[j])]
      OBVIOUS
    <3>3. s \in [1 .. k -> Nat] /\ \A j \in 1 .. k : s[j] = Valid(text[j])
      BY <3>1, <3>2
    <3>4. s \in Seq(Nat) /\ Len(s) = k
      BY <3>3
    <3> QED BY <2>2, <3>2, <3>3, <3>4
  <2>4. PICK u \in Seq(Nat) : u = [j \in 1 .. i |-> Valid(text[j])] /\ Len(u) = i
                              /\ \A j \in 1 .. i : u[j] = Valid(text[j])
    <3>1. PICK u : u = [j \in 1 .. i |-> Valid(text[j])]
      OBVIOUS
    <3>2. u \in [1 .. i -> Nat] /\ \A j \in 1 .. i : u[j] = Valid(text[j])
      BY <2>1, <3>1
    <3>3. u \in Seq(Nat) /\ Len(u) = i
      BY <3>2
    <3> QED BY <3>1, <3>2, <3>3
  <2>5. /\ Append(s, v) \in Seq(Nat) /\ Len(Append(s, v)) = i
        /\ \A j \in 1 .. k : Append(s, v)[j] = s[j]
        /\ Append(s, v)[i] = v
    <3>1. /\ Append(s, v) \in Seq(Nat) /\ Len(Append(s, v)) = Len(s) + 1
          /\ \A j \in 1 .. Len(s) : Append(s, v)[j] = s[j]
          /\ Append(s, v)[Len(s) + 1] = v
      BY AppendProperties
    <3>2. Len(s) = k /\ Len(s) + 1 = i
      BY <1>6, <2>3
    <3> QED BY <3>1, <3>2
  <2>6. \A j \in 1 .. i : Append(s, v)[j] = u[j]
    <3>1. \A j \in 1 .. i : j \in 1 .. k \/ j = i
      BY <1>7
    <3> QED BY <1>8, <2>3, <2>4, <2>5, <3>1
  <2>7. Append(s, v) = u
    BY <2>4, <2>5, <2>6, SeqEqual
  <2> QED BY <2>3, <2>4, <2>7
<1>15. (runes.valid /\ v # kInvalidRune) = \A j \in 1 .. i : Valid(text[j]) # kInvalidRune
  <2>1. runes.valid = \A j \in 1 .. k : Valid(text[j]) # kInvalidRune
    BY <1>4 DEF DecodedAt
  <2>2. \A j : j \in 1 .. i <=> (j \in 1 .. k \/ j = i)
    BY <1>7
  <2> QED BY <1>8, <2>1, <2>2
<1>16. DecodedAt(d, i)'
  <2>1. octets = Behind /\ \A j \in 1 .. Len(text) : ~ TooLong(text[j])
    BY <1>4 DEF DecodedAt
  <2> QED BY <1>1, <1>12, <1>13, <1>14, <1>15, <2>1 DEF DecodedAt, TooLong, Valid
<1>17. PhaseInv(g, f, d)'
  <2>1. i \in 0 .. Len(text')
    BY <1>1, <1>3
  <2> QED BY <1>1, <1>16, <2>1 DEF PhaseInv
<1> QED BY <1>1, <1>2, <1>17, TextStays DEF CharInv

(* All bytes are decoded.                                                  *)
LEMMA DecodedInv ==
  ASSUME CharInv, decoded
  PROVE  CharInv'
<1>1. /\ text \in Seq(Character) /\ phase = "decode" /\ Data = << >>
      /\ text' = text /\ runes' = runes /\ octets' = octets /\ Data' = Data
      /\ phase' = "done"
  BY DEF CharInv, decoded
<1>2. PICK g, f, d : TextIn(g, f, d) /\ PhaseInv(g, f, d)
  BY DEF CharInv
<1>3. PICK m \in Nat : m = Len(text)
  BY <1>1, LenProperties
<1>4. PICK k \in 0 .. m : DecodedAt(d, k)
  BY <1>1, <1>2, <1>3 DEF PhaseInv
<1>5. k = m
  <2> SUFFICES ASSUME k < m PROVE FALSE
    OBVIOUS
  <2>1. PICK i \in 1 .. m : i = k + 1 /\ i - 1 = k
    OBVIOUS
  <2>2. Data = d[i - 1]
    BY <1>4, <2>1 DEF DecodedAt
  <2>3. PICK e \in Seq(Nat), r \in Seq(Nat) : NextBytes(d, i, e, r)
    BY <1>1, <1>2, <1>3, <2>2, NextPiece
  <2>4. Len(e) \in 1 .. 4 /\ Len(Data) = Len(e) + Len(r)
    BY <2>3 DEF NextBytes
  <2>5. Len(r) \in Nat
    BY LenProperties
  <2>6. Len(Data) = 0
    BY <1>1
  <2>7. PICK a \in 1 .. 4, b \in Nat : a = Len(e) /\ b = Len(r)
    BY <2>4, <2>5
  <2>8. a + b = 0
    BY <2>4, <2>6, <2>7
  <2> QED BY <2>8
<1>6. DecodedAt(d, Len(text))'
  BY <1>1, <1>3, <1>4, <1>5 DEF DecodedAt, TooLong, Valid
<1>7. PhaseInv(g, f, d)'
  BY <1>1, <1>6 DEF PhaseInv
<1> QED BY <1>1, <1>2, <1>7, TextStays DEF CharInv

(* Every step keeps the invariant,                                         *)
LEMMA CharNextInv == CharInv /\ [CharactersNext]_charVars => CharInv'
<1>1. ASSUME CharInv, UNCHANGED charVars PROVE CharInv'
  <2>1. /\ text' = text /\ octets' = octets /\ left' = left /\ uint' = uint
        /\ Data' = Data /\ runes' = runes /\ phase' = phase
    BY <1>1 DEF charVars
  <2>2. PICK g, f, d : TextIn(g, f, d) /\ PhaseInv(g, f, d)
    BY <1>1 DEF CharInv
  <2>3. TextIn(g, f, d)' /\ OctetPieces' = OctetPieces
    BY <2>1, <2>2, TextStays
  <2>4. \A k, n : ReadAt(g, f, k, n)' <=> ReadAt(g, f, k, n)
    BY <2>1, <2>3 DEF ReadAt, TooLong
  <2>5. \A k : DecodedAt(d, k)' <=> DecodedAt(d, k)
    BY <2>1 DEF DecodedAt, TooLong, Valid
  <2>6. PhaseInv(g, f, d)'
    BY <2>1, <2>2, <2>4, <2>5 DEF PhaseInv, TooLong
  <2>7. text' \in Seq(Character) /\ phase' \in {"read", "decode", "done", "failed"}
    BY <1>1, <2>1 DEF CharInv
  <2> QED BY <2>3, <2>6, <2>7 DEF CharInv
<1> QED BY <1>1, ReadOctetInv, StringReadInv, DecodeInv, DecodedInv DEF CharactersNext

(* and it says what CharactersSurvive says.                                *)
LEMMA CharInvSurvive == CharInv => CharactersSurvive
<1> SUFFICES ASSUME CharInv PROVE CharactersSurvive
  OBVIOUS
<1>1. PICK g, f, d : PhaseInv(g, f, d)
  BY DEF CharInv
<1>2. DOMAIN text = 1 .. Len(text)
  BY LenProperties DEF CharInv
<1>3. phase = "failed" => \E i \in DOMAIN text : TooLong(text[i])
  BY <1>1, <1>2 DEF PhaseInv
<1>4. phase \in {"decode", "done"} => octets = Behind
  BY <1>1 DEF PhaseInv, DecodedAt
<1>5. ASSUME phase = "done"
      PROVE  /\ runes.found = [i \in DOMAIN text |-> Valid(text[i])]
             /\ \A i \in DOMAIN text : ~TooLong(text[i])
             /\ runes.valid <=> \A i \in DOMAIN text : Valid(text[i]) # kInvalidRune
  <2>1. DecodedAt(d, Len(text))
    BY <1>1, <1>5 DEF PhaseInv
  <2> QED BY <1>2, <2>1 DEF DecodedAt
<1> QED BY <1>3, <1>4, <1>5 DEF CharactersSurvive

(* Whatever is written, and however long: the string that is read is the   *)
(* one that was written, in its own octets and no others, and decodes to   *)
(* its characters (readString, decodeRunes).                               *)
THEOREM StringsReadBack == CharactersSpec => []CharactersSurvive
<1>1. CharactersSpec => []CharInv
  BY CharInitInv, CharNextInv, PTL DEF CharactersSpec
<1> QED BY <1>1, CharInvSurvive, PTL
=============================================================================
