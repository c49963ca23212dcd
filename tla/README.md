# exiCPP: a verification project

TLA+ models of the exiCPP decoder, the TLC runs that check them on small instances, and TLAPS proofs of the results that
matter most. exiCPP (C++20) decodes EXI streams, a binary form of XML, without schemas, and loads and parses XML files. The
program is single-threaded; what makes it hard is that every bit is read with a width that depends on everything read before
it, in three growing tables (strings, learned grammars, the cache in front of them), that the readers run a word ahead of the
decoding, that the decoder is set up by calls that may come in any order and fail half-way, that the tree it builds is a web
of pointers kept consistent from two ends, and that files may change while they are read and parsed in place.

Contents: 1 the system · 2 the modules · 3 the runs and their bounds · 4 what the runs that fail show · 5 the proofs ·
6 what is abstracted · 7 not modelled.

## 1. The system

The code is in `src/include/exi` and `src/lib/exi`; `include/core`, `lib/core` are support code derived from LLVM (of which
only the containers and the file buffers the program rests on are modelled), `vendored` (of which the nodes of rapidxml are), `old`, `examples` and `redirect` are not the program's own logic.
`EXI_INVARIANTS` is on by default, so a failing `exi_invariant` or `exi_assert` ends the program.

| Component | State it keeps | Operations | Talks to |
|---|---|---|---|
| `ExiDecoder` (`Decode/BodyDecoder`, `Decode/HeaderDecoder`) | options, reader, schema, string table, three flags | `setOptions`, `setReader`, `decodeHeader`, `decodeBody`; `init`, `prepareForDecoding` | all of the following |
| `ExiOptions` (`Basic/ExiOptions`) | alignment, compression, preserve options, schema identifier | `ValidateOptions`, `FixupAndValidateOptions` | decoder, schema, table |
| `BitReader`, `ByteReader` (`Stream/OrderedReader.hpp`) | byte offset, a 64-bit `Store`, the number of valid bits in it | `readBit`, `readByte`, `readBits64`, `readUInt`, `readString`, `getProxy`, `setProxy`, `align`, `hasData` | the stream; each other, by proxies |
| `BuiltinSchema` and `BuiltinGrammar` (`Grammar/`) | current grammar state, stack of open elements, productions learned per element name | `decode` (one event), `addTerm` | reader (codes), decoder (names and values) |
| `BodyDecoder`'s string decoding | none of its own | `decodeURI`, `decodeName`, `decodePfxQ`, `decodePfx`, `decodeNS`, `decodeValue` | reader, string table |
| `decode::StringTable` (`Basic/StringTables`) | URI, prefix, local-name, local-value and global-value partitions, their counts, an LRU cache | `setup`, `addURI`, `addPrefix`, `addLocalName`, `addGlobalValue`, `addLocalValue`, `addValue`, getters, bit widths | LRU cache |
| `SmallLRUCache` | up to N key-value entries, oldest first | `get` (which returns a reference that is assigned through) | — |
| `DenseMap` | buckets, entry and tombstone counters | `lookup`, `insert`, `insert_or_assign`, `erase`, `clear` | — (the schema keeps its grammars in one) |
| `Serializer`, `XMLSerializer`, rapidxml's nodes | the XML tree being built, the current node | one method per event | decoder |
| `OrderedWriter`, `HeaderEncoder` | byte buffer, partial word | `writeNBits`, `align`, the header | — |
| `encode::StringTable` | unfinished | unfinished | — |
| `Runes`, `NBitInt` | none | UTF-8 and n-bit conversions | readers |
| `XMLManager`, `XMLContainer` | the files seen, their buffers and documents | `getXMLRef`, `getXMLDocument`, `loadAndParse`, `parse` | `MemoryBuffer` |
| `WritableMemoryBuffer` | a text, in memory or mapped | `getFileEx` | file system |

**What is hard, and what makes each part correct.**

* *Cache*: the most recently used keys stay, each once, and a reference returned by `get` never writes to another entry.
* *String table*: three partitions and two counters grow one after the other and must not get out of step; identifiers
  returned by a setter must resolve to the string it was given; a value lives in two partitions; the cache must answer what the
  map it stands for would.
* *Schema*: the grammar state is kept twice (`Current` and a bit on the stack). Elements of one name share one grammar even
  while nested in each other, so the codes of an open element change under it. Preserve options remove productions, prune
  levels of the code and change widths.
* *Strings of a stream*: an encoder elsewhere keeps the same partitions; one string entered too often or a width off by one
  corrupts everything that follows, at a distance.
* *Readers*: the last word is short and takes a path of its own; a field may straddle two words; the body is read by another
  reader than the header; `decodeBody` asks `hasData` of a reader that is a word ahead.
* *Life cycle*: options, reader and header arrive in any order, a refused header leaves partial state, and the schema casts the
  reader to the type it was instantiated for without asking.

* *Characters*: they change their length at other values in the stream than in UTF-8.
* *Hash map*: only an empty bucket ends the search for an absent key, and entries and tombstones use them up together.
* *Tree*: `append_node` and `prepend_node` each mend a list of children from one end; a body may stop inside an element and the
  next one start in the same serializer; the nodes keep views of memory that others own.
* *Files*: the size of a file is taken before it is read or mapped, and the file may change in between; the parser writes into
  the text it is given, and the document is a tree of views of it.

There are no threads, no persistent state and no network in this code, so there are no interleavings of threads, crashes with
recovery or lost messages to model. The one other actor is whoever changes the files. `PROJECT.json` lists the hazards the
code has, at their lines.

## 2. The modules

| Module | Models | State and actions |
|---|---|---|
| `LRUCache` | `SmallLRUCache.hpp` | `elts` is the array; `Get` is `get()`, `ShiftFrom` is `shiftFrom()`; actions `Lookup` and `Assign` (assignment through the reference). `recency` is a history variable. |
| `StringPartitions` | the promise of a string table | append-only partitions; nothing else. |
| `StringTable` | `StringTables.hpp/.cpp` | members under their own names; `LNHeap` is the allocator of `LocalName` objects, whose index is their address, so that sharing and staleness of pointers are visible. One action per setter; `readPartition` is the `const` getters' effect on the mutable cache. |
| `ElementGrammars` | the table of productions in the comment of `BuiltinSchema.cpp` | the promise of the schema: phases, open elements, learned productions, the code of each event. |
| `Log2` | `CompactIDLog2` in `CompactID.hpp`: the widths of identifiers and event codes | the base 2 logarithm as a function, shared by the schema and the table of productions. |
| `BuiltinSchema` | `BuiltinSchema.cpp`, `Grammar.hpp/.cpp` | `Info`, `AllTerms`, `Offset` are what `Builder` computes; `handle...` are the handlers of `decode()`. A step writes one event with the code the table gives it and decodes that code bit by bit. The preserve options of the document are chosen initially. |
| `StringCodec` | `decodeURI` … `decodeValue` | composes `StringTable` with an encoder (external) that keeps partitions of its own. A step writes one item and decodes it with the widths the table computes. |
| `BitCursor` | the promise of a reader | a position in a stream of bits, the unit it is read in and the width last asked for: a read succeeds exactly when that many bits, rounded up to units, are left. |
| `OrderedReader` | `OrderedReader.hpp`, header handover, `decodeBody`'s loop condition | `reader` is `ByteOffset`, `Store`, `BitsInStore`/`BytesInStore`; `want` is the width of the field last asked for, for the refinement. A bit of `Store` is the *set of stream positions* OR-ed into it, so that byte order, stale bits and lost bits show. |
| `ExiOptions` | `ExiOptions.hpp/.cpp` | operators: `ValidateCommon`, `ValidateOptions`, `Fixup`. |
| `DecoderLifecycle` | `ExiDecoder`'s public calls and `init` | options, reader (its kind and stream), schema (what it was instantiated with), flags. One action per call, with all its early returns. |
| `Characters` | `readString`, `readNByteUInt`; `RuneEncoder`, `RuneDecoder`, `decodeRunes` | `octets` is the stream, `uint` the integer under way, `Data` the bytes, `runes` what is decoded of them. A step is an octet read or a sequence decoded. |
| `XMLTree` | the loop of `decodeBody`, `decodeEvent` and the handlers of `BodyDecoder.cpp`, `XMLSerializer.hpp`, the nodes of `rapidxml.hpp` | `node` and `attr` are the document's pool, an index is an address; `Curr`, `Attr` the serializer's pointers; `open` the schema's stack; `text` the memory names and values are in, through `READ_STRING`, `needsPersistence`, `internStrings` and the end of a decoder. A step is one event, its handler, the serializer's method and the links it mends. |
| `MemoryBuffer` | `getFileEx` in `MemoryBuffer.cpp` | `disk` and the `load` under way: opened, mapped or read in pieces, failed. |
| `XMLFiles` | `XMLManager.cpp`, `XMLContainer.cpp` | `cont` is the map of seen files with their buffers (`torn` counts the terminators the parser has written) and documents; a call that loads waits in `call` while the steps of `MemoryBuffer` run and `writeFile` changes the disk. |
| `Dictionary` | the promise of a hash map | a function from keys to values. |
| `DenseMap` | `include/core/Common/DenseMap.hpp` | `Buckets` and its counters; a step is one *probe* of the operation in `op`, so that the end of a search is a property. |
| `MC...` | — | constants for TLC; `MCContainers` puts `LRUCache`, `DenseMap` and `StringTable`, `MCReaders` puts `OrderedReader` and `Characters`, and `MCDocuments` puts `XMLTree` and `XMLFiles` side by side in one run (a behaviour is about one of them). |
| `LRUCacheProofs`, `Log2Proofs`, `StringCodecProofs`, `BuiltinSchemaProofs`, `DecoderLifecycleProofs`, `XMLTreeProofs`, `XMLFilesProofs`, `FoundationProofs` | — | the theorems of section 5. `StringCodecProofs` is about `StringTable` and `StringCodec`, `FoundationProofs` about what these stand on: `OrderedReader`, `DenseMap` and `Characters`. |

`StringTable` uses `LRUCache` (INSTANCE), `StringCodec` extends `StringTable`, `DecoderLifecycle` extends `ExiOptions`,
`XMLFiles` extends `MemoryBuffer`. Four refinements connect detail and promise: `StringTable` implements `StringPartitions`
(`ImplementsPartitions`; the mapping reads the partitions through the pointers and ignores cache and counters),
`BuiltinSchema` implements `ElementGrammars` (`ImplementsGrammar`), `OrderedReader` implements `BitCursor`
(`ImplementsCursor`), and `DenseMap` implements `Dictionary` (`ImplementsDictionary`: all the probes of an operation but the
last are stutters).

Identifiers count from 0 as in the code; `At(s, id)` reads a TLA+ sequence by identifier. Operators described as *a variant*
in their comment are mutations of the definition after them: plausible mistakes which the properties must (and do) catch.

## 3. The runs and their bounds

Two specifications state fairness, both weak and both because one thread goes on with the call it is in: `ContainersSpec`
(a probe of a hash map goes on to the next bucket, `goOn`) and `DocumentsSpec` (a load goes on to its next read, its end or its
error, `CallGoesOn`). Nothing is assumed of callers, of the file system (`ReadFails`, short reads) or of whoever
writes the files. Under it, `OperationsEnd` (every operation of the hash map ends) and `CallsReturn` (every load ends, though
the file may shrink under it) are checked. Elsewhere every operation is a single call of a loop whose length is given, and
there is nothing to wait for. `CHECK_DEADLOCK FALSE` appears where a document ends, a call traps or a bound is reached.

| Run | What it asks | Bounds, and why they are enough |
|---|---|---|
| `containers` | *Cache:* does the shifting keep the most recent keys, each once, and leave other values alone? *Hash map:* is it a map, do its counters agree with its buckets, and does every operation end? *String table:* do partitions and counters stay in step, identifiers resolve, the cache agree with the map; is it a set of append-only partitions? | A behaviour is about one of the three. Cache: the real capacity 4, five keys: eviction, hits at each position. Map: four keys and two values in tables of 4 and 8 buckets (`MinBuckets` stands for 64), two hash functions, one with neighbours and one that wraps around, the other with two pairs of collisions: growth by entries, sweeps by tombstones, reused tombstones, shrinking. Table: the schema's four URIs and one new one, one new prefix each, two new names, two values, a cache of one entry: every new name evicts the other; `StringCodec` uses three names over a cache of two. 672,991 states; the proofs cover all sizes. |
| `schema_documents` | Is the event decoded the one the grammar's table gives that code, whatever was learned before? | Two names, depth 3 (an element inside its namesake inside another), four learned productions (the width of a code grows from 0 to 3 bits), twelve option sets: none, each one, all but one, all. |
| `codec_documents` | Does every string come out as it went in, with the same partitions on both ends? | Three names in two URIs, two values, three entries in the global partition: widths 0, 1 and 2, hits and misses of every partition, a URI and prefixes that are learned. |
| `reader_documents` | Does every read return exactly the next bits, and fail only when fewer are left than it asks for? Do the characters of a string come out of stream and UTF-8 as they went in? | The real 8-byte word, streams of 0 to 20 bytes (two and a half words), fields of 1, 2, 3, 7, 8 and 9 bits, so that every alignment at every word boundary occurs; headers with and without cookie. Strings of up to three of fifteen characters: both sides of every change of length in either encoding, the replacement character, a surrogate, and characters beyond Unicode and beyond three octets. |
| `decoder_lifecycle` | After any calls, do flags, options, reader and schema belong together? | No bound: 512 option sets and all eight kinds of header make a finite state space, checked in full. |
| `xml_documents` | *From a stream:* is the tree the nesting of the events, its lists consistent from both ends, its nodes and attributes views of memory that is still there? *From files:* do documents stay views of the text that was parsed, texts keep still, and loads end? | A behaviour is about one of the two. Trees: documents of five nodes and the document node, one attribute, three deep, ended, cut short or failed, and the next document in the same serializer, by the same decoder or another: every order of prepended and appended children up to four siblings. Files: one path whose file keeps still once it is used and one that may change at any moment; a container of its own for `loadAndParse`; files of up to three blocks (a block is a node that parses or does not), pages of two, mapped from two on; two changes of the disk; reads of one, two or three blocks. 1,509,500 states; the proofs cover all sizes. |

The other six runs each check one property that the code violates.

## 4. What the runs that fail show

| Run | Property | The code |
|---|---|---|
| `schema_start_comment` | `DecodesTheTable` | A comment, processing instruction or entity reference in a start tag moves `Current` to the element content but leaves the IsStart bit on the stack set, so the next code is looked up in the wrong grammar. |
| `codec_predefined_name` | `AssertionsHold` | `appendLocalNames` does not count the predefined names: `xsi:type` written as a position fails an assertion. |
| `codec_second_prefix` | `AssertionsHold` | `createURI` enters a predefined URI with a prefix count of 1 and increments it: the count is 2 for a partition of one, and the next prefix of that URI gets an identifier past the end, which fails the assertion of `getPrefix`. (`ReturnedIDsResolve` leaves these URIs out for that.) |
| `reader_last_word` | `EndsWithDocument` | `hasData` answers from the byte offset, which is past the end once the last word is *loaded*: a stream of whole words, or of at most one word, is reported decoded with its last events unread. |
| `lifecycle_retried_header` | `OptionsWereGiven` | A header refused for its version leaves the default options it made; the next header, without options, is not refused for the want of them, and `init` ends the program. |
| `tree_attributes` | `AttributesKept` | `append_attribute` turns away every attribute that has no parent yet, which is every attribute: none reaches its element. |

The bounds of the passing runs leave these cases out: `reader_documents` by its streams and widths, `codec_documents` by its
declarations, `decoder_lifecycle` by not asking where the options came from.

More is stated in the modules and checked by no run of its own. `FieldsInStep` (`StringCodec`) fails with `Redeclares = TRUE`:
`getPrefixLog` leaves no room for a miss, so that a second declaration in a URI with one prefix is read with a bit too few.
`EndsWithStream` (`OrderedReader`) fails with `Sizes = Truncated = {11}` and `Widths = {1, 8}`: a partial refill resets
`ByteOffset`, so that a reader asked for more than a truncated stream holds starts over in its middle instead of failing.
`StoreHoldsStream` fails with `Sizes = {15}` and `Widths = {11}`: `readPartialBits64` leaves the bits it took in `Store`, into
which a partial last word is OR-ed before the byte swap, and nine bits left over corrupt the seventh byte of that word. It also
fails when `Headers` has a size up to 8: a header in front of a stream of at most 8 bytes hands on a position 8 bits too far
(the offset of `reader_last_word`). And one is in the source only: `setReader` on an initialised decoder keeps the grammar
stack and the tables of the stream before (`InitialisedIsFrozen` leaves that call out). `readerExists` is documented as "Returns an error
if the reader is empty." and does the opposite, which is what its callers need.

About files and characters: a file that fails to load stays in `SeenFiles` as a container without a buffer, and every later
request answers from there although the file may have come into being (`cachedRef`, `cachedDocument`; `ViewsStayValid` says
only that nothing is taken for a document that is none). `OnlyTextMoves` says as much as is true of the order of siblings:
characters are put in *front* of the children already there, so text after a child element is out of place. An empty file
reaches the parser's assertion (`parse` answers `abort`). `readString` enters surrogates as they come, where `encodeRunes`
would replace them; `decode` reports no stray trail bytes and no overlong sequences, as its comment says.

## 5. The proofs

TLAPS proves the following for every value of the constants. Nothing is assumed but the named assumptions on constants
(`LRUAssumption`, `StringTableAssumption`, `StringCodecAssumption`, `BuiltinSchemaAssumption`, `DecoderAssumption`,
`XMLTreeAssumption`, `MemoryBufferAssumption`, `XMLFilesAssumption`, `OrderedReaderAssumption`, `DenseMapAssumption`,
`CharactersAssumption`), which TLC evaluates in the runs, and three hypotheses that the code needs and that are named in the
theorems: `OrdinaryDocuments` (strings), `OrdinaryContent` (schema) and `OrdinaryStreams` (readers).

* `LRUCacheProofs`. `GetProperties` and `GetRemoves`: what one `get` returns, keeps and displaces, for any capacity.
  `NoKeyTwice`, `MostRecentHeld` and `OthersKeepValues` state the three properties of the run: the array never overflows or
  holds a key twice; it holds the last-used keys, in the order of their last use (`UseOrders`, `OrderStep`: the order survives
  the swap of the slot loop); and no call moves a value to another key.
* `StringCodecProofs`, the table. The inductive invariant is
  `IInv == TypeOK /\ PartitionsInSync /\ CountedNamesExist /\ CacheAgreesWithMap`. Types alone are not inductive: `addValue`
  writes to the address the cache answers with, so its being an address needs the cache to agree with `LNMap`; filling the
  cache looks up a position the code checks against a *counter*, so that needs `CountedNamesExist` (the counter never exceeds
  the partition); and finding the URI in all three partitions needs `PartitionsInSync`. `CachedLookup` is the lemma at the
  centre: from `GetProperties`, a lookup answers what the map holds and leaves a coherent cache. From it follow `TypeCorrect`,
  `InSync` (`assertPartitionsInSync` never fires), `CacheCoherent`, and with a second induction `LocalIsGlobal`.
  *Refinement.* `TableImplementsPartitions`: every step of the table maps to a step of `StringPartitions` or to a
  stutter (`StepMaps`), and what `setup()` leaves maps to the predefined partitions (`InitMaps`). `addValue` changes the one
  local-value partition it should for two reasons: the cache answers with the address `LNMap` holds (`CachedLookup`), and no
  two entries of `LNMap` hold the same address (`NoSharing`, an invariant of its own: three disjoint runs after `setup()`, and
  then fresh addresses only). `IDsResolve`: the identifiers a setter returns resolve to their string. It needs that the counts
  are exact where `createInitialEntries` leaves them so (`CountsExact`), and is proved for the partitions reached through
  `LNMap` (`IDsResolveInMap`, which no lookup can disturb) before the cache is put back between.
* `Log2Proofs`. What powers of two and their logarithm are: that the recursive function `Pow2` exists and is what its definition
  says, that it grows, and that `CeilLog2(n)` is the least width that has room for `n` codes. The proofs go by induction over
  the natural numbers in the form of a *set* (`Induction`: a set that holds 0 and with every number the next one holds all).
* `StringCodecProofs`, the strings of a stream, for documents of any length, any strings, any capacity of the cache. `BothEndsAgree`: `CodecInv` is an
  invariant. It puts the encoder's partitions beside the table's, read through its pointers (`Mirrored`, `ValuesMirrored`);
  each item does the same step of `StringPartitions` to both, so the lemmas of the refinement (`AddURIMaps` ... `AddValueMaps`)
  carry it from the one to the other. Equal partitions are not enough: the decoder computes widths from *counts*, which
  `createInitialEntries` gets wrong, so `CountsOf` says exactly how wrong they are (one prefix too many in the first three
  URIs, no predefined name counted), and `PrefixesKnown` and `ItemOK` why it does not matter: no URI has two prefixes, and
  with one prefix `getPrefixLogQ` and `getPrefixLog` give the width the encoder used. Then each field is read in the width it
  was written in (`ReadsField`), and `StringsSurvive` and `SameOnBothEnds` follow.
  The hypothesis is `OrdinaryDocuments`: the predefined URIs are different strings, no name is in a namespace with predefined
  names, and a URI is declared once, with one prefix (a predefined one with its own). The run `codec_documents` satisfies it,
  and it cannot be dropped: `codec_predefined_name` and the divergences of section 4 are what happens without it.
* `BuiltinSchemaProofs`, for any names, any options, documents of any length and depth. *Coding:* a number written in `w` bits
  is read back by `readBits64` (`ReadBack`); the code of an event is an escape for every level before its own and its index
  there (`CodeCarries`); the counts, widths and offsets of `Builder` are those of the table of productions, for every set of
  preserve options (`createDecodedTermIs`, `DecodedTermByLevel`, `LevelsInside`). So a code of the table is decoded as the
  event it was written for. *Invariant:* `IInv` is the four properties together with `GrammarOK` of every grammar: what the two
  lists of a grammar may hold (a start tag learns what it may begin with and never a comment; the content has `EE` built in
  and learns it never), and the widths stored with them the logarithms of their lengths. Without it
  no decoded event could be shown to be the right one, as the code depends on what was learned. Two facts about states `decode`
  trusts complete it: no grammar exists before the root, and no `Fragment` is ever current while the loop runs. `SchemaTyped`,
  `SchemaStack`, `SchemaLearnsOnce` and `SchemaDecodes` follow. *Refinement:* `SchemaImplements`: each call is a step of
  `ElementGrammars`, with the mapping of the run; the learned productions are the grammars' lists read backwards.
  All of them have the hypothesis `OrdinaryContent`: no comment, processing instruction or entity reference is the first
  content of an element, directly after its start tag. That is what the run `schema_documents` assumes too, and it cannot be
  dropped: `schema_start_comment` shows the properties fail without it.
* `DecoderLifecycleProofs`. `FixupIdempotent` and `FixupValidates` about the options. The inductive invariant adds to the flags
  that a reader set from outside fits the options even before there is a schema (`ReaderFitsOptions`): options are frozen from
  that moment on, by a flag that says something else (`DidHeader`). From it: `FlagsCorrect` (the assertions of `setOptions`,
  `decodeHeader`, `init`, `prepareForDecoding` never fail), `SchemaFits` (the schema never casts the reader to the wrong type),
  `HeaderOptionsValid` and, as an action property, `Frozen`.
* `XMLTreeProofs`. `TreeInv` adds to the properties what makes them inductive: the nodes are a tree whose lists of children are
  joined at both ends (`Tree`), siblings are ordered by address except for text in front (`Ordered`), and the open elements are
  the chain of parents from `Curr` up to the document (`OpenIsChain`). One lemma says what `append_node` and `prepend_node` do
  to these for *any* tree and parent; from it follow `LinksAlwaysAgree`, `TreeMirrorsDocument`, `OrderKept`
  and `TreeTypeCorrect`. `TextStaysAlive` rests on three facts: `internStrings` copies *every* string (`PersistentLives`), names are
  interned or in the table, and `SD` clears the document before anything of a new decoder enters it. All for documents of any size, nesting and number of attributes, and any sequence of bodies that end, are
  cut short or fail.
* `XMLFilesProofs`. `FilesInv == FilesTypeOK /\ LoadInv /\ \A c \in Container : BufferInv(c)`. `LoadInv` says what holds *during* a
  load: a mapped file is one that keeps still and does not end with its page, and what was read of a file that keeps still is a
  prefix of it. `BufferInv` says of a buffer at rest that it is the text its file had, and how many terminators are in it.
  `FilesTypeCorrect`, `EveryTextTerminated`, `DocumentsAreViews` and `DocumentsAreWhole` follow, and the action property
  `TextsAreStable`: for any number and size of files, any page size and threshold for mapping.
* `FoundationProofs`, the readers, for streams of any length and fields of up to 63 bits, with the byte and the word of the code. The inductive
  invariant `ReaderInv` says where the reader is: the first `InStore` bits of `Store` are the stream from `pos` on
  (`HoldsFrom`), and either they end where `ByteOffset`, a whole word, begins, with nothing behind them that a refill could be
  mixed with (`MoreToLoad`), or nothing is left to load (`AllLoaded`); while the header is read it also says which fields are
  left and how many bits those in front of them were (`HeaderPlace`), from which the position handed over follows. The
  lemmas are about one word: what `fillStore` loads, in the order `Swapped` puts it, what a shift leaves, and that the two
  halves of a field that straddles two words make one. From it `ReadersKeepPlace` (no
  handover traps), `StoresHoldStream`,
  and the refinement `ReadersImplementCursor`: a step is a stutter, the handover to the body's reader, or a read of a field of
  some width, which succeeds and is the next bits exactly when that many bits (whole octets, for the byte reader) are left.
  The hypothesis `OrdinaryStreams` is what the bounds of `reader_documents` say: a header is followed by more than its word, a
  document that goes on past the end of a longer stream does so after whole words, and a field leaves no more bits in front of
  a partial last word than fit beside it. It cannot be dropped: section 4
  says what happens without each of the three parts.
* `FoundationProofs`, the hash map, for any keys, values and hash functions, tables of any size and any sequence of operations.
  `MapInv` says of the table (`GoodTable`) that its size is a power of two, that a bucket is empty, and that every entry is
  where the probe of its key ends; that the counters are true; and that the operation under way is at the `i`-th bucket of its
  probe, with the first tombstone of it in hand. Its centre is arithmetic: the triangular numbers up to `n` are different
  modulo a power of two `n` (proved from what powers of two divide), so a probe comes to every bucket, and to the empty one. An
  insertion puts its entry on the probe of its key and on no bucket that ends another's; `grow` inserts the entries one by one
  (an induction over the old table), and the load factors leave an empty bucket again, which needs the counters. `MapInvariant`,
  `CountersTrue`, `EntriesFound` and `ProbesAreFinite` follow, and the refinement `MapImplementsDictionary`. `ProbesAreFinite` is
  the safe half of `OperationsEnd`: the operation is at a bucket of its probe at or before the one where that ends.
* `FoundationProofs`, the characters, for strings of any length over any characters of at most five octets. The sequences
  `g`, `f`, `d` of `TextIn` cut the stream and the bytes at the ends of characters, from the front and from behind (which is the
  same: `FrontsAreRests`). `CharInv` says that so many characters and so many octets of the next are read, or so many decoded.
  One lemma says that an octet adds its seven bits above those that were there and shows whether it is the last (`OctetAdds`),
  one that `Encode` writes UTF-8 (`EncodeIs`), and one that `UnitLen`, `checkTrailSeq` and `decodeImpl` find in UTF-8 what was
  written, whatever follows (`Utf8Decodes`). `StringsReadBack` states the property of the run.

Only model-checked: the two liveness properties, `OperationsEnd` and `CallsReturn`, which are out of TLAPS's reach, and of course
the properties that the runs of section 4 find violated. Every other property of a run is stated by a theorem. Induction over numbers is done
with a set, as in `Log2Proofs`, and anew for every fact. No module declares a RECURSIVE operator.

## 6. What is abstracted

* Strings are members of a set, told apart by equality. The table compares none, so in `MCContainers` several predefined
  strings may coincide; `MCStringCodec` keeps the URIs distinct, because the encoder looks them up.
* The encoder of `StringCodec` and the writer of `BuiltinSchema`'s codes are external: exiCPP's own encoder is not written yet.
  They follow the string-table and event-code conventions the decoder expects.
* A field read with a width other than it was written with puts the stream out of step; the model follows the call that did
  so to its end and stops (`lost`). An assertion that fails stops it (`trap`).
* `readBits64` of a full 64 bits is excluded (`Widths`): it shifts by the width of the word, which is undefined. `Characters`
  takes the octets of a string from a sequence instead of from the reader: that 8-bit reads return the next octets is what
  `ImplementsCursor` says. `readUInt` is `readNByteUInt` with eight octets instead of three.
* Prefix identifiers are kept in 8 bits in `EventUID`; no model has 256 prefixes. `ValuePartitionCapacity` only reserves
  memory in the code and is left out; `ValueMaxLength` is never consulted.
* Streams that end inside their header are not modelled: the code dereferences an error value there.
* `DecoderLifecycle` takes the outcome of the events as given (success or failure): their effects are in the other modules.
  A null pointer passed to `setOptions` is not modelled. `Header.HasCookie` is true from the start and never reset, so it says
  nothing; no model keeps it.
* `XMLTree` leaves out names and values but for the memory they live in (`Memory`): a decoder's string table and pool
  are one memory, which counts as gone once another decoder has taken over, as its owner may have destroyed it; which events the grammar allows is
  `BuiltinSchema`'s affair, here its stack is enough. A document that is started again while pointers into the old pool are left
  is modelled as the code does it: `Curr` and `Attr` are set before they are used.
* `XMLFiles`: a text is a sequence of top-level nodes that parse or do not (`Strict` and the parser's flags only move a node from
  one kind to the other); the terminators of the parser lie inside the node they end, so that a text that has one does not parse
  again. A mapping is private: a page of it is the file's until it is written to and the buffer's own copy from then on, so that `parse`
  leaves the disk alone by construction. An open file is not removed. A file that is not
  declared volatile is left alone while a buffer of it exists: the code asks that of its callers (`IsVolatile`).
* `DenseMap`: hash functions are a constant; the sizes of tables are bounded by `MaxBuckets` in the guard of `insert`. A default
  constructed value is `NoMapValue`. The probe of a table that is being filled anew is a `CHOOSE` of its end, as that loop runs
  over a table without tombstones. `amt` is kept modulo the table's size, in which alone it is used.

## 7. Not modelled

The plan of the project is carried out but for what cannot be modelled faithfully or has no behaviour of its own:

* `OrderedWriter`, `HeaderEncoder`: unfinished. `encodeHeader` has no caller; `writeBit` and `writeByte` shift an `int` by up to
  63 places, which is undefined from the 32nd bit of a word on; `flushToWord` swaps the bytes of words that were built in order;
  `align` writes a count other than the one it tests; and the destructor flushes bits again that a proxy was given. What is
  written is not a stream the reader accepts, and there is no reader, test or text to say what it should be.
* `encode::StringTable`: no operation is complete, nothing calls it.
* `NBitInt`: arithmetic modulo 2^n in a wrapper without state; nothing in the decoder depends on it.
* Streams that end inside their header: the code dereferences an error value there, and what happens then is undefined.
* `encodeRunes`, the unchecked conversions and the iterators of `Runes`: no caller in the library.
* Error and event codes (tables of names), the stat cache (pure I/O, unused), code that is not built (`Schema.cpp`,
  `Schema-Flat.cpp`, `StreamOld`, `Backburner`).
* The rest of `include/core` and `lib/core`: some 70,000 lines derived from LLVM (arbitrary-precision integers, paths, command
  lines, formatting, containers) that the decoder uses a small part of. They are not this program's logic, and their share of
  the lines is why the mapped part of the whole stays small.

What could still be proved: that a decoder built of these parts decodes a whole document. The composition is argued in section 6
(`Characters` takes octets from a sequence because `ImplementsCursor` says the reader delivers them), not proved.
