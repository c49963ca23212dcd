------------------------------ MODULE XMLFiles ------------------------------
(***************************************************************************)
(* XMLManager and XMLContainer: files are loaded once per path and parsed  *)
(* in place.  The manager's containers are named by their paths; `Own' is  *)
(* a container somebody made without a manager, which offers loadAndParse. *)
(*                                                                         *)
(* One thread makes the calls.  A call that loads a file takes several     *)
(* steps (MemoryBuffer), and the files may change between them.            *)
(***************************************************************************)
EXTENDS MemoryBuffer

CONSTANTS
  Volatile,    \* the paths whose files may change at any time
  Own,         \* a container of its own
  OwnPath,     \* and the path of its entry
  MaxSize,     \* bounds the size of a file
  MaxWrites    \* bounds the changes on the disk

ASSUME XMLFilesAssumption ==
  /\ Volatile \subseteq Path /\ OwnPath \in Path /\ Own \notin Path
  /\ MaxSize \in Nat /\ MaxWrites \in Nat

VARIABLES
  cont,        \* the containers
  call,        \* the call that waits for a file
  answer,      \* of the last call
  Immutable,   \* XMLOptions::Immutable, the same for every container
  isXMLKind,   \* the paths with an extension the parser is let loose on
  writes       \* changes on the disk so far

fileVars == << disk, load, cont, call, answer, Immutable, isXMLKind, writes >>

Container == Path \cup {Own}
PathOf(c) == IF c = Own THEN OwnPath ELSE c

(* TheBuffer: none, on the heap, or the pages of the file.  The first      *)
(* `torn' nodes of the text carry the terminators of the parser.           *)
NoBuffer == [kind |-> "none", text |-> << >>, torn |-> 0]
NoCall == [op |-> "none", c |-> Own, volatile |-> FALSE]
Answers == {"none", "ok", "error", "abort"}

(***************************************************************************)
(* What is in a buffer.  A page of a private mapping is the file's until   *)
(* it is written to, and a copy from then on.                              *)
(***************************************************************************)
DiskBlock(p, i) == IF i <= Len(disk[p].text) THEN disk[p].text[i] ELSE Zero

TextOf(c) ==
  LET b == cont[c].buf
  IN IF b.kind = "map"
     THEN [i \in 1 .. Len(b.text) |-> IF i <= b.torn THEN b.text[i] ELSE DiskBlock(PathOf(c), i)]
     ELSE b.text

(***************************************************************************)
(* The parser                                                              *)
(***************************************************************************)

(* The length of the longest prefix of blocks of a kind.                   *)
Prefix(text, kinds) ==
  CHOOSE n \in 0 .. Len(text) :
    /\ \A i \in 1 .. n : text[i] \in kinds
    /\ n < Len(text) => text[n + 1] \notin kinds

(* The text ends at the first zero at top level; the parser gives up at    *)
(* the first node it cannot parse.                                         *)
NodesIn(text) == SubSeq(text, 1, Prefix(text, Blocks))
GoodNodes(text) == Prefix(text, {"good"})

(* Every terminator lies inside its node, so that a text with one is not   *)
(* well formed any more.                                                   *)
WellFormed(text, torn) == torn = 0 /\ GoodNodes(text) = Len(NodesIn(text))

(* parse of a container that holds the buffer b with the text given        *)
Parsed(k, b, text) ==
  [k EXCEPT !.buf = [b EXCEPT !.torn = IF Immutable \/ b.torn > 0 THEN @ ELSE GoodNodes(text)],
            !.parsed = WellFormed(text, b.torn),
            !.doc = IF WellFormed(text, b.torn) THEN NodesIn(text) ELSE @]

(* XMLContainer::parse, with the buffer b in place.  What it writes is in  *)
(* the buffer's own pages (TextOf), a mapping being private.               *)
parse(c, b, text) ==
  /\ UNCHANGED disk
  /\ IF cont[c].parsed
     THEN answer' = "ok" /\ cont' = [cont EXCEPT ![c].buf = b]
     ELSE IF b.kind = "none" \/ PathOf(c) \notin isXMLKind
     THEN answer' = "error" /\ cont' = [cont EXCEPT ![c].buf = b]
     ELSE IF text = << >>
     THEN answer' = "abort" /\ cont' = [cont EXCEPT ![c].buf = b]
     ELSE /\ answer' = IF WellFormed(text, b.torn) THEN "ok" ELSE "error"
          /\ cont' = [cont EXCEPT ![c] = Parsed(@, b, text)]

(***************************************************************************)
(* The calls                                                               *)
(***************************************************************************)
Idle == call.op = "none" /\ answer # "abort"

(* A caller says of a volatile file that it is one.                        *)
Flag(p) == IF p \in Volatile THEN {TRUE} ELSE BOOLEAN

beginLoad(op, c, volatile) ==
  /\ getFileAux(PathOf(c), volatile)
  /\ call' = [op |-> op, c |-> c, volatile |-> volatile]
  /\ answer' = "none"
  /\ UNCHANGED disk

(* SeenFiles has the path, whatever came of it: the container is the       *)
(* answer of getXMLRef, and getXMLDocument parses it.                      *)
cachedRef(p) ==
  /\ Idle /\ cont[p].seen
  /\ answer' = "ok"
  /\ UNCHANGED << disk, load, cont, call >>

cachedDocument(p) ==
  /\ Idle /\ cont[p].seen
  /\ parse(p, cont[p].buf, TextOf(p))
  /\ UNCHANGED << load, call >>

(* It has not: a container is entered, and only then is the file loaded.   *)
newRef(op, p, volatile) ==
  /\ Idle /\ ~cont[p].seen
  /\ cont' = [cont EXCEPT ![p].seen = TRUE]
  /\ beginLoad(op, p, volatile)

(* A variant that loads over a parsed document.                            *)
loadAndParse_Reloads(volatile) ==
  /\ Idle
  /\ IF volatile \/ cont[Own].buf.kind = "none"
     THEN beginLoad("loadAndParse", Own, volatile)
          /\ cont' = [cont EXCEPT ![Own].seen = TRUE]
     ELSE parse(Own, cont[Own].buf, TextOf(Own)) /\ UNCHANGED << load, call >>

loadAndParse(volatile) ==
  /\ Idle
  /\ IF cont[Own].parsed
     THEN /\ answer' = IF volatile THEN "error" ELSE "ok"
          /\ UNCHANGED << disk, load, call, cont >>
     ELSE IF volatile \/ cont[Own].buf.kind = "none"
     THEN beginLoad("loadAndParse", Own, volatile)
          /\ cont' = [cont EXCEPT ![Own].seen = TRUE]
     ELSE parse(Own, cont[Own].buf, TextOf(Own)) /\ UNCHANGED << load, call >>

(* The rest of a call once loadBuffer's file is read ...                   *)
loadDone ==
  /\ call.op # "none" /\ load.pc = "ready"
  /\ LET c == call.c
         b == [kind |-> IF load.mapped THEN "map" ELSE "heap", text |-> load.text, torn |-> 0]
     IN IF call.op = "getXMLRef"
        THEN answer' = "ok" /\ cont' = [cont EXCEPT ![c].buf = b] /\ UNCHANGED disk
        ELSE parse(c, b, load.text)
  /\ call' = NoCall /\ load' = NoLoad

(* ... or could not be; what the container held stays.                     *)
loadFailed ==
  /\ call.op # "none" /\ load.pc \in {"error", "abort"}
  /\ answer' = load.pc
  /\ call' = NoCall /\ load' = NoLoad
  /\ UNCHANGED << cont, disk >>

(***************************************************************************)
(* The disk.  A file that is not volatile is left alone while it is used;  *)
(* an open file is not removed (the text of its inode would go on).        *)
(***************************************************************************)
FileTexts == UNION {[1 .. n -> Blocks] : n \in 0 .. MaxSize}
InUse(p) == load.path = p \/ \E c \in Container : PathOf(c) = p /\ cont[c].buf.kind # "none"

writeFile(p) ==
  /\ writes < MaxWrites /\ writes' = writes + 1
  /\ p \in Volatile \/ ~InUse(p)
  /\ \/ \E text \in FileTexts : disk' = [disk EXCEPT ![p] = [there |-> TRUE, text |-> text]]
     \/ load.path # p /\ disk' = [disk EXCEPT ![p] = [there |-> FALSE, text |-> << >>]]
  /\ UNCHANGED << load, cont, call, answer, Immutable, isXMLKind >>

(***************************************************************************)

FilesInit ==
  /\ disk = [p \in Path |-> [there |-> FALSE, text |-> << >>]]
  /\ load = NoLoad
  /\ cont = [c \in Container |-> [seen |-> FALSE, buf |-> NoBuffer,
                                  parsed |-> FALSE, doc |-> << >>]]
  /\ call = NoCall /\ answer = "none"
  /\ Immutable \in BOOLEAN
  /\ isXMLKind \in {Path, Path \ {OwnPath}}
  /\ writes = 0

getXMLRef(p) ==
  cachedRef(p) \/ \E volatile \in Flag(p) : newRef("getXMLRef", p, volatile)

getXMLDocument(p) ==
  cachedDocument(p) \/ \E volatile \in Flag(p) : newRef("getXMLDocument", p, volatile)

Proceed == (LoadStep /\ UNCHANGED << cont, call, answer >>) \/ loadDone \/ loadFailed

Program ==
  /\ \/ \E p \in Path : getXMLRef(p) \/ getXMLDocument(p)
     \/ \E volatile \in Flag(OwnPath) : loadAndParse(volatile)
     \/ Proceed \/ (ReadFails /\ UNCHANGED << cont, call, answer >>)
  /\ UNCHANGED << Immutable, isXMLKind, writes >>

FilesNext == Program \/ \E p \in Path : writeFile(p)

FilesSpec == FilesInit /\ [][FilesNext]_fileVars

(* What a call that waits for its file goes on with: no read need fail.    *)
CallGoesOn == Proceed /\ UNCHANGED << Immutable, isXMLKind, writes >>

(***************************************************************************)
(* Properties                                                              *)
(***************************************************************************)

FileText == Seq(Blocks \cup {Zero})

Load == [pc : LoadStates, path : Path \cup {""}, volatile : BOOLEAN,
         size : Nat, text : FileText, mapped : BOOLEAN]
Buffer == [kind : {"none", "heap", "map"}, text : FileText, torn : Nat]
Call == [op : {"none", "getXMLRef", "getXMLDocument", "loadAndParse"},
         c : Container, volatile : BOOLEAN]

(* The shape of files, loads and containers; no read goes past the buffer, *)
(* whose size was taken when the file was opened, and no terminator is     *)
(* written behind the text.                                                *)
FilesTypeOK ==
  /\ disk \in [Path -> [there : BOOLEAN, text : Seq(Blocks)]]
  /\ load \in Load /\ Len(load.text) <= load.size
  /\ call \in Call /\ answer \in Answers
  /\ call.op = "none" <=> load.pc = "idle"
  /\ cont \in [Container -> [seen : BOOLEAN, buf : Buffer, parsed : BOOLEAN, doc : FileText]]
  /\ \A c \in Container : cont[c].buf.torn <= Len(cont[c].buf.text)

(* The nodes of a parsed document are views of its buffer: the buffer is   *)
(* there and still holds the text that was parsed, however often the       *)
(* document and its file are asked for, loaded and changed.                *)
ViewsStayValid ==
  \A c \in Container :
    cont[c].parsed =>
      /\ cont[c].buf.kind # "none"
      /\ cont[c].doc = NodesIn(TextOf(c))
      /\ GoodNodes(cont[c].doc) = Len(cont[c].doc)
      /\ Immutable \/ cont[c].buf.torn = Len(cont[c].doc)

(* No document of a file that keeps still is anything but its whole text,  *)
(* in however many reads it came; nor is it the text of a half-parsed      *)
(* buffer.                                                                 *)
WholeFileParsed ==
  \A p \in Path \ Volatile : cont[p].parsed => cont[p].doc = disk[p].text

(* A text changes only when its container is given another buffer: the     *)
(* file beneath may be rewritten.                                          *)
TextsKeepStill ==
  [][\A c \in Container :
       cont[c].buf.kind # "none" /\ ~(call.c = c /\ load.pc = "ready") => TextOf(c)' = TextOf(c)]_fileVars

(* init()'s assertion does not fail: every text has its terminator.        *)
Terminated == load.pc # "abort"

(* A call that loads a file returns, whatever happens to the file while    *)
(* it is read.                                                             *)
CallsReturn == (call.op # "none") ~> (call.op = "none")
=============================================================================
