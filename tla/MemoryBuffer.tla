----------------------------- MODULE MemoryBuffer ---------------------------
(***************************************************************************)
(* Loading a file: WritableMemoryBuffer::getFileEx of MemoryBuffer.cpp,    *)
(* with the file on the disk beneath it.  A file is a sequence of blocks;  *)
(* for the parser above a block is one top-level node of its text.  The    *)
(* file may grow or shrink between the moment its size is taken and the    *)
(* last read; what was opened stays the same file.                         *)
(***************************************************************************)
EXTENDS Naturals, Sequences

CONSTANTS
  Path,        \* the files
  MapMin,      \* the size from which a file is mapped (16 KiB in the code)
  PageSize     \* the blocks of a page

ASSUME MemoryBufferAssumption == MapMin \in Nat /\ PageSize \in Nat \ {0}

VARIABLES
  disk,    \* the files: is it there, and its text
  load     \* the load under way

Blocks == {"good", "bad"}   \* a node that parses, and one that does not
Zero == "zero"              \* the filling after a short read

LoadStates == {"idle", "opened", "reading", "ready", "error", "abort"}

NoLoad == [pc |-> "idle", path |-> "", volatile |-> FALSE, size |-> 0,
           text |-> << >>, mapped |-> FALSE]

(***************************************************************************)
(* getFileAux: the file is opened and its size taken.                      *)
(***************************************************************************)
getFileAux(p, volatile) ==
  load' = [NoLoad EXCEPT !.pc = IF disk[p].there THEN "opened" ELSE "error",
                         !.path = p, !.volatile = volatile,
                         !.size = IF disk[p].there THEN Len(disk[p].text) ELSE 0]

(* A variant that maps volatile files as well.                             *)
shouldUseMmap_Always(size, volatile) == size >= MapMin /\ size % PageSize # 0

(* A variant that maps whole pages as well.                                *)
shouldUseMmap_WholePages(size, volatile) == ~volatile /\ size >= MapMin

(* A terminator is always required, so the end of the text must lie inside *)
(* a page, and the file must not be about to change.                       *)
shouldUseMmap(size, volatile) ==
  /\ ~volatile
  /\ size >= MapMin
  /\ size % PageSize # 0

Text == disk[load.path].text

(* The load under way has come to a state, a text and a mapping.           *)
Loading(pc, text, mapped) ==
  load' = [load EXCEPT !.pc = pc, !.text = text, !.mapped = mapped]

(* The pages are those of the file; init() asserts the zero behind them,   *)
(* which the rest of the last page holds unless the file has changed.      *)
MapFile ==
  /\ load.pc = "opened" /\ shouldUseMmap(load.size, load.volatile)
  /\ Loading(IF Len(Text) = load.size /\ load.size % PageSize # 0 THEN "ready" ELSE "abort",
             Text, TRUE)
  /\ UNCHANGED disk

(* Not to be mapped, or the mapping failed: a buffer of the size taken.    *)
AllocBuffer ==
  /\ load.pc = "opened"
  /\ Loading(IF load.size = 0 THEN "ready" ELSE "reading", load.text, load.mapped)
  /\ UNCHANGED disk

Offset == Len(load.text)

(* A variant that reads at the start of the file every time.               *)
ReadSlice_NoOffset ==
  /\ load.pc = "reading" /\ Offset < Len(Text)
  /\ \E n \in 1 .. (IF Len(Text) < load.size THEN Len(Text) ELSE load.size) - Offset :
       LET text == load.text \o SubSeq(Text, 1, n)
       IN Loading(IF Len(text) = load.size THEN "ready" ELSE "reading", text, load.mapped)
  /\ UNCHANGED disk

(* One read of at least a block: as much as is asked for, or less.         *)
ReadSlice ==
  /\ load.pc = "reading" /\ Offset < Len(Text)
  /\ \E n \in 1 .. (IF Len(Text) < load.size THEN Len(Text) ELSE load.size) - Offset :
       LET text == load.text \o SubSeq(Text, Offset + 1, Offset + n)
       IN Loading(IF Len(text) = load.size THEN "ready" ELSE "reading", text, load.mapped)
  /\ UNCHANGED disk

(* A variant that fills one block and reads on at the end of the file.     *)
EndOfFile_ReadsOn ==
  /\ load.pc = "reading" /\ Offset >= Len(Text)
  /\ UNCHANGED << load, disk >>

(* A variant that fills as much as the whole buffer.                       *)
EndOfFile_FillsAll ==
  /\ load.pc = "reading" /\ Offset >= Len(Text)
  /\ Loading("ready", load.text \o [i \in 1 .. load.size |-> Zero], load.mapped)
  /\ UNCHANGED disk

(* A read of nothing: the file has shrunk, the rest is filled with zeros.  *)
EndOfFile ==
  /\ load.pc = "reading" /\ Offset >= Len(Text)
  /\ Loading("ready", load.text \o [i \in 1 .. load.size - Offset |-> Zero], load.mapped)
  /\ UNCHANGED disk

ReadFails ==
  /\ load.pc = "reading"
  /\ Loading("error", load.text, load.mapped)
  /\ UNCHANGED disk

LoadStep == MapFile \/ AllocBuffer \/ ReadSlice \/ EndOfFile
=============================================================================
