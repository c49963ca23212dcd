----------------------------- MODULE MCReaders ------------------------------
(***************************************************************************)
(* What a reader makes of a stream, on small instances: its bits           *)
(* (OrderedReader), or the characters of a string (Characters).  A         *)
(* behaviour is about one of them; the other stays as it was.              *)
(***************************************************************************)
EXTENDS MCOrderedReader, Characters

VARIABLE reads

vars == << reads, readerVars, charVars >>

(* The first and last characters of every length, in octets and in UTF-8,  *)
(* the replacement and a surrogate.                                        *)
MCCharacters ==
  {0, 127, 128, 2047, 2048, 16383, 16384, 55296, 65533, 65535, 65536, 1114111, 1114112,
   2097151, 2097152}

ReadersInit ==
  /\ reads \in {"bits", "characters"}
  /\ Init /\ CharactersInit
  /\ reads = "bits" => text = << >>
  /\ reads = "characters" => Stream = 0 /\ status = "body" /\ kind = "bit"

ReadersNext ==
  /\ UNCHANGED reads
  /\ \/ reads = "bits" /\ Next /\ UNCHANGED charVars
     \/ reads = "characters" /\ CharactersNext /\ UNCHANGED readerVars

ReadersSpec == ReadersInit /\ [][ReadersNext]_vars
=============================================================================
