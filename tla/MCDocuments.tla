---------------------------- MODULE MCDocuments -----------------------------
(***************************************************************************)
(* The documents of the program, on small instances: one that the          *)
(* serializer builds from the events of a stream (XMLTree), or those that  *)
(* the manager parses from files (XMLFiles).  A behaviour is about one     *)
(* kind; the other stays as it was.                                        *)
(***************************************************************************)
EXTENDS XMLTree, XMLFiles

VARIABLE documents

vars == << documents, treeVars, fileVars >>

(* The choices of a behaviour about a decoded document. *)
SomeFiles == Immutable /\ isXMLKind = Path

DocumentsInit ==
  /\ documents \in {"decoded", "parsed"}
  /\ Init /\ FilesInit
  /\ documents = "decoded" => SomeFiles

DocumentsNext ==
  /\ UNCHANGED documents
  /\ \/ documents = "decoded" /\ Next /\ UNCHANGED fileVars
     \/ documents = "parsed" /\ FilesNext /\ UNCHANGED treeVars

(* The thread that made a call goes on with it. *)
DocumentsSpec ==
  /\ DocumentsInit /\ [][DocumentsNext]_vars
  /\ WF_vars(documents = "parsed" /\ CallGoesOn /\ UNCHANGED << documents, treeVars >>)
=============================================================================
