--------------------------- MODULE XMLFilesProofs ---------------------------
(***************************************************************************)
(* Proofs about XMLFiles, for any number and size of files, any splitting  *)
(* of their reads and any changes of the volatile ones.  The views of a    *)
(* document depend on its buffer, the buffer on how it was loaded, and a   *)
(* load on what the caller said of the file: FilesInv follows that chain.  *)
(***************************************************************************)
EXTENDS XMLFiles, TLAPS, SequenceTheorems, WellFoundedInduction

FileBlock == Blocks \cup {Zero}

-----------------------------------------------------------------------------
(* Texts                                                                   *)

(* A set of numbers has a least one.                                       *)
LEMMA LeastNumber ==
  ASSUME NEW T, T \subseteq Nat, T # {}
  PROVE  \E x \in T : \A y \in T : x <= y
  <1>1. PICK R : R = OpToRel(<, Nat)
    OBVIOUS
  <1>2. IsWellFoundedOn(R, Nat)
    BY <1>1, NatLessThanWellFounded
  <1>3. PICK x \in T : \A y \in T : ~ (<< y, x >> \in R)
    BY <1>2, WFMin
  <1>4. \A y \in T : << y, x >> \in Nat \X Nat
    OBVIOUS
  <1>5. \A y \in T : ~ (y < x)
    BY <1>1, <1>3, <1>4 DEF OpToRel
  <1> QED BY <1>5

(* The longest prefix of blocks of a kind exists ...                       *)
LEMMA PrefixExists ==
  ASSUME NEW S, NEW text \in Seq(S), NEW kinds
  PROVE  /\ Prefix(text, kinds) \in 0 .. Len(text)
         /\ \A i \in 1 .. Prefix(text, kinds) : text[i] \in kinds
         /\ Prefix(text, kinds) < Len(text) => text[Prefix(text, kinds) + 1] \notin kinds
  <1> DEFINE T == {n \in 0 .. Len(text) : n < Len(text) => text[n + 1] \notin kinds}
  <1>1. PICK l \in Nat : l = Len(text)
    OBVIOUS
  <1>2. l \in T /\ T \subseteq Nat
    BY <1>1
  <1>3. PICK n \in T : \A m \in T : n <= m
    BY <1>2, LeastNumber
  <1>4. n \in 0 .. l /\ (n < l => text[n + 1] \notin kinds)
    BY <1>1, <1>3
  <1>5. \A i \in 1 .. n : text[i] \in kinds
    <2> SUFFICES ASSUME NEW i \in 1 .. n, text[i] \notin kinds PROVE FALSE
      OBVIOUS
    <2>1. i - 1 \in 0 .. l /\ (i - 1) + 1 = i
      BY <1>4
    <2>2. i - 1 \in T
      BY <1>1, <2>1
    <2>3. n \in Int /\ i \in Int /\ i <= n
      BY <1>4
    <2>4. n <= i - 1
      BY <1>3, <2>2
    <2> QED BY ONLY <2>3, <2>4
  <1>6. \E m \in 0 .. Len(text) :
          (\A i \in 1 .. m : text[i] \in kinds) /\ (m < Len(text) => text[m + 1] \notin kinds)
    BY <1>1, <1>4, <1>5
  <1> QED BY <1>6 DEF Prefix

(* ... and is the only one.                                                *)
LEMMA PrefixUnique ==
  ASSUME NEW S, NEW text \in Seq(S), NEW kinds, NEW n \in 0 .. Len(text),
         \A i \in 1 .. n : text[i] \in kinds, n < Len(text) => text[n + 1] \notin kinds
  PROVE  Prefix(text, kinds) = n
  <1>1. PICK m \in 0 .. Len(text) : m = Prefix(text, kinds)
    BY PrefixExists
  <1>2. /\ \A i \in 1 .. m : text[i] \in kinds
        /\ m < Len(text) => text[m + 1] \notin kinds
    BY <1>1, PrefixExists
  <1>3. ~ (m < n)
    BY <1>2
  <1>4. ~ (n < m)
    BY <1>2
  <1> QED BY <1>1, <1>3, <1>4

(* The nodes of a text are a text.                                         *)
LEMMA NodesProperties ==
  ASSUME NEW text \in FileText
  PROVE  /\ NodesIn(text) \in FileText
         /\ Len(NodesIn(text)) = Prefix(text, Blocks)
         /\ \A i \in 1 .. Len(NodesIn(text)) : NodesIn(text)[i] = text[i]
  <1>1. PICK n \in 0 .. Len(text) : n = Prefix(text, Blocks)
    BY PrefixExists DEF FileText
  <1>2. n \in Nat /\ n \in Int /\ 1 \in Int
    BY <1>1
  <1>3. \A i \in 1 .. n : text[i] \in FileBlock
    BY <1>1 DEF FileText, FileBlock
  <1>4. /\ SubSeq(text, 1, n) \in Seq(FileBlock)
        /\ Len(SubSeq(text, 1, n)) = IF 1 <= n THEN n - 1 + 1 ELSE 0
        /\ \A i \in 1 .. n - 1 + 1 : SubSeq(text, 1, n)[i] = text[1 + i - 1]
    BY ONLY <1>2, <1>3, SubSeqProperties
  <1>5. NodesIn(text) = SubSeq(text, 1, n)
    BY <1>1 DEF NodesIn
  <1>6. /\ NodesIn(text) \in Seq(FileBlock) /\ Len(NodesIn(text)) = n
        /\ \A i \in 1 .. n : NodesIn(text)[i] = text[i]
    BY ONLY <1>2, <1>4, <1>5
  <1> QED BY <1>1, <1>6 DEF FileText, FileBlock

(* A text without zeros is all nodes.                                      *)
LEMMA WholeText ==
  ASSUME NEW text \in Seq(Blocks)
  PROVE  NodesIn(text) = text
  <1>1. Prefix(text, Blocks) = Len(text)
    <2>1. PICK n \in Nat : n = Len(text)
      OBVIOUS
    <2>2. \A i \in 1 .. n : text[i] \in Blocks
      BY <2>1
    <2> QED BY <2>1, <2>2, PrefixUnique
  <1> QED BY <1>1, SubSeqFull DEF NodesIn

(* A well formed text has good nodes only.                                 *)
LEMMA GoodDocument ==
  ASSUME NEW text \in FileText, NEW torn, WellFormed(text, torn)
  PROVE  /\ GoodNodes(NodesIn(text)) = Len(NodesIn(text))
         /\ GoodNodes(text) = Len(NodesIn(text)) /\ torn = 0
  <1>1. PICK d \in Seq(FileBlock) : d = NodesIn(text)
    BY NodesProperties DEF FileText, FileBlock
  <1>2. PICK n \in Nat : n = Len(d)
    BY <1>1
  <1>3. \A i \in 1 .. n : text[i] = "good" /\ d[i] = text[i]
    <2>1. n = Prefix(text, {"good"})
      BY <1>1, <1>2 DEF WellFormed, GoodNodes
    <2>2. \A i \in 1 .. Prefix(text, {"good"}) : text[i] \in {"good"}
      BY PrefixExists DEF FileText
    <2> QED BY <1>1, <1>2, <2>1, <2>2, NodesProperties
  <1>4. \A i \in 1 .. n : d[i] \in {"good"}
    BY <1>3
  <1>5. Prefix(d, {"good"}) = n
    BY <1>2, <1>4, PrefixUnique
  <1> QED BY <1>1, <1>2, <1>5 DEF WellFormed, GoodNodes

-----------------------------------------------------------------------------
(* The inductive invariant                                                 *)

(* A load is for the path of its call, and of a file that keeps still it   *)
(* has the size, and in order the text as far as it has read.              *)
LoadInv ==
  /\ load.pc # "abort"
  /\ load.pc # "idle" =>
       /\ load.path = PathOf(call.c) /\ load.path \in Path
       /\ load.path \in Volatile => load.volatile
  /\ load.pc = "opened" => load.text = << >>
  /\ load.pc = "reading" => Len(load.text) < load.size
  /\ load.pc = "ready" => Len(load.text) = load.size
  /\ load.mapped => load.path \notin Volatile
  /\ load.pc \in {"opened", "reading", "ready"} /\ load.path \notin Volatile =>
       /\ load.size = Len(disk[load.path].text)
       /\ \A i \in 1 .. Len(load.text) : load.text[i] = disk[load.path].text[i]

(* Pages are those of files that keep still, so that a buffer holds what   *)
(* was read into it; and a document is that of its buffer.                 *)
BufferInv(c) ==
  /\ ~cont[c].seen => ~cont[c].parsed /\ cont[c].buf.kind = "none"
  /\ call.op # "none" /\ call.c = c => cont[c].seen /\ ~cont[c].parsed
  /\ cont[c].buf.kind = "map" => PathOf(c) \notin Volatile
  /\ cont[c].buf.kind # "none" /\ PathOf(c) \notin Volatile =>
       cont[c].buf.text = disk[PathOf(c)].text
  /\ cont[c].parsed =>
       /\ cont[c].buf.kind # "none" /\ cont[c].doc = NodesIn(cont[c].buf.text)
       /\ GoodNodes(cont[c].doc) = Len(cont[c].doc)
       /\ Immutable \/ cont[c].buf.torn = Len(cont[c].doc)

FilesInv ==
  /\ FilesTypeOK
  /\ LoadInv
  /\ \A c \in Container : BufferInv(c)

(* A buffer that has been given holds the text that is seen through it.    *)
LEMMA TextIsBuffer ==
  ASSUME FilesInv, NEW c \in Container
  PROVE  TextOf(c) = cont[c].buf.text
  <1>1. PICK b \in Buffer : b = cont[c].buf
    BY DEF FilesInv, FilesTypeOK
  <1>2. PICK t \in FileText : t = b.text
    BY DEF Buffer
  <1>3. CASE b.kind # "map"
    BY <1>1, <1>3 DEF TextOf
  <1>4. CASE b.kind = "map"
    <2>1. t = disk[PathOf(c)].text
      BY <1>1, <1>2, <1>4 DEF FilesInv, BufferInv
    <2>2. \A i \in 1 .. Len(t) : DiskBlock(PathOf(c), i) = t[i]
      BY <2>1 DEF DiskBlock, FileText
    <2>3. TextOf(c) = [i \in 1 .. Len(t) |-> IF i <= b.torn THEN t[i] ELSE DiskBlock(PathOf(c), i)]
      BY <1>1, <1>2, <1>4 DEF TextOf
    <2>4. t = [i \in 1 .. Len(t) |-> t[i]]
      BY DEF FileText
    <2> QED BY <1>1, <1>2, <2>2, <2>3, <2>4
  <1> QED BY <1>3, <1>4

(* A read goes on where the last one ended.                                *)
LEMMA ReadExtends ==
  ASSUME NEW S, NEW T, NEW text \in Seq(S), NEW file \in Seq(T), T \subseteq S,
         NEW n \in Nat \ {0}, Len(text) + n <= Len(file)
  PROVE  LET all == text \o SubSeq(file, Len(text) + 1, Len(text) + n)
         IN /\ all \in Seq(S) /\ Len(all) = Len(text) + n
            /\ \A i \in 1 .. Len(all) :
                 all[i] = IF i <= Len(text) THEN text[i] ELSE file[i]
  <1>1. PICK k \in Nat : k = Len(text)
    OBVIOUS
  <1>2. k + 1 \in Int /\ k + n \in Int /\ k + 1 <= k + n /\ (k + n) - (k + 1) + 1 = n
    BY <1>1
  <1>3. \A i \in k + 1 .. k + n : file[i] \in S
    BY <1>1
  <1> DEFINE more == SubSeq(file, k + 1, k + n)
  <1>4. /\ more \in Seq(S) /\ Len(more) = n
        /\ \A i \in 1 .. n : more[i] = file[(k + 1) + i - 1]
    BY ONLY <1>2, <1>3, SubSeqProperties
  <1>5. /\ text \o more \in Seq(S) /\ Len(text \o more) = k + n
        /\ \A i \in 1 .. k + n : (text \o more)[i] = IF i <= k THEN text[i] ELSE more[i - k]
    BY <1>1, <1>4, ConcatProperties
  <1> HIDE DEF more
  <1>6. \A i \in 1 .. k + n : i > k => more[i - k] = file[i]
    <2> SUFFICES ASSUME NEW i \in 1 .. k + n, i > k PROVE more[i - k] = file[i]
      OBVIOUS
    <2>1. i - k \in 1 .. n /\ (k + 1) + (i - k) - 1 = i
      OBVIOUS
    <2> QED BY <1>4, <2>1
  <1>7. \A i \in 1 .. k + n : (text \o more)[i] = IF i <= k THEN text[i] ELSE file[i]
    BY <1>5, <1>6
  <1> QED BY <1>1, <1>5, <1>7 DEF more

-----------------------------------------------------------------------------
(* The steps of a load                                                     *)

LoadTypeOK == load \in Load /\ Len(load.text) <= load.size

(* What a step of a load changes and what it leaves.                       *)
LEMMA LoadGoesOn ==
  ASSUME load \in Load, NEW pc \in LoadStates, NEW text \in FileText, NEW mapped \in BOOLEAN,
         Loading(pc, text, mapped)
  PROVE  /\ load' \in Load /\ load'.pc = pc /\ load'.text = text /\ load'.mapped = mapped
         /\ load'.path = load.path /\ load'.volatile = load.volatile /\ load'.size = load.size
  BY DEF Load, Loading

(* What has to be shown of the load after a step of it.                    *)
LEMMA LoadTypeHolds ==
  ASSUME load' \in Load, NEW k \in Nat, NEW n \in Nat, k <= n,
         Len(load'.text) = k, load'.size = n
  PROVE  LoadTypeOK'
  BY DEF LoadTypeOK

(* The same for the rest of the invariant.                                 *)
LEMMA LoadInvHolds ==
  ASSUME LoadInv, load.pc # "idle", call' = call,
         load'.path = load.path, load'.volatile = load.volatile,
         load'.pc \notin {"abort", "idle", "opened"},
         (load.pc = "reading" => Len(load.text) < load.size)',
         (load.pc = "ready" => Len(load.text) = load.size)',
         (load.mapped => load.path \notin Volatile)',
         (load.pc \in {"reading", "ready"} /\ load.path \notin Volatile =>
            /\ load.size = Len(disk[load.path].text)
            /\ \A i \in 1 .. Len(load.text) : load.text[i] = disk[load.path].text[i])'
  PROVE  LoadInv' /\ load'.pc # "idle"
  BY DEF LoadInv

(* A load that is opened is read, mapped or found to be empty; a read goes *)
(* on, ends or fails.                                                      *)
LEMMA LoadStepSafe ==
  ASSUME FilesInv, LoadStep \/ ReadFails, call' = call
  PROVE  /\ disk' = disk /\ LoadTypeOK' /\ LoadInv'
         /\ load.pc # "idle" /\ load'.pc # "idle"
  <1>1. load \in Load /\ load.mapped \in BOOLEAN
    BY DEF FilesInv, FilesTypeOK, Load
  <1>2. PICK size \in Nat : size = load.size
    BY DEF FilesInv, FilesTypeOK, Load
  <1>3. PICK old \in FileText : old = load.text
    BY DEF FilesInv, FilesTypeOK, Load
  <1>4. PICK k \in Nat : k = Len(old)
    BY DEF FileText
  <1>5. load.path \in Path => Text \in Seq(Blocks)
    BY DEF FilesInv, FilesTypeOK, Text
  <1>6. LoadInv /\ load.pc # "idle" => load.path \in Path
    BY DEF FilesInv, LoadInv
  <1>7. LoadInv
    BY DEF FilesInv
  <1>8. ASSUME MapFile PROVE disk' = disk /\ LoadTypeOK' /\ LoadInv' /\ load.pc # "idle" /\ load'.pc # "idle"
    <2>1. load.pc = "opened" /\ ~load.volatile /\ load.size % PageSize # 0 /\ disk' = disk
      BY <1>8 DEF MapFile, shouldUseMmap
    <2>2. load.path \in Path /\ load.path \notin Volatile /\ load.size = Len(Text)
      BY <1>7, <2>1 DEF LoadInv, Text
    <2>3. Text \in Seq(Blocks) /\ Text \in FileText
      BY <1>5, <2>2 DEF FileText
    <2>4. Loading("ready", Text, TRUE)
      BY <1>8, <2>1, <2>2 DEF MapFile
    <2>5. /\ load' \in Load /\ load'.pc = "ready" /\ load'.text = Text /\ load'.mapped = TRUE
          /\ load'.path = load.path /\ load'.volatile = load.volatile /\ load'.size = load.size
      BY <1>1, <2>3, <2>4, LoadGoesOn DEF LoadStates
    <2>7. Len(load'.text) = load'.size /\ load'.size = load.size
      BY <2>2, <2>5
    <2>8. LoadTypeOK'
      BY <1>2, <2>5, <2>7, LoadTypeHolds
    <2>9. /\ load'.size = Len(disk'[load'.path].text)
          /\ \A i \in 1 .. Len(load'.text) : load'.text[i] = disk'[load'.path].text[i]
      BY <2>2, <2>5, <2>1 DEF Text
    <2>10. LoadInv' /\ load'.pc # "idle"
      BY <1>7, <2>1, <2>2, <2>5, <2>7, <2>9, LoadInvHolds
    <2> QED BY <2>1, <2>8, <2>10
  <1>9. ASSUME AllocBuffer PROVE disk' = disk /\ LoadTypeOK' /\ LoadInv' /\ load.pc # "idle" /\ load'.pc # "idle"
    <2>1. PICK pc \in {"ready", "reading"} : pc = IF load.size = 0 THEN "ready" ELSE "reading"
      OBVIOUS
    <2>2. load.pc = "opened" /\ disk' = disk /\ Loading(pc, load.text, load.mapped)
      BY <1>9, <2>1 DEF AllocBuffer
    <2>3. /\ load' \in Load /\ load'.pc = pc /\ load'.text = load.text /\ load'.mapped = load.mapped
          /\ load'.path = load.path /\ load'.volatile = load.volatile /\ load'.size = load.size
      BY <1>1, <1>3, <2>2, LoadGoesOn DEF LoadStates
    <2>4. load.text = << >> /\ Len(load.text) = 0
      BY <1>7, <2>2 DEF LoadInv
    <2>5. LoadTypeOK'
      BY <1>2, <2>3, <2>4, LoadTypeHolds, SMTT(30)
    <2>6. load.path \notin Volatile => load.size = Len(disk[load.path].text)
      BY <1>7, <2>2 DEF LoadInv
    <2>7. (load.pc = "reading" => Len(load.text) < load.size)'
      BY <1>2, <2>1, <2>3, <2>4
    <2>8. (load.pc = "ready" => Len(load.text) = load.size)'
      BY <1>2, <2>1, <2>3, <2>4
    <2>9. load.mapped => load.path \notin Volatile
      BY <1>7 DEF LoadInv
    <2>10. (load.path \notin Volatile =>
              /\ load.size = Len(disk[load.path].text)
              /\ \A i \in 1 .. Len(load.text) : load.text[i] = disk[load.path].text[i])'
      BY <2>2, <2>3, <2>4, <2>6
    <2>11. LoadInv' /\ load'.pc # "idle"
      BY <1>7, <2>1, <2>2, <2>3, <2>7, <2>8, <2>9, <2>10, LoadInvHolds
    <2> QED BY <2>2, <2>5, <2>11
  <1>10. ASSUME ReadSlice PROVE disk' = disk /\ LoadTypeOK' /\ LoadInv' /\ load.pc # "idle" /\ load'.pc # "idle"
    <2>1. load.pc = "reading" /\ disk' = disk
      BY <1>10 DEF ReadSlice
    <2>2. load.path \in Path /\ Len(load.text) < load.size
      BY <1>7, <2>1 DEF LoadInv
    <2>3. PICK file \in Seq(Blocks) : file = Text
      BY <1>5, <2>2
    <2>4. k = Len(load.text)
      BY <1>3, <1>4
    <2>5. PICK f \in Nat : f = Len(file)
      OBVIOUS
    <2>6. k < f
      BY <1>10, <2>3, <2>4, <2>5 DEF ReadSlice, Offset
    <2>7. PICK n \in 1 .. (IF f < size THEN f ELSE size) - k :
            LET text == old \o SubSeq(file, k + 1, k + n)
            IN Loading(IF Len(text) = size THEN "ready" ELSE "reading", text, load.mapped)
      BY <1>10, <1>2, <1>3, <2>3, <2>4, <2>5 DEF ReadSlice, Offset
    <2>8. n \in Nat \ {0} /\ k + n <= f /\ k + n <= size
      BY <2>7
    <2> DEFINE text == old \o SubSeq(file, k + 1, k + n)
    <2>9. /\ text \in FileText /\ Len(text) = k + n
          /\ \A i \in 1 .. k + n : text[i] = IF i <= k THEN old[i] ELSE file[i]
      <3>1. old \in Seq(FileBlock) /\ Blocks \subseteq FileBlock
        BY DEF FileText, FileBlock
      <3>2. Len(old) + n <= Len(file)
        BY <1>4, <2>5, <2>8
      <3>3. LET all == old \o SubSeq(file, Len(old) + 1, Len(old) + n)
            IN /\ all \in Seq(FileBlock) /\ Len(all) = Len(old) + n
               /\ \A i \in 1 .. Len(all) :
                    all[i] = IF i <= Len(old) THEN old[i] ELSE file[i]
        BY ONLY file \in Seq(Blocks), n \in Nat \ {0}, <2>8, <3>1, <3>2, ReadExtends
      <3> QED BY <1>4, <3>3 DEF FileText, FileBlock
    <2>10. Loading(IF Len(text) = size THEN "ready" ELSE "reading", text, load.mapped)
      BY <2>7
    <2> HIDE DEF text
    <2>11. PICK pc \in {"ready", "reading"} : pc = IF k + n = size THEN "ready" ELSE "reading"
      OBVIOUS
    <2>12. Loading(pc, text, load.mapped)
      BY <2>9, <2>10, <2>11
    <2>13. /\ load' \in Load /\ load'.pc = pc /\ load'.text = text /\ load'.mapped = load.mapped
           /\ load'.path = load.path /\ load'.volatile = load.volatile /\ load'.size = load.size
      BY <1>1, <2>9, <2>12, LoadGoesOn DEF LoadStates
    <2>14. load.path \notin Volatile =>
             size = f /\ \A i \in 1 .. k + n : text[i] = file[i]
      BY <1>7, <1>2, <1>3, <2>1, <2>3, <2>4, <2>5, <2>9 DEF LoadInv, Text
    <2>15. LoadTypeOK'
      BY <1>2, <2>8, <2>9, <2>13, LoadTypeHolds
    <2>16. (load.pc = "ready" => Len(load.text) = load.size)'
      BY <1>2, <2>9, <2>11, <2>13
    <2>17. (load.pc = "reading" => Len(load.text) < load.size)'
      BY <1>2, <2>8, <2>9, <2>11, <2>13
    <2>18. load'.path \notin Volatile =>
             /\ load'.size = Len(disk'[load'.path].text)
             /\ \A i \in 1 .. Len(load'.text) : load'.text[i] = disk'[load'.path].text[i]
      BY <1>2, <2>1, <2>3, <2>5, <2>9, <2>13, <2>14 DEF Text
    <2>19. load.mapped => load.path \notin Volatile
      BY <1>7 DEF LoadInv
    <2>20. LoadInv' /\ load'.pc # "idle"
      BY <1>7, <2>1, <2>11, <2>13, <2>16, <2>17, <2>18, <2>19, LoadInvHolds
    <2> QED BY <2>1, <2>15, <2>20
  <1>11. ASSUME EndOfFile PROVE disk' = disk /\ LoadTypeOK' /\ LoadInv' /\ load.pc # "idle" /\ load'.pc # "idle"
    <2>1. load.pc = "reading" /\ Len(load.text) >= Len(Text) /\ disk' = disk
      BY <1>11 DEF EndOfFile, Offset
    <2>2. load.path \in Path /\ Len(load.text) < load.size
      BY <1>7, <2>1 DEF LoadInv
    <2>3. Len(Text) \in Nat /\ k < size /\ k >= Len(Text)
      BY <1>5, <1>2, <1>3, <1>4, <2>1, <2>2
    <2>4. load.path \in Volatile
      BY <1>7, <1>2, <2>1, <2>3 DEF LoadInv, Text
    <2>5. PICK n \in Nat \ {0} : n = size - k
      BY <2>3
    <2>6. PICK zeros \in Seq(FileBlock) : zeros = [i \in 1 .. n |-> Zero] /\ Len(zeros) = n
      <3>1. [i \in 1 .. n |-> Zero] \in [1 .. n -> FileBlock]
        BY DEF FileBlock
      <3>2. \A f \in [1 .. n -> FileBlock] : f \in Seq(FileBlock) /\ Len(f) = n
        OBVIOUS
      <3> QED BY <3>1, <3>2
    <2>7. old \in Seq(FileBlock)
      BY DEF FileText, FileBlock
    <2>8. old \o zeros \in Seq(FileBlock) /\ Len(old \o zeros) = Len(old) + Len(zeros)
      BY ONLY old \in Seq(FileBlock), zeros \in Seq(FileBlock), <2>7, ConcatProperties
    <2>9. old \o zeros \in FileText /\ Len(old \o zeros) = size
      BY <1>4, <2>5, <2>6, <2>8 DEF FileText, FileBlock
    <2>10. Loading("ready", old \o zeros, load.mapped)
      BY <1>11, <1>2, <1>3, <1>4, <2>5, <2>6 DEF EndOfFile, Offset
    <2>11. /\ load' \in Load /\ load'.pc = "ready" /\ load'.text = old \o zeros
           /\ load'.mapped = load.mapped
           /\ load'.path = load.path /\ load'.volatile = load.volatile /\ load'.size = load.size
      BY <1>1, <2>9, <2>10, LoadGoesOn DEF LoadStates
    <2>12. Len(load'.text) = load'.size /\ LoadTypeOK'
      BY <1>2, <2>9, <2>11, LoadTypeHolds
    <2>13. load.mapped => load.path \notin Volatile
      BY <1>7 DEF LoadInv
    <2>14. LoadInv' /\ load'.pc # "idle"
      BY <1>7, <2>1, <2>4, <2>11, <2>12, <2>13, LoadInvHolds
    <2> QED BY <2>1, <2>12, <2>14
  <1>12. ASSUME ReadFails PROVE disk' = disk /\ LoadTypeOK' /\ LoadInv' /\ load.pc # "idle" /\ load'.pc # "idle"
    <2>1. load.pc = "reading" /\ disk' = disk /\ Loading("error", load.text, load.mapped)
      BY <1>12 DEF ReadFails
    <2>2. /\ load' \in Load /\ load'.pc = "error" /\ load'.text = load.text
          /\ load'.mapped = load.mapped
          /\ load'.path = load.path /\ load'.volatile = load.volatile /\ load'.size = load.size
      BY <1>1, <1>3, <2>1, LoadGoesOn DEF LoadStates
    <2>3. LoadTypeOK'
      BY <2>2 DEF FilesInv, FilesTypeOK, LoadTypeOK
    <2>4. load.mapped => load.path \notin Volatile
      BY <1>7 DEF LoadInv
    <2>5. LoadInv' /\ load'.pc # "idle"
      BY <1>7, <2>1, <2>2, <2>4, LoadInvHolds
    <2> QED BY <2>1, <2>3, <2>5
  <1> QED BY <1>8, <1>9, <1>10, <1>11, <1>12 DEF LoadStep

-----------------------------------------------------------------------------
(* The steps of the containers                                             *)

ContainerState == [seen : BOOLEAN, buf : Buffer, parsed : BOOLEAN, doc : FileText]

ContTypeOK ==
  /\ cont \in [Container -> ContainerState]
  /\ \A c \in Container : cont[c].buf.torn <= Len(cont[c].buf.text)

(* The containers a step does not touch stay as they are.                  *)
OnlyTouches(c) == \A d \in Container \ {c} : cont'[d] = cont[d]

(* A container is given a buffer ...                                       *)
LEMMA BufferGiven ==
  ASSUME cont \in [Container -> ContainerState], NEW c \in Container, NEW b \in Buffer,
         cont' = [cont EXCEPT ![c].buf = b]
  PROVE  /\ cont' \in [Container -> ContainerState] /\ OnlyTouches(c)
         /\ cont'[c].buf = b /\ cont'[c].seen = cont[c].seen
         /\ cont'[c].parsed = cont[c].parsed /\ cont'[c].doc = cont[c].doc
  <1>1. PICK k \in ContainerState : k = cont[c]
    OBVIOUS
  <1>2. PICK new : new = [k EXCEPT !.buf = b]
    OBVIOUS
  <1>3. new \in ContainerState /\ new.buf = b /\ new.seen = k.seen /\ new.parsed = k.parsed /\ new.doc = k.doc
    BY <1>2 DEF ContainerState
  <1>4. cont' = [cont EXCEPT ![c] = new]
    BY <1>1, <1>2
  <1> QED BY <1>1, <1>3, <1>4 DEF OnlyTouches

(* ... or entered ...                                                      *)
LEMMA ContainerEntered ==
  ASSUME cont \in [Container -> ContainerState], NEW c \in Container,
         cont' = [cont EXCEPT ![c].seen = TRUE]
  PROVE  /\ cont' \in [Container -> ContainerState] /\ OnlyTouches(c)
         /\ cont'[c].seen = TRUE /\ cont'[c].buf = cont[c].buf
         /\ cont'[c].parsed = cont[c].parsed /\ cont'[c].doc = cont[c].doc
  <1>1. PICK k \in ContainerState : k = cont[c]
    OBVIOUS
  <1>2. PICK new : new = [k EXCEPT !.seen = TRUE]
    OBVIOUS
  <1>3. new \in ContainerState /\ new.seen = TRUE /\ new.buf = k.buf /\ new.parsed = k.parsed /\ new.doc = k.doc
    BY <1>2 DEF ContainerState
  <1>4. cont' = [cont EXCEPT ![c] = new]
    BY <1>1, <1>2
  <1> QED BY <1>1, <1>3, <1>4 DEF OnlyTouches

(* ... or parsed.                                                          *)
LEMMA ContainerParsed ==
  ASSUME cont \in [Container -> ContainerState], NEW c \in Container, NEW b \in Buffer,
         cont' = [cont EXCEPT ![c] = Parsed(@, b, b.text)]
  PROVE  /\ cont' \in [Container -> ContainerState] /\ OnlyTouches(c)
         /\ cont'[c].seen = cont[c].seen
         /\ cont'[c].parsed = WellFormed(b.text, b.torn)
         /\ cont'[c].doc = IF WellFormed(b.text, b.torn) THEN NodesIn(b.text) ELSE cont[c].doc
         /\ cont'[c].buf.kind = b.kind /\ cont'[c].buf.text = b.text
         /\ cont'[c].buf.torn = IF Immutable \/ b.torn > 0 THEN b.torn ELSE GoodNodes(b.text)
  <1>1. PICK k \in ContainerState : k = cont[c]
    OBVIOUS
  <1>2. PICK text \in FileText : text = b.text
    BY DEF Buffer
  <1>3. PICK torn \in Nat : torn = IF Immutable \/ b.torn > 0 THEN b.torn ELSE GoodNodes(b.text)
    <2>1. GoodNodes(text) \in Nat
      BY PrefixExists DEF GoodNodes, FileText
    <2>2. b.torn \in Nat
      BY DEF Buffer
    <2> QED BY <1>2, <2>1, <2>2
  <1>4. PICK well \in BOOLEAN : well = WellFormed(b.text, b.torn)
    BY DEF WellFormed
  <1>5. PICK doc \in FileText : doc = IF well THEN NodesIn(text) ELSE k.doc
    BY NodesProperties DEF ContainerState
  <1>6. PICK buf : buf = [b EXCEPT !.torn = torn]
    OBVIOUS
  <1>7. buf \in Buffer /\ buf.torn = torn /\ buf.kind = b.kind /\ buf.text = b.text
    BY <1>6 DEF Buffer
  <1>8. PICK new : new = [k EXCEPT !.buf = buf, !.parsed = well, !.doc = doc]
    OBVIOUS
  <1>9. /\ new \in ContainerState
        /\ new.seen = k.seen /\ new.buf = buf /\ new.parsed = well /\ new.doc = doc
    BY <1>7, <1>8 DEF ContainerState
  <1>10. Parsed(k, b, b.text) = new
    BY <1>2, <1>3, <1>4, <1>5, <1>6, <1>8 DEF Parsed
  <1>11. cont' = [cont EXCEPT ![c] = new]
    BY <1>1, <1>10
  <1>12. cont' \in [Container -> ContainerState] /\ cont'[c] = new /\ OnlyTouches(c)
    BY <1>9, <1>11 DEF OnlyTouches
  <1> QED BY <1>1, <1>2, <1>3, <1>4, <1>5, <1>7, <1>9, <1>12

(* What has to be shown of the containers when one has changed.            *)
LEMMA OthersHold ==
  ASSUME FilesInv, NEW c \in Container, OnlyTouches(c), disk' = disk, Immutable' = Immutable,
         call'.op = "none" \/ call'.c = c, cont' \in [Container -> ContainerState],
         (cont[c].buf.torn <= Len(cont[c].buf.text))', BufferInv(c)'
  PROVE  ContTypeOK' /\ \A d \in Container : BufferInv(d)'
  <1> SUFFICES ASSUME NEW d \in Container
               PROVE  (cont[d].buf.torn <= Len(cont[d].buf.text))' /\ BufferInv(d)'
    BY DEF ContTypeOK
  <1>1. CASE d = c
    BY <1>1
  <1>2. CASE d # c
    <2>1. cont'[d] = cont[d] /\ PathOf(d)' = PathOf(d)
      BY <1>2 DEF OnlyTouches, PathOf
    <2>2. BufferInv(d) /\ cont[d].buf.torn <= Len(cont[d].buf.text)
      BY DEF FilesInv, FilesTypeOK
    <2> QED BY <1>2, <2>1, <2>2 DEF BufferInv
  <1> QED BY <1>1, <1>2

(* A buffer fit for a container: it is that of a parsed one, pages only of *)
(* a file that keeps still, and the text of such a file.                   *)
Fits(c, b) ==
  /\ b.torn <= Len(b.text) /\ cont[c].seen
  /\ cont[c].parsed => b = cont[c].buf
  /\ b.kind = "map" => PathOf(c) \notin Volatile
  /\ b.kind # "none" /\ PathOf(c) \notin Volatile => b.text = disk[PathOf(c)].text

(* The buffer a container has fits it.                                     *)
LEMMA OwnBufferFits ==
  ASSUME FilesInv, NEW c \in Container, cont[c].seen
  PROVE  /\ cont[c].buf \in Buffer /\ Fits(c, cont[c].buf)
         /\ TextOf(c) = cont[c].buf.text
  <1>1. cont[c].buf \in Buffer
    BY DEF FilesInv, FilesTypeOK
  <1>2. TextOf(c) = cont[c].buf.text
    BY TextIsBuffer
  <1>3. BufferInv(c) /\ cont[c].buf.torn <= Len(cont[c].buf.text)
    BY DEF FilesInv, FilesTypeOK
  <1> QED BY <1>1, <1>2, <1>3 DEF Fits, BufferInv

(* To give it to the container is safe ...                                 *)
LEMMA GivingIsSafe ==
  ASSUME FilesInv, NEW c \in Container, NEW b \in Buffer, Fits(c, b),
         cont' = [cont EXCEPT ![c].buf = b],
         disk' = disk, Immutable' = Immutable, call'.op = "none"
  PROVE  /\ ContTypeOK' /\ \A d \in Container : BufferInv(d)'
         /\ OnlyTouches(c) /\ cont'[c].buf.text = b.text
  <1>1. cont \in [Container -> ContainerState]
    BY DEF FilesInv, FilesTypeOK, ContainerState
  <1>2. /\ cont' \in [Container -> ContainerState] /\ OnlyTouches(c)
        /\ cont'[c].buf = b /\ cont'[c].seen = cont[c].seen
        /\ cont'[c].parsed = cont[c].parsed /\ cont'[c].doc = cont[c].doc
    BY <1>1, BufferGiven
  <1>3. BufferInv(c)
    BY DEF FilesInv
  <1>4. (cont[c].buf.torn <= Len(cont[c].buf.text))'
    BY <1>2 DEF Fits
  <1>5. PathOf(c)' = PathOf(c)
    BY DEF PathOf
  <1>6. BufferInv(c)'
    BY <1>2, <1>3, <1>5 DEF BufferInv, Fits
  <1> QED BY <1>2, <1>4, <1>6, OthersHold

(* ... and so is to parse it there.                                        *)
LEMMA ParsingIsSafe ==
  ASSUME FilesInv, NEW c \in Container, NEW b \in Buffer, Fits(c, b), parse(c, b, b.text),
         Immutable' = Immutable, call'.op = "none"
  PROVE  /\ disk' = disk /\ answer' \in Answers
         /\ ContTypeOK' /\ \A d \in Container : BufferInv(d)'
         /\ OnlyTouches(c) /\ cont'[c].buf.text = b.text
  <1>1. disk' = disk /\ answer' \in Answers
    BY DEF parse, Answers
  <1>2. CASE cont' = [cont EXCEPT ![c].buf = b]
    BY <1>1, <1>2, GivingIsSafe
  <1>3. CASE cont' = [cont EXCEPT ![c] = Parsed(@, b, b.text)] /\ b.kind # "none"
    <2>1. cont \in [Container -> ContainerState]
      BY DEF FilesInv, FilesTypeOK, ContainerState
    <2>2. /\ cont' \in [Container -> ContainerState] /\ OnlyTouches(c)
          /\ cont'[c].seen = cont[c].seen
          /\ cont'[c].parsed = WellFormed(b.text, b.torn)
          /\ cont'[c].doc = IF WellFormed(b.text, b.torn) THEN NodesIn(b.text) ELSE cont[c].doc
          /\ cont'[c].buf.kind = b.kind /\ cont'[c].buf.text = b.text
          /\ cont'[c].buf.torn = IF Immutable \/ b.torn > 0 THEN b.torn ELSE GoodNodes(b.text)
      BY <1>3, <2>1, ContainerParsed
    <2>3. PICK text \in FileText : text = b.text
      BY DEF Buffer
    <2>4. GoodNodes(text) <= Len(text) /\ b.torn <= Len(text)
      BY <2>3, PrefixExists DEF GoodNodes, FileText, Fits
    <2>5. (cont[c].buf.torn <= Len(cont[c].buf.text))'
      BY <2>2, <2>3, <2>4
    <2>6. cont'[c].parsed =>
            /\ GoodNodes(NodesIn(text)) = Len(NodesIn(text))
            /\ GoodNodes(text) = Len(NodesIn(text)) /\ b.torn = 0
      BY <2>2, <2>3, GoodDocument
    <2>7. (cont[c].parsed =>
             /\ cont[c].buf.kind # "none" /\ cont[c].doc = NodesIn(cont[c].buf.text)
             /\ GoodNodes(cont[c].doc) = Len(cont[c].doc)
             /\ Immutable \/ cont[c].buf.torn = Len(cont[c].doc))'
      BY <1>3, <2>2, <2>3, <2>6
    <2>8. BufferInv(c)'
      BY <1>1, <2>2, <2>7 DEF BufferInv, Fits, PathOf
    <2> QED BY <1>1, <2>2, <2>5, <2>8, OthersHold
  <1> QED BY <1>1, <1>2, <1>3 DEF parse

-----------------------------------------------------------------------------
(* Every step keeps the invariant                                          *)

CallTypeOK ==
  /\ disk \in [Path -> [there : BOOLEAN, text : Seq(Blocks)]]
  /\ call \in Call /\ answer \in Answers
  /\ call.op = "none" <=> load.pc = "idle"

(* The parts of the invariant after a step.                                *)
LEMMA InvariantParts ==
  ASSUME CallTypeOK', LoadTypeOK', LoadInv', ContTypeOK', \A c \in Container : BufferInv(c)'
  PROVE  FilesInv'
  BY DEF FilesInv, FilesTypeOK, CallTypeOK, LoadTypeOK, ContTypeOK, ContainerState

(* No load is under way ...                                                *)
LEMMA NoLoadIsLoad ==
  /\ NoLoad \in Load /\ NoLoad.pc = "idle" /\ NoLoad.text = << >> /\ Len(NoLoad.text) = 0
  /\ NoLoad.size = 0 /\ ~NoLoad.mapped
  <1>1. << >> \in FileText /\ Len(<< >>) = 0
    BY DEF FileText
  <1> QED BY <1>1 DEF NoLoad, Load, LoadStates

(* ... any more.                                                           *)
LEMMA NoLoadComes ==
  ASSUME load' = NoLoad
  PROVE  LoadTypeOK' /\ LoadInv' /\ load'.pc = "idle"
  <1>1. LoadTypeOK'
    BY NoLoadIsLoad, LoadTypeHolds
  <1> QED BY <1>1, NoLoadIsLoad DEF LoadInv

(* The paths of containers.                                                *)
LEMMA PathIsPath ==
  ASSUME NEW c \in Container
  PROVE  PathOf(c) \in Path
  BY XMLFilesAssumption DEF Container, PathOf

(* A call that has to load a file.                                         *)
LEMMA BeginningIsSafe ==
  ASSUME FilesInv, NEW c \in Container, ~cont[c].parsed, NEW volatile \in Flag(PathOf(c)),
         NEW op \in {"getXMLRef", "getXMLDocument", "loadAndParse"},
         beginLoad(op, c, volatile), cont' = [cont EXCEPT ![c].seen = TRUE],
         Immutable' = Immutable
  PROVE  FilesInv' /\ disk' = disk /\ \A d \in Container : cont'[d].buf = cont[d].buf
  <1>1. PICK p \in Path : p = PathOf(c)
    BY PathIsPath
  <1>2. PICK file \in Seq(Blocks) : file = disk[p].text
    BY DEF FilesInv, FilesTypeOK
  <1>3. volatile \in BOOLEAN /\ (p \in Volatile => volatile = TRUE)
    BY <1>1 DEF Flag
  <1>4. PICK pc \in {"opened", "error"} : pc = IF disk[p].there THEN "opened" ELSE "error"
    OBVIOUS
  <1>5. PICK size \in Nat : size = (IF disk[p].there THEN Len(file) ELSE 0)
    OBVIOUS
  <1>6. load' = [NoLoad EXCEPT !.pc = pc, !.path = p, !.volatile = volatile, !.size = size]
    BY <1>1, <1>2, <1>4, <1>5 DEF beginLoad, getFileAux
  <1>7. /\ load' = [pc |-> pc, path |-> p, volatile |-> volatile, size |-> size,
                    text |-> << >>, mapped |-> FALSE]
    BY <1>6 DEF NoLoad
  <1>8. << >> \in FileText /\ Len(<< >>) = 0
    BY DEF FileText
  <1>9. /\ load' \in Load /\ load'.pc = pc /\ load'.path = p /\ load'.volatile = volatile
        /\ load'.size = size /\ load'.text = << >> /\ load'.mapped = FALSE
    BY <1>3, <1>7, <1>8 DEF Load, LoadStates
  <1>10. LoadTypeOK'
    BY <1>8, <1>9, LoadTypeHolds
  <1>11. call' = [op |-> op, c |-> c, volatile |-> volatile] /\ disk' = disk /\ answer' = "none"
    BY DEF beginLoad
  <1>12. call' \in Call /\ call'.op = op /\ call'.c = c
    BY <1>3, <1>11 DEF Call
  <1>13. CallTypeOK'
    BY <1>9, <1>11, <1>12 DEF CallTypeOK, FilesInv, FilesTypeOK, Answers
  <1>14. LoadInv'
    <2>1. load'.path = PathOf(call'.c)
      BY <1>1, <1>9, <1>12
    <2>2. pc = "opened" => load'.size = Len(disk'[load'.path].text)
      BY <1>2, <1>4, <1>5, <1>9, <1>11
    <2> QED BY <1>3, <1>8, <1>9, <2>1, <2>2 DEF LoadInv, PathOf
  <1>15. /\ ContTypeOK' /\ \A d \in Container : BufferInv(d)'
         /\ \A d \in Container : cont'[d].buf = cont[d].buf
    <2>1. cont \in [Container -> ContainerState]
      BY DEF FilesInv, FilesTypeOK, ContainerState
    <2>2. /\ cont' \in [Container -> ContainerState] /\ OnlyTouches(c)
          /\ cont'[c].seen = TRUE /\ cont'[c].buf = cont[c].buf
          /\ cont'[c].parsed = cont[c].parsed /\ cont'[c].doc = cont[c].doc
      BY <2>1, ContainerEntered
    <2>3. BufferInv(c) /\ cont[c].buf.torn <= Len(cont[c].buf.text)
      BY DEF FilesInv, FilesTypeOK
    <2>4. BufferInv(c)' /\ (cont[c].buf.torn <= Len(cont[c].buf.text))'
      BY <1>11, <2>2, <2>3 DEF BufferInv, PathOf
    <2>5. ContTypeOK' /\ \A d \in Container : BufferInv(d)'
      BY <1>11, <1>12, <2>2, <2>4, OthersHold
    <2> QED BY <2>2, <2>5 DEF OnlyTouches
  <1> QED BY <1>10, <1>11, <1>13, <1>14, <1>15, InvariantParts

(* A call whose file has been loaded.                                      *)
LEMMA DoneIsSafe ==
  ASSUME FilesInv, loadDone, Immutable' = Immutable
  PROVE  FilesInv' /\ disk' = disk /\ OnlyTouches(call.c)
  <1>1. call.op # "none" /\ load.pc = "ready" /\ call' = NoCall /\ load' = NoLoad
    BY DEF loadDone
  <1>2. PICK c \in Container : c = call.c
    BY DEF FilesInv, FilesTypeOK, Call
  <1>3. LoadInv /\ LoadTypeOK /\ BufferInv(c)
    BY DEF FilesInv, FilesTypeOK, LoadTypeOK
  <1>4. PICK text \in FileText : text = load.text
    BY DEF FilesInv, FilesTypeOK, Load
  <1>5. PICK kind \in {"map", "heap"} : kind = IF load.mapped THEN "map" ELSE "heap"
    OBVIOUS
  <1> DEFINE b == [kind |-> kind, text |-> text, torn |-> 0]
  <1>6. b \in Buffer /\ b.kind = kind /\ b.text = text /\ b.torn = 0
    BY DEF Buffer
  <1>7. IF call.op = "getXMLRef"
        THEN answer' = "ok" /\ cont' = [cont EXCEPT ![c].buf = b] /\ UNCHANGED disk
        ELSE parse(c, b, b.text)
    BY <1>2, <1>4, <1>5 DEF loadDone
  <1> HIDE DEF b
  <1>8. PathOf(c) \in Path /\ load.path = PathOf(c)
    BY <1>1, <1>2, <1>3, PathIsPath DEF LoadInv
  <1>9. Fits(c, b)
    <2>1. cont[c].seen /\ ~cont[c].parsed
      BY <1>1, <1>2, <1>3 DEF BufferInv
    <2>2. kind = "map" => PathOf(c) \notin Volatile
      BY <1>3, <1>5, <1>8 DEF LoadInv
    <2>3. PathOf(c) \notin Volatile => text = disk[PathOf(c)].text
      <3> SUFFICES ASSUME PathOf(c) \notin Volatile PROVE text = disk[PathOf(c)].text
        OBVIOUS
      <3>1. PICK file \in Seq(Blocks) : file = disk[PathOf(c)].text
        BY <1>8 DEF FilesInv, FilesTypeOK
      <3>2. Len(text) = Len(file) /\ \A i \in 1 .. Len(text) : text[i] = file[i]
        BY <1>1, <1>3, <1>4, <1>8, <3>1 DEF LoadInv
      <3>3. text \in Seq(FileBlock) /\ file \in Seq(FileBlock)
        BY DEF FileText, FileBlock
      <3> QED BY ONLY <3>1, <3>2, <3>3
    <2>4. 0 <= Len(text)
      BY DEF FileText
    <2> QED BY <1>6, <2>1, <2>2, <2>3, <2>4 DEF Fits
  <1>10. call'.op = "none" /\ call' \in Call
    BY <1>1 DEF NoCall, Call, Container
  <1>11. /\ disk' = disk /\ answer' \in Answers
         /\ ContTypeOK' /\ \A d \in Container : BufferInv(d)'
         /\ OnlyTouches(c)
    <2>1. CASE call.op = "getXMLRef"
      BY <1>6, <1>7, <1>9, <1>10, <2>1, GivingIsSafe DEF Answers
    <2>2. CASE call.op # "getXMLRef"
      BY <1>6, <1>7, <1>9, <1>10, <2>2, ParsingIsSafe
    <2> QED BY <2>1, <2>2
  <1>12. LoadTypeOK' /\ LoadInv' /\ load'.pc = "idle"
    BY <1>1, NoLoadComes
  <1>13. CallTypeOK'
    BY <1>10, <1>11, <1>12 DEF CallTypeOK, FilesInv, FilesTypeOK
  <1> QED BY <1>2, <1>11, <1>12, <1>13, InvariantParts

(* A call whose file could not be.                                         *)
LEMMA FailingIsSafe ==
  ASSUME FilesInv, loadFailed, Immutable' = Immutable
  PROVE  FilesInv' /\ disk' = disk /\ cont' = cont
  <1>1. call' = NoCall /\ load' = NoLoad /\ cont' = cont /\ disk' = disk /\ answer' \in Answers
    BY DEF loadFailed, Answers
  <1>2. call'.op = "none" /\ call' \in Call
    BY <1>1 DEF NoCall, Call, Container
  <1>3. LoadTypeOK' /\ LoadInv' /\ load'.pc = "idle"
    BY <1>1, NoLoadComes
  <1>4. CallTypeOK'
    BY <1>1, <1>2, <1>3 DEF CallTypeOK, FilesInv, FilesTypeOK
  <1>5. ContTypeOK'
    BY <1>1 DEF ContTypeOK, FilesInv, FilesTypeOK, ContainerState
  <1>6. ASSUME NEW c \in Container PROVE BufferInv(c)'
    <2>1. BufferInv(c)
      BY DEF FilesInv
    <2> QED BY <1>1, <1>2, <2>1 DEF BufferInv, PathOf
  <1> QED BY <1>1, <1>3, <1>4, <1>5, <1>6, InvariantParts

(* A change on the disk: of a file nobody is using, or a volatile one.     *)
LEMMA WritingIsSafe ==
  ASSUME FilesInv, NEW p \in Path, writeFile(p)
  PROVE  FilesInv'
  <1>1. UNCHANGED << load, cont, call, answer, Immutable >> /\ (p \in Volatile \/ ~InUse(p))
    BY DEF writeFile
  <1>2. PICK f \in [there : BOOLEAN, text : Seq(Blocks)] : disk' = [disk EXCEPT ![p] = f]
    <2>1. \A text \in FileTexts : text \in Seq(Blocks)
      BY XMLFilesAssumption DEF FileTexts
    <2>2. \A text \in Seq(Blocks) :
            [there |-> TRUE, text |-> text] \in [there : BOOLEAN, text : Seq(Blocks)]
      OBVIOUS
    <2>3. [there |-> FALSE, text |-> << >>] \in [there : BOOLEAN, text : Seq(Blocks)]
      OBVIOUS
    <2> QED BY <2>1, <2>2, <2>3 DEF writeFile
  <1>3. disk \in [Path -> [there : BOOLEAN, text : Seq(Blocks)]]
    BY DEF FilesInv, FilesTypeOK
  <1>4. disk' \in [Path -> [there : BOOLEAN, text : Seq(Blocks)]]
    BY <1>2, <1>3
  <1>5. \A q \in Path : q # p => disk'[q] = disk[q]
    BY <1>2, <1>3
  <1>6. CallTypeOK'
    BY <1>1, <1>4 DEF CallTypeOK, FilesInv, FilesTypeOK
  <1>7. LoadTypeOK' /\ ContTypeOK'
    BY <1>1 DEF LoadTypeOK, ContTypeOK, FilesInv, FilesTypeOK, ContainerState
  <1>8. LoadInv'
    <2>1. LoadInv
      BY DEF FilesInv
    <2>2. load.pc # "idle" /\ load.path \notin Volatile => disk'[load.path] = disk[load.path]
      BY <1>1, <1>5, <2>1 DEF LoadInv, InUse
    <2> QED BY <1>1, <2>1, <2>2 DEF LoadInv, PathOf
  <1>9. ASSUME NEW c \in Container PROVE BufferInv(c)'
    <2>1. BufferInv(c) /\ PathOf(c) \in Path
      BY PathIsPath DEF FilesInv
    <2>2. cont[c].buf.kind # "none" /\ PathOf(c) \notin Volatile => disk'[PathOf(c)] = disk[PathOf(c)]
      BY <1>1, <1>5, <2>1 DEF InUse
    <2> QED BY <1>1, <2>1, <2>2 DEF BufferInv, PathOf
  <1> QED BY <1>6, <1>7, <1>8, <1>9, InvariantParts

(* The containers whose text a step may not change.                        *)
TextStays(c) ==
  cont[c].buf.kind # "none" /\ ~(call.c = c /\ load.pc = "ready") =>
    cont'[c].buf.text = cont[c].buf.text

(* A call that finds its buffer in place parses it there.                  *)
LEMMA ParsingInPlace ==
  ASSUME FilesInv, NEW c \in Container, cont[c].seen, call.op = "none",
         parse(c, cont[c].buf, TextOf(c)), UNCHANGED << load, call, Immutable >>
  PROVE  FilesInv' /\ disk' = disk /\ \A d \in Container : TextStays(d)
  <1>1. PICK b \in Buffer : b = cont[c].buf /\ Fits(c, b) /\ TextOf(c) = b.text
    BY OwnBufferFits
  <1>2. /\ disk' = disk /\ answer' \in Answers
        /\ ContTypeOK' /\ \A d \in Container : BufferInv(d)'
        /\ OnlyTouches(c) /\ cont'[c].buf.text = b.text
    BY <1>1, ParsingIsSafe
  <1>3. CallTypeOK' /\ LoadTypeOK'
    BY <1>2 DEF FilesInv, FilesTypeOK, CallTypeOK, LoadTypeOK
  <1>4. LoadInv'
    <2>1. LoadInv
      BY DEF FilesInv
    <2> QED BY <1>2, <2>1 DEF LoadInv, PathOf
  <1>5. FilesInv'
    BY <1>2, <1>3, <1>4, InvariantParts
  <1> QED BY <1>1, <1>2, <1>5 DEF OnlyTouches, TextStays

(* A call that only has an answer to give.                                 *)
LEMMA OnlyAnswering ==
  ASSUME FilesInv, UNCHANGED << disk, load, cont, call, Immutable >>, answer' \in Answers
  PROVE  FilesInv' /\ disk' = disk /\ \A d \in Container : TextStays(d)
  <1>1. CallTypeOK' /\ LoadTypeOK' /\ ContTypeOK'
    BY DEF FilesInv, FilesTypeOK, CallTypeOK, LoadTypeOK, ContTypeOK, ContainerState
  <1>2. LoadInv'
    <2>1. LoadInv
      BY DEF FilesInv
    <2> QED BY <2>1 DEF LoadInv, PathOf
  <1>3. ASSUME NEW c \in Container PROVE BufferInv(c)'
    <2>1. BufferInv(c)
      BY DEF FilesInv
    <2> QED BY <2>1 DEF BufferInv, PathOf
  <1>4. FilesInv'
    BY <1>1, <1>2, <1>3, InvariantParts
  <1> QED BY <1>4 DEF TextStays

(* The calls of the program.                                               *)
LEMMA ProgramIsSafe ==
  ASSUME FilesInv, Program
  PROVE  FilesInv' /\ disk' = disk /\ \A d \in Container : TextStays(d)
  <1>1. Immutable' = Immutable
    BY DEF Program
  <1>2. ASSUME NEW p \in Path, cachedRef(p)
        PROVE  FilesInv' /\ disk' = disk /\ \A d \in Container : TextStays(d)
    <2>1. UNCHANGED << disk, load, cont, call >> /\ answer' \in Answers
      BY <1>2 DEF cachedRef, Answers
    <2> QED BY <1>1, <2>1, OnlyAnswering
  <1>3. ASSUME NEW p \in Path, cachedDocument(p)
        PROVE  FilesInv' /\ disk' = disk /\ \A d \in Container : TextStays(d)
    <2>1. /\ p \in Container /\ cont[p].seen /\ call.op = "none"
          /\ parse(p, cont[p].buf, TextOf(p)) /\ UNCHANGED << load, call, Immutable >>
      BY <1>1, <1>3 DEF cachedDocument, Idle, Container
    <2> QED BY <2>1, ParsingInPlace
  <1>4. ASSUME NEW p \in Path, NEW volatile \in Flag(p),
               NEW op \in {"getXMLRef", "getXMLDocument"}, newRef(op, p, volatile)
        PROVE  FilesInv' /\ disk' = disk /\ \A d \in Container : TextStays(d)
    <2>1. /\ p \in Container /\ ~cont[p].seen /\ beginLoad(op, p, volatile)
          /\ cont' = [cont EXCEPT ![p].seen = TRUE]
      BY <1>4 DEF newRef, Container
    <2>2. ~cont[p].parsed
      BY <2>1 DEF FilesInv, BufferInv
    <2>3. PathOf(p) = p
      BY XMLFilesAssumption DEF PathOf
    <2>4. FilesInv' /\ disk' = disk /\ \A d \in Container : cont'[d].buf = cont[d].buf
      BY <1>1, <2>1, <2>2, <2>3, BeginningIsSafe
    <2> QED BY <2>4 DEF TextStays
  <1>5. ASSUME NEW volatile \in Flag(OwnPath), loadAndParse(volatile)
        PROVE  FilesInv' /\ disk' = disk /\ \A d \in Container : TextStays(d)
    <2>1. Own \in Container /\ PathOf(Own) = OwnPath /\ call.op = "none"
      BY <1>5 DEF loadAndParse, Idle, Container, PathOf
    <2>2. CASE cont[Own].parsed
      <3>1. UNCHANGED << disk, load, cont, call >> /\ answer' \in Answers
        BY <1>5, <2>2 DEF loadAndParse, Answers
      <3> QED BY <1>1, <3>1, OnlyAnswering
    <2>3. CASE ~cont[Own].parsed /\ (volatile \/ cont[Own].buf.kind = "none")
      <3>1. /\ beginLoad("loadAndParse", Own, volatile)
            /\ cont' = [cont EXCEPT ![Own].seen = TRUE]
        BY <1>5, <2>3 DEF loadAndParse
      <3>2. FilesInv' /\ disk' = disk /\ \A d \in Container : cont'[d].buf = cont[d].buf
        BY <1>1, <2>1, <2>3, <3>1, BeginningIsSafe
      <3> QED BY <3>2 DEF TextStays
    <2>4. CASE ~cont[Own].parsed /\ ~volatile /\ cont[Own].buf.kind # "none"
      <3>1. parse(Own, cont[Own].buf, TextOf(Own)) /\ UNCHANGED << load, call >>
        BY <1>5, <2>4 DEF loadAndParse
      <3>2. cont[Own].seen
        BY <2>1, <2>4 DEF FilesInv, BufferInv
      <3> QED BY <1>1, <2>1, <3>1, <3>2, ParsingInPlace
    <2> QED BY <2>2, <2>3, <2>4
  <1>6. ASSUME LoadStep \/ ReadFails, UNCHANGED << cont, call, answer >>
        PROVE  FilesInv' /\ disk' = disk /\ \A d \in Container : TextStays(d)
    <2>1. /\ disk' = disk /\ LoadTypeOK' /\ LoadInv'
          /\ load.pc # "idle" /\ load'.pc # "idle"
      BY <1>6, LoadStepSafe
    <2>2. CallTypeOK'
      BY <1>6, <2>1 DEF FilesInv, FilesTypeOK, CallTypeOK
    <2>3. ContTypeOK'
      BY <1>6 DEF FilesInv, FilesTypeOK, ContTypeOK, ContainerState
    <2>4. ASSUME NEW c \in Container PROVE BufferInv(c)'
      <3>1. BufferInv(c)
        BY DEF FilesInv
      <3> QED BY <1>1, <1>6, <2>1, <3>1 DEF BufferInv, PathOf
    <2>5. FilesInv'
      BY <2>1, <2>2, <2>3, <2>4, InvariantParts
    <2> QED BY <1>6, <2>1, <2>5 DEF TextStays
  <1>7. ASSUME loadDone
        PROVE  FilesInv' /\ disk' = disk /\ \A d \in Container : TextStays(d)
    <2>1. load.pc = "ready"
      BY <1>7 DEF loadDone
    <2>2. FilesInv' /\ disk' = disk /\ OnlyTouches(call.c)
      BY <1>1, <1>7, DoneIsSafe
    <2> QED BY <2>1, <2>2 DEF OnlyTouches, TextStays
  <1>8. ASSUME loadFailed
        PROVE  FilesInv' /\ disk' = disk /\ \A d \in Container : TextStays(d)
    <2>1. FilesInv' /\ disk' = disk /\ cont' = cont
      BY <1>1, <1>8, FailingIsSafe
    <2> QED BY <2>1 DEF TextStays
  <1> QED
    BY <1>2, <1>3, <1>4, <1>5, <1>6, <1>7, <1>8 DEF Program, Proceed, getXMLRef, getXMLDocument

(* At first no file is there and no container has been asked for.          *)
LEMMA FilesInvInit ==
  ASSUME FilesInit
  PROVE  FilesInv
  <1>1. load = NoLoad /\ call = NoCall /\ answer = "none"
    BY DEF FilesInit
  <1>2. << >> \in FileText /\ Len(<< >>) = 0 /\ << >> \in Seq(Blocks)
    BY DEF FileText
  <1>3. NoBuffer \in Buffer /\ NoBuffer.kind = "none" /\ NoBuffer.torn = 0 /\ NoBuffer.text = << >>
    BY <1>2 DEF NoBuffer, Buffer
  <1>4. cont \in [Container -> [seen : BOOLEAN, buf : Buffer, parsed : BOOLEAN, doc : FileText]]
    BY <1>2, <1>3 DEF FilesInit
  <1>5. disk \in [Path -> [there : BOOLEAN, text : Seq(Blocks)]]
    BY <1>2 DEF FilesInit
  <1>6. \A c \in Container : cont[c].buf = NoBuffer /\ ~cont[c].parsed
    BY DEF FilesInit
  <1>7. call \in Call /\ call.op = "none" /\ load.pc = "idle"
    BY <1>1, NoLoadIsLoad DEF NoCall, Call, Container
  <1>8. FilesTypeOK
    BY <1>1, <1>2, <1>3, <1>4, <1>5, <1>6, <1>7, NoLoadIsLoad DEF FilesTypeOK, Answers
  <1>9. LoadInv
    BY <1>1, NoLoadIsLoad DEF LoadInv
  <1>10. \A c \in Container : BufferInv(c)
    BY <1>3, <1>6, <1>7 DEF BufferInv
  <1> QED BY <1>8, <1>9, <1>10 DEF FilesInv

(* Every step keeps the invariant and leaves the texts alone.              *)
LEMMA FilesInvNext ==
  ASSUME FilesInv, [FilesNext]_fileVars
  PROVE  FilesInv' /\ \A d \in Container : TextStays(d)
  <1>1. CASE Program
    BY <1>1, ProgramIsSafe
  <1>2. CASE \E p \in Path : writeFile(p) /\ ~Program
    <2>1. FilesInv' /\ cont' = cont
      BY <1>2, WritingIsSafe DEF writeFile
    <2> QED BY <1>2, <2>1 DEF TextStays
  <1>3. CASE UNCHANGED fileVars
    <2>1. answer' \in Answers /\ UNCHANGED << disk, load, cont, call, Immutable >>
      BY <1>3 DEF fileVars, FilesInv, FilesTypeOK
    <2> QED BY <2>1, OnlyAnswering
  <1> QED BY <1>1, <1>2, <1>3 DEF FilesNext

-----------------------------------------------------------------------------
(* The theorems                                                            *)

(* The invariant of every reachable state.                                 *)
THEOREM FilesInvariant == FilesSpec => []FilesInv
  <1>1. FilesInit => FilesInv
    BY FilesInvInit
  <1>2. FilesInv /\ [FilesNext]_fileVars => FilesInv'
    BY FilesInvNext
  <1> QED BY <1>1, <1>2, PTL DEF FilesSpec

(* A load never reads past the buffer whose size was taken when the file   *)
(* was opened, and no terminator lies behind a text.                       *)
THEOREM FilesTypeCorrect == FilesSpec => []FilesTypeOK
  <1>1. FilesInv => FilesTypeOK
    BY DEF FilesInv
  <1> QED BY <1>1, FilesInvariant, PTL

(* init()'s assertion never fails: only a file that keeps still is mapped, *)
(* and never one that ends with its last page.                             *)
THEOREM EveryTextTerminated == FilesSpec => []Terminated
  <1>1. FilesInv => Terminated
    BY DEF FilesInv, LoadInv, Terminated
  <1> QED BY <1>1, FilesInvariant, PTL

(* The nodes of a parsed document are views of the text of its buffer, as  *)
(* long as the container lives.                                            *)
THEOREM DocumentsAreViews == FilesSpec => []ViewsStayValid
  <1>1. FilesInv => ViewsStayValid
    <2> SUFFICES ASSUME FilesInv, NEW c \in Container, cont[c].parsed
                 PROVE  /\ cont[c].buf.kind # "none" /\ cont[c].doc = NodesIn(TextOf(c))
                        /\ GoodNodes(cont[c].doc) = Len(cont[c].doc)
                        /\ Immutable \/ cont[c].buf.torn = Len(cont[c].doc)
      BY DEF ViewsStayValid
    <2>1. TextOf(c) = cont[c].buf.text
      BY TextIsBuffer
    <2> QED BY <2>1 DEF FilesInv, BufferInv
  <1> QED BY <1>1, FilesInvariant, PTL

(* The document of a file that keeps still is its whole text: no read is   *)
(* lost or repeated, and no half-parsed buffer is parsed again.            *)
THEOREM DocumentsAreWhole == FilesSpec => []WholeFileParsed
  <1>1. FilesInv => WholeFileParsed
    <2> SUFFICES ASSUME FilesInv, NEW p \in Path \ Volatile, cont[p].parsed
                 PROVE  cont[p].doc = disk[p].text
      BY DEF WholeFileParsed
    <2>1. p \in Container /\ PathOf(p) = p
      BY XMLFilesAssumption DEF Container, PathOf
    <2>2. cont[p].doc = NodesIn(cont[p].buf.text) /\ cont[p].buf.text = disk[p].text
      BY <2>1 DEF FilesInv, BufferInv
    <2>3. disk[p].text \in Seq(Blocks)
      BY DEF FilesInv, FilesTypeOK
    <2> QED BY <2>2, <2>3, WholeText
  <1> QED BY <1>1, FilesInvariant, PTL

(* A text changes only when a load brings another: what happens to the     *)
(* file beneath, and what is parsed elsewhere, does not reach it.          *)
THEOREM TextsAreStable == FilesSpec => TextsKeepStill
  <1>1. \A c \in Container : FilesInv => TextOf(c) = cont[c].buf.text
    BY TextIsBuffer
  <1>2. (\A c \in Container : FilesInv => TextOf(c) = cont[c].buf.text)'
    BY <1>1, PTL
  <1>3. FilesInv /\ [FilesNext]_fileVars =>
          [\A c \in Container :
             cont[c].buf.kind # "none" /\ ~(call.c = c /\ load.pc = "ready")
               => TextOf(c)' = TextOf(c)]_fileVars
    <2> SUFFICES ASSUME FilesInv, [FilesNext]_fileVars, NEW c \in Container,
                        cont[c].buf.kind # "none", ~(call.c = c /\ load.pc = "ready")
                 PROVE  TextOf(c)' = TextOf(c)
      OBVIOUS
    <2>1. FilesInv' /\ TextStays(c)
      BY FilesInvNext
    <2>2. TextOf(c) = cont[c].buf.text
      BY <1>1
    <2>3. TextOf(c)' = cont'[c].buf.text
      BY <1>2, <2>1 DEF Container
    <2> QED BY <2>1, <2>2, <2>3 DEF TextStays
  <1> QED BY <1>3, FilesInvariant, PTL DEF FilesSpec, TextsKeepStill
=============================================================================
