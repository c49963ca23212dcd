---------------------------- MODULE BuiltinSchema ---------------------------
(***************************************************************************)
(* DynBuiltinSchema (lib/exi/Grammar/Decode/BuiltinSchema.cpp) with the    *)
(* BuiltinGrammar of each element (include/exi/Grammar/Grammar.hpp): the   *)
(* state machine that turns event codes into events.                       *)
(*                                                                         *)
(* A step is one call of decode() on the code of the next event of a       *)
(* document.  The documents, and the code each event has, are those of     *)
(* ElementGrammars; the decoder sees the bits and nothing else.            *)
(***************************************************************************)
EXTENDS Naturals, Sequences, FiniteSets, Log2

CONSTANTS
  QName,         \* the qualified names
  None,          \* no name: SmallQName::NewAny()
  OptionSets,    \* the option sets: each some of CM, PI, DTD, NS, SC
  StartContent,  \* the terms documents put first after a start tag
  MaxDepth, MaxLearned   \* bounds on the documents

ASSUME BuiltinSchemaAssumption ==
  /\ None \notin QName /\ IsFiniteSet(QName)
  /\ OptionSets \subseteq SUBSET {"CM", "PI", "DTD", "NS", "SC"}
  /\ MaxDepth \in Nat /\ MaxLearned \in Nat

VARIABLES
  Preserve,    \* the options that add productions
  Current,     \* the grammar state
  GStack,      \* the open elements: the name of a grammar, and its IsStart bit
  Grammars,    \* the grammars made so far, by name
  loop,        \* decodeBody's loop: running, done or failed
  sent,        \* history: the last event of the document and its code
  out          \* history: the event decode() returned and the bits it read

schemaVars == << Preserve, Current, GStack, Grammars, loop, sent, out >>

(***************************************************************************)
(* The Builder: the terms of the four grammars one after another, and for  *)
(* each grammar its offset, how many codes each level has and their bits.  *)
(***************************************************************************)

If(option, t) == IF option \in Preserve THEN << t >> ELSE << >>
One(option) == IF option \in Preserve THEN 1 ELSE 0

CMPITerms == If("CM", "CM") \o If("PI", "PI")
(* A variant that counts both when either is preserved. *)
NumCMPIBoth == IF CMPITerms = << >> THEN 0 ELSE 2
NumCMPI == One("CM") + One("PI")
CCTerms == << "SE", "CH" >> \o If("DTD", "ER") \o CMPITerms

GrammarTerms ==
  [DocContent |-> << "SE" >> \o If("DTD", "DT") \o CMPITerms,
   DocEnd |-> << "ED" >> \o CMPITerms,
   StartTagContent |-> << "EE", "AT" >> \o If("NS", "NS") \o If("SC", "SC") \o CCTerms,
   ElementContent |-> << "EE" >> \o CCTerms]

AllTerms == GrammarTerms.DocContent \o GrammarTerms.DocEnd
              \o GrammarTerms.StartTagContent \o GrammarTerms.ElementContent
Offset ==
  LET n1 == Len(GrammarTerms.DocContent)
      n2 == n1 + Len(GrammarTerms.DocEnd)
      n3 == n2 + Len(GrammarTerms.StartTagContent)
  IN [DocContent |-> 0, DocEnd |-> n1, StartTagContent |-> n2, ElementContent |-> n3]

EmptyCode == [Data |-> << 0, 0, 0 >>, Length |-> 1]
Inc(c, n) == [c EXCEPT !.Data[c.Length] = @ + n]
NextLevel(c) == IF c.Length < 3 THEN [c EXCEPT !.Length = @ + 1] ELSE c
IncNext(c) == NextLevel(Inc(c, 1))

addCMPI(c) == IF NumCMPI = 0 THEN c ELSE Inc(IncNext(c), NumCMPI)
addCCItems(c) == addCMPI(Inc([c EXCEPT !.Length = 2], 2 + One("DTD")))

(* CalculateLog without its table of bits: empty last levels are dropped. *)
Pruned(c) ==
  LET c1 == IF c.Length = 3 /\ c.Data[3] = 0 THEN [c EXCEPT !.Length = 2] ELSE c
  IN IF c1.Length >= 2 /\ c1.Data[2] = 0
     THEN [Data |-> << c1.Data[1], c1.Data[3], 0 >>, Length |-> c1.Length - 1]
     ELSE c1

SmallLog2 == << 0, 0, 1, 2, 2, 3, 3, 3, 3, 4 >>

Info ==
  [DocContent |->
     Pruned(addCMPI(LET c == Inc(EmptyCode, 1)
                    IN IF "DTD" \in Preserve THEN Inc(IncNext(c), 1) ELSE c)),
   DocEnd |-> Pruned(addCMPI(Inc(EmptyCode, 1))),
   StartTagContent |-> Pruned(addCCItems(
     Inc(NextLevel(EmptyCode), 2 + One("NS") + One("SC")))),
   ElementContent |-> Pruned(addCCItems(Inc(EmptyCode, 2)))]

(***************************************************************************)
(* Reading a code                                                          *)
(***************************************************************************)

(* n bits of s after the first pos.  Past the code come the bits of the    *)
(* event's content, which may be anything; 0 stands for them.              *)
BitAt(s, i) == IF i <= Len(s) THEN s[i] ELSE 0
readBits64(s, pos, n) ==
  LET val[i \in 0 .. n] == IF i = 0 THEN 0 ELSE 2 * val[i - 1] + BitAt(s, pos + i)
  IN val[n]

createDecodedTerm(at) == AllTerms[Offset[Current] + at + 1]

(* The levels from Start on, stopping at the first that is not an escape.  *)
DecodeLevels(s, pos, start, at) ==
  LET C == Info[Current]
      walk[ix \in start .. C.Length] ==
        IF ix = start THEN [at |-> at, pos |-> pos, stop |-> FALSE]
        ELSE LET w == walk[ix - 1]
                 bits == SmallLog2[C.Data[ix] + 1]
                 data == readBits64(s, w.pos, bits)
             IN IF w.stop THEN w
                ELSE [at |-> w.at + data, pos |-> w.pos + bits,
                      stop |-> data # C.Data[ix] - 1]
  IN walk[C.Length]

decodeTerm(s, pos, start, at) ==
  LET C == Info[Current]
      first == IF start = 0 /\ C.Data[1] = 0 THEN 1 ELSE start
      w == DecodeLevels(s, pos, first, at)
  IN IF start = 1 /\ C.Data[1] # 0 /\ at # C.Data[1] - 1
     THEN [term |-> createDecodedTerm(at), name |-> None, used |-> pos]
     ELSE [term |-> createDecodedTerm(w.at), name |-> None, used |-> w.pos]

(***************************************************************************)
(* BuiltinGrammar                                                          *)
(***************************************************************************)

NewGrammar == [StartTag |-> << >>, StartTagLog |-> 0, Element |-> << >>, ElementLog |-> 1]

addTerm(g, ev, isStart) ==
  IF isStart
  THEN [g EXCEPT !.StartTag = Append(@, ev), !.StartTagLog = CeilLog2(Len(g.StartTag) + 2)]
  ELSE [g EXCEPT !.Element = Append(@, ev), !.ElementLog = CeilLog2(Len(g.Element) + 3)]

Back == GStack[Len(GStack)]

(* getTerm, and on a miss the code goes on in the schema's own grammar.    *)
decodeTermGrammar(s) ==
  LET g == Grammars[Back.name]
      elts == IF Back.int THEN g.StartTag ELSE g.Element
      bits == IF Back.int THEN g.StartTagLog ELSE g.ElementLog
      o == readBits64(s, 0, bits)
  IN IF o < Len(elts)
     THEN [term |-> elts[Len(elts) - o].term, name |-> elts[Len(elts) - o].name,
           used |-> bits]
     ELSE decodeTerm(s, bits, 1, o - Len(elts))

(***************************************************************************)
(* Events.  s is the code of the next event and q the name in its content, *)
(* for the events that read one; ok says whether the content can be read.  *)
(***************************************************************************)

Return(term, name, used) ==
  /\ out' = [term |-> term, name |-> name, used |-> used]
  /\ loop' = CASE term = "ED" -> "done"
               [] term = "SC" -> "failed"          \* kUnimplemented
               [] term = "unreachable" -> "trap"
               [] OTHER -> "running"

(* A null event: decodeEvent returns kInvalidEXIInput. *)
ReturnNull(used) ==
  /\ out' = [term |-> "Null", name |-> None, used |-> used]
  /\ loop' = "failed"
  /\ UNCHANGED << Current, GStack, Grammars >>

isStart == Current = "StartTagContent"
Learn(gs, ev) == [gs EXCEPT ![Back.name] = addTerm(@, ev, isStart)]
Stored(t, n) == [term |-> t, name |-> n]

(* A variant that makes the grammar without entering it in the map.        *)
loadGrammarUnmapped(q) == Grammars

(* makeGrammar on a cache miss. *)
loadGrammar(q) ==
  [x \in DOMAIN Grammars \union {q} |->
     IF x \in DOMAIN Grammars THEN Grammars[x] ELSE NewGrammar]

(* A variant that adds the term to the grammar of the element it opens.    *)
handleSEQNameLate(q, used, known) ==
  /\ Grammars' = IF known THEN loadGrammar(q)
                 ELSE [loadGrammar(q) EXCEPT ![q] = addTerm(@, Stored("SEQName", q), isStart)]
  /\ Current' = "StartTagContent"
  /\ GStack' = Append(GStack, [name |-> q, int |-> TRUE])
  /\ Return(IF q \in DOMAIN Grammars THEN "SEQName" ELSE "SE", q, used)

handleSEQName(q, used, known) ==
  /\ Grammars' = IF known THEN loadGrammar(q)
                 ELSE Learn(loadGrammar(q), Stored("SEQName", q))
  /\ Current' = "StartTagContent"
  /\ GStack' = Append(GStack, [name |-> q, int |-> TRUE])
  /\ Return(IF q \in DOMAIN Grammars THEN "SEQName" ELSE "SE", q, used)

handleSE(q, ok, used, isRoot) ==
  IF ok THEN handleSEQName(q, used, isRoot) ELSE ReturnNull(used)

(* A variant that leaves the IsStart bit of the parent as it was.          *)
PopStale ==
  LET rest == SubSeq(GStack, 1, Len(GStack) - 1)
  IN /\ Current' = IF rest = << >> THEN "DocEnd" ELSE "ElementContent"
     /\ GStack' = rest

(* handleEE: the parent goes on in its content. *)
PopGrammar ==
  LET rest == SubSeq(GStack, 1, Len(GStack) - 1)
  IN /\ Current' = IF rest = << >> THEN "DocEnd" ELSE "ElementContent"
     /\ GStack' = IF rest = << >> THEN rest
                  ELSE [rest EXCEPT ![Len(rest)].int = FALSE]

handleEE(used) ==
  /\ PopGrammar
  /\ Return("EE", Back.name, used)
  /\ UNCHANGED Grammars

handleEEStartTag(name, used) ==
  /\ PopGrammar
  /\ Return("EE", Back.name, used)
  /\ Grammars' = IF name # None THEN Grammars
                 ELSE Learn(Grammars, Stored("EE", Back.name))

handleATQName(q, used, cached) ==
  /\ Grammars' = IF cached THEN Grammars ELSE Learn(Grammars, Stored("ATQName", q))
  /\ Return(IF cached THEN "ATQName" ELSE "AT", q, used)
  /\ UNCHANGED << Current, GStack >>

handleAT(q, ok, used) ==
  IF ok THEN handleATQName(q, used, FALSE) ELSE ReturnNull(used)

(* A variant that learns CH(untyped) every time. *)
handleCHAgain(ok, used, cached) ==
  IF ~ok THEN ReturnNull(used)
  ELSE /\ Grammars' = Learn(Grammars, Stored("CHExtern", None))
       /\ Current' = "ElementContent"
       /\ GStack' = [GStack EXCEPT ![Len(GStack)].int = FALSE]
       /\ Return(IF cached THEN "CHExtern" ELSE "CH", Back.name, used)

handleCH(ok, used, cached) ==
  IF ~ok THEN ReturnNull(used)
  ELSE /\ Grammars' = IF cached THEN Grammars ELSE Learn(Grammars, Stored("CHExtern", None))
       /\ Current' = "ElementContent"
       /\ GStack' = [GStack EXCEPT ![Len(GStack)].int = FALSE]
       /\ Return(IF cached THEN "CHExtern" ELSE "CH", Back.name, used)

(* ER, CM and PI leave the IsStart bit alone. *)
Uncommon(term, used) ==
  /\ Current' = "ElementContent"
  /\ Return(IF term \in {"ER", "CM", "PI"} THEN term ELSE "unreachable", None, used)
  /\ UNCHANGED << GStack, Grammars >>

handleSharedContent(d, q, ok) ==
  CASE d.term = "EE" -> handleEE(d.used)
    [] d.term = "SEQName" -> handleSEQName(d.name, d.used, TRUE)
    [] d.term = "SE" -> handleSE(q, ok, d.used, FALSE)
    [] d.term \in {"CH", "CHExtern"} -> handleCH(ok, d.used, d.term = "CHExtern")
    [] OTHER -> Uncommon(d.term, d.used)

(***************************************************************************)
(* The states                                                              *)
(***************************************************************************)

handleDocument ==
  /\ Current = "Document"
  /\ Current' = "DocContent"
  /\ Return("SD", None, 0)
  /\ UNCHANGED << GStack, Grammars >>

handleDocContent(s, q, ok) ==
  /\ Current = "DocContent"
  /\ LET d == decodeTerm(s, 0, 0, 0)
     IN IF d.term = "SE" THEN handleSE(q, ok, d.used, TRUE)
        ELSE /\ Return(IF d.term \in {"DT", "CM", "PI"} THEN d.term ELSE "unreachable",
                       None, d.used)
             /\ UNCHANGED << Current, GStack, Grammars >>

handleDocEnd(s) ==
  /\ Current = "DocEnd"
  /\ LET d == decodeTerm(s, 0, 0, 0)
     IN Return(IF d.term \in {"ED", "CM", "PI"} THEN d.term ELSE "unreachable",
               None, d.used)
  /\ UNCHANGED << Current, GStack, Grammars >>

handleStartTag(s, q, ok) ==
  /\ Current = "StartTagContent"
  /\ LET d == decodeTermGrammar(s)
     IN CASE d.term = "EE" -> handleEEStartTag(d.name, d.used)
          [] d.term = "AT" -> handleAT(q, ok, d.used)
          [] d.term = "ATQName" -> handleATQName(d.name, d.used, TRUE)
          [] d.term \in {"NS", "SC"} ->
               /\ Current' = IF d.term = "SC" THEN "Fragment" ELSE Current
               /\ Return(d.term, None, d.used)
               /\ UNCHANGED << GStack, Grammars >>
          [] OTHER -> handleSharedContent(d, q, ok)

handleElement(s, q, ok) ==
  /\ Current = "ElementContent"
  /\ handleSharedContent(decodeTermGrammar(s), q, ok)

(***************************************************************************)
(* The documents, read through the state of the decoder.                   *)
(***************************************************************************)

Kind(t) ==
  CASE t = "SEQName" -> "SE" [] t = "ATQName" -> "AT" [] t = "CHExtern" -> "CH"
    [] OTHER -> t
Production(ev) ==
  [term |-> Kind(ev.term), name |-> IF ev.term = "EE" THEN None ELSE ev.name]
Productions(list) ==
  [i \in 1 .. Len(list) |-> Production(list[Len(list) + 1 - i])]

docPhase ==
  IF loop # "running" THEN "Ended"
  ELSE IF Current \in {"StartTagContent", "ElementContent"} THEN "Element"
  ELSE Current
docStack ==
  [i \in 1 .. Len(GStack) |->
     [name |-> GStack[i].name,
      inStart |-> i = Len(GStack) /\ Current \in {"StartTagContent", "Fragment"}]]
docLearned ==
  [q \in QName |->
     IF q \in DOMAIN Grammars
     THEN [start |-> Productions(Grammars[q].StartTag),
           content |-> Productions(Grammars[q].Element)]
     ELSE [start |-> << >>, content |-> << >>]]
docLast ==
  IF out.term = "Null" THEN [term |-> "none", name |-> None, code |-> << >>]
  ELSE [term |-> Kind(out.term), name |-> out.name,
        code |-> [i \in 1 .. out.used |-> BitAt(sent.code, i)]]

Doc == INSTANCE ElementGrammars WITH
         phase <- docPhase, stack <- docStack, learned <- docLearned, last <- docLast

Init ==
  /\ Preserve \in OptionSets
  /\ Current = "Document"
  /\ GStack = << >>
  /\ Grammars = [q \in {} |-> NewGrammar]
  /\ loop = "running"
  /\ sent = [term |-> "none", name |-> None, code |-> << >>]
  /\ out = [term |-> "none", name |-> None, used |-> 0]

(* One round of decodeBody's loop. *)
decode(s, q, ok) ==
  \/ handleDocument
  \/ handleDocContent(s, q, ok)
  \/ handleDocEnd(s)
  \/ handleStartTag(s, q, ok)
  \/ handleElement(s, q, ok)

Next ==
  /\ loop = "running"
  /\ UNCHANGED Preserve
  /\ LET ls == Doc!Levels
     IN \E e \in Doc!Events, ok \in BOOLEAN :
          /\ sent' = [term |-> e.term, name |-> e.name, code |-> Doc!Code(ls, e)]
          /\ decode(Doc!Code(ls, e), e.name, ok)

Spec == Init /\ [][Next]_schemaVars

(***************************************************************************)
(* Properties                                                              *)
(***************************************************************************)

Grammar == {"Document", "DocContent", "DocEnd", "StartTagContent",
            "ElementContent", "Fragment"}
StoredEvent == [term : {"SEQName", "ATQName", "CHExtern", "EE"}, name : QName \union {None}]

(* The shape of the schema's members: every open element has a grammar.    *)
TypeOK ==
  /\ Current \in Grammar
  /\ GStack \in Seq([name : DOMAIN Grammars, int : BOOLEAN])
  /\ DOMAIN Grammars \subseteq QName
  /\ \A q \in DOMAIN Grammars :
       Grammars[q] \in [StartTag : Seq(StoredEvent), StartTagLog : Nat,
                        Element : Seq(StoredEvent), ElementLog : Nat]
  /\ loop \in {"running", "done", "failed"}

(* handleDocEnd's "invalid nesting" and handleDocContent's assertion: the  *)
(* stack is empty exactly outside the root element, and the IsStart bit of *)
(* the element on top agrees with the grammar state.                       *)
StackMatchesState ==
  /\ GStack = << >> <=> Current \in {"Document", "DocContent", "DocEnd"}
  /\ Current = "DocContent" => DOMAIN Grammars = {}
  /\ GStack # << >> /\ Current # "Fragment" =>
       (Back.int <=> Current = "StartTagContent")

(* No element learns a production twice, though elements of one name share *)
(* a grammar while they are nested in each other: a second copy would push *)
(* all later codes up by one (addTerm).                                    *)
LearnedOnce ==
  \A q \in DOMAIN Grammars :
    \A list \in {Grammars[q].StartTag, Grammars[q].Element} :
      \A i, j \in 1 .. Len(list) : list[i] = list[j] => i = j

(* What the table in BuiltinSchema.cpp says: the event decode() returns is *)
(* the one the table gives that code, and the code is read to its end.     *)
DecodesTheTable ==
  out.term # "Null" =>
    /\ Kind(out.term) = sent.term /\ out.name = sent.name
    /\ out.used = Len(sent.code)

(* The decoder follows the documented grammar, learned productions         *)
(* included, step by step.                                                 *)
ImplementsGrammar == Doc!Spec
=============================================================================
