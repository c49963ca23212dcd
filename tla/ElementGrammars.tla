--------------------------- MODULE ElementGrammars --------------------------
(***************************************************************************)
(* What the built-in grammar promises: the documents a schemaless stream   *)
(* may hold, and the event code each event has in each state.  The         *)
(* productions are those of the table in BuiltinSchema.cpp ("The           *)
(* transitions for schemaless encodings"), extended with the productions   *)
(* an element learns while it is used.                                     *)
(*                                                                         *)
(* A state of the document has three levels of productions.  The code of a *)
(* production is its index in its level, after the escape of every level   *)
(* before it; an index takes as many bits as its level has alternatives,   *)
(* so an empty level takes none and is in effect pruned.                   *)
(***************************************************************************)
EXTENDS Naturals, Sequences, FiniteSets, Log2

CONSTANTS
  QName,         \* the qualified names
  None,          \* no name
  OptionSets,    \* which of the options CM, PI, DTD, NS, SC may be on together
  StartContent,  \* the terms that may come first after a start tag
  MaxDepth,      \* bounds the nesting
  MaxLearned     \* bounds the productions learned in one document

VARIABLES
  Preserve,      \* the optional productions of this document
  phase,         \* where in the document: see Phases
  stack,         \* the open elements: a name, and whether in the start tag
  learned,       \* per element name: what it learned, most recent first
  last           \* the last event and its code

docVars == << Preserve, phase, stack, learned, last >>

Phases == {"Document", "DocContent", "Element", "DocEnd", "Ended"}

Prod(t, n) == [term |-> t, name |-> n]
If(option, p) == IF option \in Preserve THEN << p >> ELSE << >>
Any(t) == Prod(t, None)

(***************************************************************************)
(* The table                                                               *)
(***************************************************************************)

Top == stack[Len(stack)]

CMPI == If("CM", Any("CM")) \o If("PI", Any("PI"))
ChildContentItems == << Any("SE"), Any("CH") >> \o If("DTD", Any("ER"))

StartTagLevels(list) ==
  << list,
     << Any("EE"), Any("AT") >> \o If("NS", Any("NS")) \o If("SC", Any("SC"))
       \o ChildContentItems,
     CMPI >>
ElementLevels(list) == << list \o << Any("EE") >>, ChildContentItems, CMPI >>

Levels ==
  CASE phase = "Document"   -> << << Any("SD") >>, << >>, << >> >>
    [] phase = "DocContent" -> << << Any("SE") >>, If("DTD", Any("DT")), CMPI >>
    [] phase = "DocEnd"     -> << << Any("ED") >>, CMPI, << >> >>
    [] phase = "Element"    -> IF Top.inStart
                               THEN StartTagLevels(learned[Top.name].start)
                               ELSE ElementLevels(learned[Top.name].content)
    [] phase = "Ended"      -> << << >>, << >>, << >> >>

(***************************************************************************)
(* Event codes                                                             *)
(***************************************************************************)

Bits(v, w) == [i \in 1 .. w |-> (v \div Pow2[w - i]) % 2]

Matches(p, e) == p.term = e.term /\ p.name \in {None, e.name}

(* The first production of the levels ls, by level and then by index, for  *)
(* an event.                                                               *)
Places(ls, e) ==
  {p \in UNION {{lv} \X (1 .. Len(ls[lv])) : lv \in 1 .. 3} : Matches(ls[p[1]][p[2]], e)}
Place(ls, e) ==
  CHOOSE p \in Places(ls, e) :
    \A r \in Places(ls, e) : p[1] < r[1] \/ (p[1] = r[1] /\ p[2] <= r[2])

Width(ls, lv) ==
  CeilLog2(Len(ls[lv]) + IF \E k \in lv + 1 .. 3 : ls[k] # << >> THEN 1 ELSE 0)

Code(ls, e) ==
  LET p == Place(ls, e)
      Part(lv) == IF lv < p[1] THEN Bits(Len(ls[lv]), Width(ls, lv))
                  ELSE IF lv = p[1] THEN Bits(p[2] - 1, Width(ls, lv))
                  ELSE << >>
  IN Part(1) \o Part(2) \o Part(3)

(***************************************************************************)
(* Events                                                                  *)
(***************************************************************************)

LearnedCount ==
  Cardinality(UNION {({q} \X {"start"} \X (1 .. Len(learned[q].start)))
                       \union ({q} \X {"content"} \X (1 .. Len(learned[q].content))) :
                     q \in QName})

(* The name an event is reported with: that of the element for CH and EE.  *)
Names(t) ==
  IF t \in {"SE", "AT"} THEN QName
  ELSE IF t \in {"CH", "EE"} THEN {Top.name}
  ELSE {None}

(* An event of an element that is found on the second level is learned.    *)
Learns(ls, e) ==
  /\ phase = "Element" /\ e.term \in {"SE", "AT", "CH", "EE"}
  /\ Place(ls, e)[1] = 2

(* The events a document may have next. *)
Terms == {"SD", "SE", "EE", "AT", "CH", "NS", "SC", "ER", "CM", "PI", "DT", "ED"}
Events ==
  LET ls == Levels
      possible == UNION {[term : {t}, name : Names(t)] :
                    t \in IF phase = "Element" THEN Terms ELSE Terms \ {"CH", "EE"}}
  IN {e \in possible :
        /\ Places(ls, e) # {}
        /\ e.term = "SE" => Len(stack) < MaxDepth
        /\ Learns(ls, e) => LearnedCount < MaxLearned
        /\ phase = "Element" /\ Top.inStart => e.term \in StartContent}

Learn(e) ==
  IF ~Learns(Levels, e) THEN learned
  ELSE LET p == Prod(e.term, IF e.term \in {"SE", "AT"} THEN e.name ELSE None)
       IN IF Top.inStart
          THEN [learned EXCEPT ![Top.name].start = << p >> \o @]
          ELSE [learned EXCEPT ![Top.name].content = << p >> \o @]

(* The element on top leaves its start tag. *)
InContent == IF stack = << >> THEN stack ELSE [stack EXCEPT ![Len(stack)].inStart = FALSE]
Pop == SubSeq(stack, 1, Len(stack) - 1)

NextStack(e) ==
  CASE e.term = "SE" -> Append(InContent, [name |-> e.name, inStart |-> TRUE])
    [] e.term = "EE" -> Pop
    [] e.term \in {"CH", "ER"} -> InContent
    [] e.term \in {"CM", "PI"} -> InContent
    [] OTHER -> stack

NextPhase(e) ==
  CASE e.term = "SD" -> "DocContent"
    [] e.term = "SE" -> "Element"
    [] e.term = "EE" -> IF Pop = << >> THEN "DocEnd" ELSE "Element"
    [] e.term \in {"ED", "SC"} -> "Ended"      \* self-contained elements are unsupported
    [] OTHER -> phase

Init ==
  /\ Preserve \in OptionSets
  /\ phase = "Document"
  /\ stack = << >>
  /\ learned = [q \in QName |-> [start |-> << >>, content |-> << >>]]
  /\ last = [term |-> "none", name |-> None, code |-> << >>]

Event(e) ==
  /\ UNCHANGED Preserve
  /\ phase' = NextPhase(e)
  /\ stack' = NextStack(e)
  /\ learned' = Learn(e)
  /\ last' = [term |-> e.term, name |-> e.name, code |-> Code(Levels, e)]

(* The content of an event cannot be read: the document stops there. *)
Abort ==
  /\ phase # "Ended"
  /\ phase' = "Ended"
  /\ last' = [term |-> "none", name |-> None, code |-> << >>]
  /\ UNCHANGED << Preserve, stack, learned >>

Next == (\E e \in Events : Event(e)) \/ Abort

Spec == Init /\ [][Next]_docVars
=============================================================================
