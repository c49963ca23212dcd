------------------------------- MODULE XMLTree ------------------------------
(***************************************************************************)
(* The events of a body and the tree made of them: decodeEvent and the     *)
(* handlers of BodyDecoder.cpp, XMLSerializer, and the nodes of rapidxml   *)
(* they link.  A node is an address in the document's pool; 1 is the       *)
(* document itself and 0 is no node.                                       *)
(*                                                                         *)
(* A step is one round of decodeBody's loop.  Which event may come is the  *)
(* grammar's affair (BuiltinSchema); here its stack of open elements is    *)
(* enough.  Names and values are left out but for the memory they live in: *)
(* a node keeps views of characters that others own.                       *)
(***************************************************************************)
EXTENDS Naturals, Sequences, FiniteSets

CONSTANTS
  MaxNodes,    \* bounds the nodes of one document
  MaxAttrs,    \* bounds its attributes
  MaxDepth     \* bounds the nesting

ASSUME XMLTreeAssumption == MaxNodes \in Nat /\ MaxAttrs \in Nat /\ MaxDepth \in Nat

VARIABLES
  node,    \* the nodes of Doc by address
  attr,    \* the attributes of Doc by address
  Curr,    \* XMLSerializer::Curr, 0 before the first document
  Attr,    \* XMLSerializer::Attr
  phase,   \* where the grammar is: see Phases
  open,    \* the addresses of the open elements, innermost last
  loop,    \* decodeBody: running, or returned OK (done) or an error (failed)
  under,   \* history: the element each node's event was in
  text     \* history: the memory its name and value are in, and an attribute's

treeVars == << node, attr, Curr, Attr, phase, open, loop, under, text >>

Phases == {"Document", "DocContent", "StartTag", "Content", "DocEnd"}
Kinds == {"document", "element", "data", "comment", "pi", "doctype"}

(* Where the characters of a name or value are: with the decoder (in its   *)
(* string table or its pool BP), with one that another has taken over      *)
(* from, in the document's pool, or in the buffer of a handler, which is   *)
(* gone when the handler returns.  An empty string needs no memory.        *)
Memory == {"decoder", "former decoder", "pool", "handler"}

(***************************************************************************)
(* rapidxml                                                                *)
(***************************************************************************)

Blank == [kind |-> "document", parent |-> 0,
          first |-> 0, last |-> 0, prev |-> 0, next |-> 0]

allocate_node(ns, kind) == Append(ns, [Blank EXCEPT !.kind = kind])

(* The node just allocated becomes the last child of p. *)
append_node(ns, p) ==
  LET c == Len(ns)
      l == ns[p].last
  IN IF ns[p].first # 0
     THEN [ns EXCEPT ![c].prev = l, ![c].parent = p, ![l].next = c, ![p].last = c]
     ELSE [ns EXCEPT ![c].parent = p, ![p].first = c, ![p].last = c]

(* A variant that leaves the back link of the former first child.          *)
prepend_node_OneWay(ns, p) ==
  LET c == Len(ns)
      f == ns[p].first
  IN IF f # 0
     THEN [ns EXCEPT ![c].next = f, ![c].parent = p, ![p].first = c]
     ELSE [ns EXCEPT ![c].parent = p, ![p].first = c, ![p].last = c]

(* It becomes the first. *)
prepend_node(ns, p) ==
  LET c == Len(ns)
      f == ns[p].first
  IN IF f # 0
     THEN [ns EXCEPT ![c].next = f, ![c].parent = p, ![f].prev = c, ![p].first = c]
     ELSE [ns EXCEPT ![c].parent = p, ![p].first = c, ![p].last = c]

(* An attribute without a parent is turned away: the condition of the      *)
(* early return is that of the assertion before it.                        *)
append_attribute(as, a, p) ==
  IF as[a].parent = 0 THEN as ELSE [as EXCEPT ![a].parent = p]

(* XMLDocument::clear: the pool is emptied; m_last_node stays.             *)
ClearedNodes == << [node[1] EXCEPT !.first = 0] >>
ClearedText == [node |-> << {} >>, attr |-> << >>]

(***************************************************************************)
(* XMLSerializer                                                           *)
(***************************************************************************)

(* intern() copies a name with a prefix into the document's pool.          *)
FullName(prefixed) == IF prefixed THEN "pool" ELSE "decoder"

(* The views it is given are kept in the tree.                             *)
needsPersistence == TRUE

(* A variant that leaves Attr where it was.                                *)
SD_KeepsAttr ==
  /\ node' = ClearedNodes /\ under' = << 0 >> /\ text' = ClearedText
  /\ attr' = << >>
  /\ Curr' = 1
  /\ UNCHANGED Attr

(* A variant that forgets to clear the document.                           *)
SD_KeepsNodes == Curr' = 1 /\ Attr' = 0 /\ UNCHANGED << node, attr, under, text >>

SD ==
  /\ node' = ClearedNodes /\ under' = << 0 >> /\ text' = ClearedText
  /\ attr' = << >>
  /\ Curr' = 1
  /\ Attr' = 0

ED == Curr' = 1 /\ Attr' = 0 /\ UNCHANGED << node, attr, under, text >>

(* A variant that puts comments in front as well.                          *)
AddChild_CommentsFirst(kind, views) ==
  LET ns == allocate_node(node, kind)
  IN /\ node' = IF kind \in {"data", "comment"} THEN prepend_node(ns, Curr)
                ELSE append_node(ns, Curr)
     /\ under' = Append(under, IF open = << >> THEN 1 ELSE open[Len(open)])
     /\ text' = [text EXCEPT !.node = Append(@, views)]
     /\ UNCHANGED << attr, Attr >>

(* A child for the current node, with views of its name and value: its     *)
(* text goes in front of the others.                                       *)
AddChild(kind, views) ==
  LET ns == allocate_node(node, kind)
  IN /\ node' = IF kind = "data" THEN prepend_node(ns, Curr) ELSE append_node(ns, Curr)
     /\ under' = Append(under, IF open = << >> THEN 1 ELSE open[Len(open)])
     /\ text' = [text EXCEPT !.node = Append(@, views)]
     /\ UNCHANGED << attr, Attr >>

SE(prefixed) == AddChild("element", {FullName(prefixed)}) /\ Curr' = Len(node) + 1

(* A variant that climbs from the last child instead.                      *)
EE_Sibling ==
  /\ Curr' = IF node[Curr].prev # 0 THEN node[Curr].prev ELSE node[Curr].parent
  /\ UNCHANGED << node, attr, Attr, under, text >>

(* To the parent, or to the document where there is none.                  *)
EE ==
  /\ Curr' = IF node[Curr].parent # 0 THEN node[Curr].parent ELSE 1
  /\ UNCHANGED << node, attr, Attr, under, text >>

AT(prefixed) ==
  LET a == Len(attr) + 1
      as == Append(attr, [parent |-> 0])
  IN /\ attr' = append_attribute(as, a, Curr)
     /\ Attr' = a
     /\ text' = [text EXCEPT !.attr = Append(@, {FullName(prefixed), "decoder"})]
     /\ UNCHANGED << node, Curr, under >>

Child(kind, views) == AddChild(kind, views) /\ UNCHANGED Curr

(***************************************************************************)
(* The handlers                                                            *)
(***************************************************************************)

(* READ_STRING reads into a buffer of the handler.                         *)
ReadString == "handler"

(* A variant that forgets all strings but the first.                       *)
internStrings_First(strs) == [strs EXCEPT ![1] = "decoder"]

(* Each string is copied into BP, and the view of it is changed to that.   *)
internStrings(strs) == [i \in DOMAIN strs |-> "decoder"]

(* The strings of a handler as the serializer gets them.                   *)
Persistent(strs) == IF needsPersistence THEN internStrings(strs) ELSE strs

Top == open[Len(open)]
InElement == phase \in {"StartTag", "Content"}
CanGrow == Len(node) < MaxNodes

handleSE(prefixed) ==
  /\ CanGrow /\ Len(open) < MaxDepth
  /\ phase \in {"DocContent", "StartTag", "Content"}
  /\ SE(prefixed)
  /\ open' = Append(open, Len(node) + 1)
  /\ phase' = "StartTag"

handleEE ==
  /\ InElement
  /\ EE
  /\ open' = SubSeq(open, 1, Len(open) - 1)
  /\ phase' = IF Len(open) = 1 THEN "DocEnd" ELSE "Content"

(* handleNS makes an attribute too, named by the prefix it declares.       *)
handleAT(prefixed) ==
  /\ phase = "StartTag" /\ Len(attr) < MaxAttrs
  /\ AT(prefixed)
  /\ UNCHANGED << phase, open >>

handleCH ==
  /\ InElement /\ CanGrow
  /\ Child("data", {"decoder"})
  /\ phase' = "Content" /\ UNCHANGED open

(* handleER hands the entity to CM, so a reference becomes a comment.      *)
handleCM ==
  /\ phase # "Document" /\ CanGrow
  /\ LET strs == Persistent(<< ReadString >>) IN Child("comment", {strs[1]})
  /\ phase' = IF InElement THEN "Content" ELSE phase
  /\ UNCHANGED open

handlePI ==
  /\ phase # "Document" /\ CanGrow
  /\ LET strs == Persistent(<< ReadString, ReadString >>)     \* target, text
     IN Child("pi", {strs[1], strs[2]})
  /\ phase' = IF InElement THEN "Content" ELSE phase
  /\ UNCHANGED open

(* Of a doctype's four strings the serializer keeps the text only.         *)
handleDT ==
  /\ phase = "DocContent" /\ CanGrow
  /\ LET strs == Persistent(<< ReadString, ReadString, ReadString, ReadString >>)
     IN Child("doctype", {strs[4]})
  /\ UNCHANGED << phase, open >>

(* dispatchUncommonEvent for SD. *)
StartDocument == phase = "Document" /\ SD /\ phase' = "DocContent" /\ UNCHANGED open

(* And for ED: the result is DONE, which ends the loop.                    *)
EndDocument == phase = "DocEnd" /\ ED /\ UNCHANGED << phase, open >>

(* The content of an event cannot be read, or the event is SC or null:     *)
(* decodeEvent returns an error before the serializer is called.  Only the *)
(* schema may have moved: it does before the content of CM, PI and ER is   *)
(* read, and not where it reads a name or value itself (SE, AT, CH).       *)
FailedEvent ==
  /\ phase # "Document"
  /\ \/ UNCHANGED phase
     \/ phase = "StartTag" /\ phase' = "Content"
  /\ UNCHANGED << node, attr, Curr, Attr, open, under, text >>

decodeEvent ==
  \/ StartDocument
  \/ \E prefixed \in BOOLEAN : handleSE(prefixed) \/ handleAT(prefixed)
  \/ handleEE
  \/ handleCH \/ handleCM \/ handlePI \/ handleDT

(***************************************************************************)
(* decodeBody, and the next body into the same serializer                  *)
(***************************************************************************)

Decode == loop = "running" /\ decodeEvent /\ loop' = "running"
Finish == loop = "running" /\ EndDocument /\ loop' = "done"
Fail == loop = "running" /\ FailedEvent /\ loop' = "failed"

(* hasData says no before the end of the document.                         *)
OutOfData ==
  /\ loop = "running"
  /\ loop' = "done"
  /\ UNCHANGED << node, attr, Curr, Attr, phase, open, under, text >>

(* What a decoder owns goes with it.                                       *)
Left(memory) == IF memory = "decoder" THEN "former decoder" ELSE memory
LeftBehind(texts) == [i \in DOMAIN texts |-> {Left(m) : m \in texts[i]}]

(* decodeBody is called again: by the same decoder, which goes on where it *)
(* stopped, or by a new one with a stream of its own; the former may have  *)
(* been destroyed by then.                                                 *)
decodeBody(sameDecoder) ==
  /\ loop # "running"
  /\ loop' = "running"
  /\ phase' = IF sameDecoder THEN phase ELSE "Document"
  /\ open' = IF sameDecoder THEN open ELSE << >>
  /\ text' = IF sameDecoder THEN text
             ELSE [node |-> LeftBehind(text.node), attr |-> LeftBehind(text.attr)]
  /\ UNCHANGED << node, attr, Curr, Attr, under >>

Init ==
  /\ node = << Blank >> /\ under = << 0 >> /\ text = ClearedText
  /\ attr = << >>
  /\ Curr = 0 /\ Attr = 0
  /\ phase = "Document"
  /\ open = << >>
  /\ loop = "running"

Next ==
  \/ Decode \/ Finish \/ Fail \/ OutOfData
  \/ \E sameDecoder \in BOOLEAN : decodeBody(sameDecoder)

Spec == Init /\ [][Next]_treeVars

(***************************************************************************)
(* Properties                                                              *)
(***************************************************************************)

Address == 1 .. Len(node)
Link == 0 .. MaxNodes
Node == [kind : Kinds, parent : Link, first : Link, last : Link, prev : Link, next : Link]
Texts == [node : Seq(SUBSET Memory), attr : Seq(SUBSET Memory)]

(* The shape of the tree and of the serializer's two pointers into it.     *)
TreeTypeOK ==
  /\ node \in Seq(Node) /\ Len(node) \in 1 .. MaxNodes + 1
  /\ attr \in Seq([parent : Link])
  /\ Curr \in 0 .. Len(node) /\ Attr \in 0 .. Len(attr)
  /\ phase \in Phases /\ loop \in {"running", "done", "failed"}
  /\ open \in Seq(2 .. Len(node))
  /\ Len(under) = Len(node)
  /\ text \in Texts /\ Len(text.node) = Len(node) /\ Len(text.attr) = Len(attr)

(* The links of rapidxml's lists, which prepend_node and append_node each  *)
(* change from one end: they agree in both directions, every child but the *)
(* first and the last has two neighbours of the same parent, and the ends  *)
(* of a list are where the parent says.  The last link of an empty node    *)
(* means nothing (clear leaves it).                                        *)
LinksAgree ==
  /\ node[1].parent = 0
  /\ \A n \in Address :
       LET x == node[n]
       IN /\ x.first # 0 =>
               /\ x.first \in Address /\ node[x.first].parent = n /\ node[x.first].prev = 0
               /\ x.last \in Address /\ node[x.last].parent = n /\ node[x.last].next = 0
          /\ x.next # 0 =>
               /\ x.next \in Address /\ node[x.next].prev = n
               /\ node[x.next].parent = x.parent
          /\ x.prev # 0 => x.prev \in Address /\ node[x.prev].next = n
          /\ x.parent # 0 =>
               /\ x.parent \in Address
               /\ x.prev = 0 => node[x.parent].first = n
               /\ x.next = 0 => node[x.parent].last = n

(* The serializer climbs by the tree's parent links and the schema by its  *)
(* own stack: after the start of a document, Curr is the innermost open    *)
(* element, also when a body stopped half-way and was taken up again, and  *)
(* every node hangs under the element its event was in.                    *)
MirrorsDocument ==
  /\ phase # "Document" => Curr = IF open = << >> THEN 1 ELSE Top
  /\ \A n \in Address : node[n].parent = under[n]

(* Addresses grow with the events.  Among siblings everything but text     *)
(* keeps the order of its events; text, which CH prepends, stands before   *)
(* all of it in the opposite order.                                        *)
OnlyTextMoves ==
  \A n \in Address :
    LET m == node[n].next
        Text(k) == node[k].kind = "data"
    IN m # 0 => IF Text(m) THEN Text(n) /\ m < n ELSE Text(n) \/ n < m

(* The names and values of a started document are in memory that is still  *)
(* there: in no buffer of a handler, which has returned (needsPersistence, *)
(* internStrings), and with no former decoder, however the document before *)
(* it in the same serializer was left (clear).                             *)
Living == {"decoder", "pool"}
TextLives ==
  phase # "Document" =>
    /\ \A n \in Address : text.node[n] \subseteq Living
    /\ \A a \in 1 .. Len(attr) : text.attr[a] \subseteq Living

(* What append_attribute's comment promises, and AT and NS rely on: the    *)
(* attribute becomes one of the current element's.                         *)
AttributesKept == \A a \in 1 .. Len(attr) : attr[a].parent # 0
=============================================================================
