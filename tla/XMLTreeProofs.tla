---------------------------- MODULE XMLTreeProofs ---------------------------
(***************************************************************************)
(* Proofs about XMLTree, for documents of any size and depth.  The links   *)
(* cannot be kept right by looking at them alone: an append to a node      *)
(* without a first child trusts that nobody has it as parent (Rooted), and *)
(* the climb of EE trusts that the open elements are a chain of parents    *)
(* (OpenIsChain).                                                          *)
(***************************************************************************)
EXTENDS XMLTree, TLAPS, SequenceTheorems

(* LinksAgree of a pool of nodes.                                          *)
Joined(ns, n) ==
  /\ ns[n].first # 0 =>
       /\ ns[n].first \in 1 .. Len(ns) /\ ns[ns[n].first].parent = n
       /\ ns[ns[n].first].prev = 0
       /\ ns[n].last \in 1 .. Len(ns) /\ ns[ns[n].last].parent = n
       /\ ns[ns[n].last].next = 0
  /\ ns[n].next # 0 =>
       /\ ns[n].next \in 1 .. Len(ns) /\ ns[ns[n].next].prev = n
       /\ ns[ns[n].next].parent = ns[n].parent
  /\ ns[n].prev # 0 => ns[n].prev \in 1 .. Len(ns) /\ ns[ns[n].prev].next = n
  /\ ns[n].parent # 0 =>
       /\ ns[n].parent \in 1 .. Len(ns)
       /\ ns[n].prev = 0 => ns[ns[n].parent].first = n
       /\ ns[n].next = 0 => ns[ns[n].parent].last = n

(* The document is alone at the top; a parent is older than its children   *)
(* and knows that it has some.                                             *)
Rooted(ns) ==
  /\ ns[1].parent = 0 /\ ns[1].prev = 0 /\ ns[1].next = 0
  /\ \A n \in 2 .. Len(ns) :
       ns[n].parent \in 1 .. n - 1 /\ ns[ns[n].parent].first # 0

Tree(ns) ==
  /\ ns \in Seq(Node) /\ Len(ns) \in 1 .. MaxNodes + 1
  /\ Rooted(ns)
  /\ \A n \in 1 .. Len(ns) : Joined(ns, n)

-----------------------------------------------------------------------------
(* rapidxml                                                                *)

(* Assignments to one link, and what they change.                          *)
WithParent(s, i, v) == [s EXCEPT ![i].parent = v]
WithFirst(s, i, v) == [s EXCEPT ![i].first = v]
WithLast(s, i, v) == [s EXCEPT ![i].last = v]
WithPrev(s, i, v) == [s EXCEPT ![i].prev = v]
WithNext(s, i, v) == [s EXCEPT ![i].next = v]

ParentOnly(o, s, i, v) ==
  /\ o \in Seq(Node) /\ Len(o) = Len(s)
  /\ \A j \in 1 .. Len(s) :
       /\ o[j].kind = s[j].kind /\ o[j].first = s[j].first
       /\ o[j].last = s[j].last /\ o[j].prev = s[j].prev /\ o[j].next = s[j].next
       /\ o[j].parent = IF j = i THEN v ELSE s[j].parent

FirstOnly(o, s, i, v) ==
  /\ o \in Seq(Node) /\ Len(o) = Len(s)
  /\ \A j \in 1 .. Len(s) :
       /\ o[j].kind = s[j].kind /\ o[j].parent = s[j].parent
       /\ o[j].last = s[j].last /\ o[j].prev = s[j].prev /\ o[j].next = s[j].next
       /\ o[j].first = IF j = i THEN v ELSE s[j].first

LastOnly(o, s, i, v) ==
  /\ o \in Seq(Node) /\ Len(o) = Len(s)
  /\ \A j \in 1 .. Len(s) :
       /\ o[j].kind = s[j].kind /\ o[j].parent = s[j].parent
       /\ o[j].first = s[j].first /\ o[j].prev = s[j].prev /\ o[j].next = s[j].next
       /\ o[j].last = IF j = i THEN v ELSE s[j].last

PrevOnly(o, s, i, v) ==
  /\ o \in Seq(Node) /\ Len(o) = Len(s)
  /\ \A j \in 1 .. Len(s) :
       /\ o[j].kind = s[j].kind /\ o[j].parent = s[j].parent
       /\ o[j].first = s[j].first /\ o[j].last = s[j].last /\ o[j].next = s[j].next
       /\ o[j].prev = IF j = i THEN v ELSE s[j].prev

NextOnly(o, s, i, v) ==
  /\ o \in Seq(Node) /\ Len(o) = Len(s)
  /\ \A j \in 1 .. Len(s) :
       /\ o[j].kind = s[j].kind /\ o[j].parent = s[j].parent
       /\ o[j].first = s[j].first /\ o[j].last = s[j].last /\ o[j].prev = s[j].prev
       /\ o[j].next = IF j = i THEN v ELSE s[j].next

(* Assigning a parent link changes that link of that node and nothing else. *)
LEMMA SetParent ==
  ASSUME NEW s \in Seq(Node), NEW i \in 1 .. Len(s), NEW v \in Link
  PROVE  ParentOnly(WithParent(s, i, v), s, i, v)
  <1>1. PICK x \in Node : x = s[i]
    OBVIOUS
  <1>2. PICK r : r = [x EXCEPT !.parent = v]
    OBVIOUS
  <1>3. /\ r \in Node /\ r.parent = v
        /\ r.kind = x.kind /\ r.first = x.first
        /\ r.last = x.last /\ r.prev = x.prev /\ r.next = x.next
    BY <1>2 DEF Node
  <1>4. WithParent(s, i, v) = [s EXCEPT ![i] = r]
    BY <1>1, <1>2 DEF WithParent
  <1> QED BY <1>1, <1>3, <1>4 DEF ParentOnly

(* Assigning a first link changes that link of that node and nothing else. *)
LEMMA SetFirst ==
  ASSUME NEW s \in Seq(Node), NEW i \in 1 .. Len(s), NEW v \in Link
  PROVE  FirstOnly(WithFirst(s, i, v), s, i, v)
  <1>1. PICK x \in Node : x = s[i]
    OBVIOUS
  <1>2. PICK r : r = [x EXCEPT !.first = v]
    OBVIOUS
  <1>3. /\ r \in Node /\ r.first = v
        /\ r.kind = x.kind /\ r.parent = x.parent
        /\ r.last = x.last /\ r.prev = x.prev /\ r.next = x.next
    BY <1>2 DEF Node
  <1>4. WithFirst(s, i, v) = [s EXCEPT ![i] = r]
    BY <1>1, <1>2 DEF WithFirst
  <1> QED BY <1>1, <1>3, <1>4 DEF FirstOnly

(* Assigning a last link changes that link of that node and nothing else. *)
LEMMA SetLast ==
  ASSUME NEW s \in Seq(Node), NEW i \in 1 .. Len(s), NEW v \in Link
  PROVE  LastOnly(WithLast(s, i, v), s, i, v)
  <1>1. PICK x \in Node : x = s[i]
    OBVIOUS
  <1>2. PICK r : r = [x EXCEPT !.last = v]
    OBVIOUS
  <1>3. /\ r \in Node /\ r.last = v
        /\ r.kind = x.kind /\ r.parent = x.parent
        /\ r.first = x.first /\ r.prev = x.prev /\ r.next = x.next
    BY <1>2 DEF Node
  <1>4. WithLast(s, i, v) = [s EXCEPT ![i] = r]
    BY <1>1, <1>2 DEF WithLast
  <1> QED BY <1>1, <1>3, <1>4 DEF LastOnly

(* Assigning a prev link changes that link of that node and nothing else. *)
LEMMA SetPrev ==
  ASSUME NEW s \in Seq(Node), NEW i \in 1 .. Len(s), NEW v \in Link
  PROVE  PrevOnly(WithPrev(s, i, v), s, i, v)
  <1>1. PICK x \in Node : x = s[i]
    OBVIOUS
  <1>2. PICK r : r = [x EXCEPT !.prev = v]
    OBVIOUS
  <1>3. /\ r \in Node /\ r.prev = v
        /\ r.kind = x.kind /\ r.parent = x.parent
        /\ r.first = x.first /\ r.last = x.last /\ r.next = x.next
    BY <1>2 DEF Node
  <1>4. WithPrev(s, i, v) = [s EXCEPT ![i] = r]
    BY <1>1, <1>2 DEF WithPrev
  <1> QED BY <1>1, <1>3, <1>4 DEF PrevOnly

(* Assigning a next link changes that link of that node and nothing else. *)
LEMMA SetNext ==
  ASSUME NEW s \in Seq(Node), NEW i \in 1 .. Len(s), NEW v \in Link
  PROVE  NextOnly(WithNext(s, i, v), s, i, v)
  <1>1. PICK x \in Node : x = s[i]
    OBVIOUS
  <1>2. PICK r : r = [x EXCEPT !.next = v]
    OBVIOUS
  <1>3. /\ r \in Node /\ r.next = v
        /\ r.kind = x.kind /\ r.parent = x.parent
        /\ r.first = x.first /\ r.last = x.last /\ r.prev = x.prev
    BY <1>2 DEF Node
  <1>4. WithNext(s, i, v) = [s EXCEPT ![i] = r]
    BY <1>1, <1>2 DEF WithNext
  <1> QED BY <1>1, <1>3, <1>4 DEF NextOnly

(* allocate_node adds a node without links.                                *)
LEMMA AllocateFields ==
  ASSUME NEW ns \in Seq(Node), NEW kind \in Kinds,
         NEW c, c = Len(ns) + 1
  PROVE  LET as == allocate_node(ns, kind)
         IN /\ as \in Seq(Node) /\ Len(as) = c
            /\ \A n \in 1 .. Len(ns) : as[n] = ns[n]
            /\ as[c].kind = kind
            /\ as[c].parent = 0 /\ as[c].first = 0 /\ as[c].last = 0
            /\ as[c].prev = 0 /\ as[c].next = 0
  <1>1. PICK b : b = [Blank EXCEPT !.kind = kind]
    OBVIOUS
  <1>2. /\ b \in Node /\ b.kind = kind /\ b.parent = 0 /\ b.first = 0
        /\ b.last = 0 /\ b.prev = 0 /\ b.next = 0
    BY SMTT(30), <1>1, XMLTreeAssumption DEF Blank, Node, Link
  <1>3. allocate_node(ns, kind) = Append(ns, b)
    BY <1>1 DEF allocate_node
  <1> QED BY <1>2, <1>3

(* What append_node changes: the last link of the parent, the next link of *)
(* the last child, and the new node.                                       *)
LEMMA AppendFields ==
  ASSUME NEW ns \in Seq(Node), Len(ns) \in 1 .. MaxNodes - 1,
         NEW p \in 1 .. Len(ns),
         ns[p].first # 0 => ns[p].last \in 1 .. Len(ns),
         NEW kind \in Kinds,
         NEW out, out = append_node(allocate_node(ns, kind), p),
         NEW c, c = Len(ns) + 1
  PROVE  /\ out \in Seq(Node) /\ Len(out) = c
         /\ \A n \in 1 .. Len(ns) :
              /\ out[n].parent = ns[n].parent /\ out[n].prev = ns[n].prev
              /\ out[n].kind = ns[n].kind
              /\ out[n].next = IF ns[p].first # 0 /\ n = ns[p].last THEN c ELSE ns[n].next
              /\ out[n].first = IF ns[p].first = 0 /\ n = p THEN c ELSE ns[n].first
              /\ out[n].last = IF n = p THEN c ELSE ns[n].last
         /\ out[c].parent = p /\ out[c].next = 0 /\ out[c].first = 0
         /\ out[c].prev = IF ns[p].first # 0 THEN ns[p].last ELSE 0
         /\ out[c].kind = kind
  <1>1. c \in Nat /\ c \in Link /\ c # p /\ p \in Link /\ c # 0
    BY XMLTreeAssumption DEF Link
  <1>2. PICK as \in Seq(Node) :
          /\ as = allocate_node(ns, kind) /\ Len(as) = c
          /\ \A n \in 1 .. Len(ns) : as[n] = ns[n]
          /\ as[c].kind = kind
          /\ as[c].parent = 0 /\ as[c].first = 0 /\ as[c].last = 0
          /\ as[c].prev = 0 /\ as[c].next = 0
    BY AllocateFields
  <1>3. CASE ns[p].first # 0
    <2> DEFINE l == ns[p].last
               s1 == WithPrev(as, c, l)
               s2 == WithParent(s1, c, p)
               s3 == WithNext(s2, l, c)
    <2>1. l \in 1 .. Len(ns) /\ l # c /\ l \in Link
      BY <1>3, XMLTreeAssumption DEF Link
    <2>2. out = WithLast(s3, p, c)
      BY <1>2, <1>3 DEF append_node, WithPrev, WithParent, WithNext, WithLast
    <2> HIDE DEF l, s1, s2, s3
    <2>3. c \in 1 .. c /\ p \in 1 .. c /\ l \in 1 .. c
      BY <1>1, <2>1
    <2>4. PrevOnly(s1, as, c, l) /\ s1 \in Seq(Node) /\ Len(s1) = c
      <3>1. as \in Seq(Node) /\ c \in 1 .. Len(as) /\ l \in Link
        BY <1>2, <2>1, <2>3
      <3>2. PrevOnly(WithPrev(as, c, l), as, c, l)
        BY <3>1, SetPrev
      <3> QED BY <1>2, <2>1, <2>3, <3>2 DEF s1, PrevOnly
    <2>5. ParentOnly(s2, s1, c, p) /\ s2 \in Seq(Node) /\ Len(s2) = c
      <3>1. s1 \in Seq(Node) /\ c \in 1 .. Len(s1) /\ p \in Link
        BY <1>1, <2>3, <2>4
      <3>2. ParentOnly(WithParent(s1, c, p), s1, c, p)
        BY <3>1, SetParent
      <3> QED BY <1>1, <2>3, <2>4, <3>2 DEF s2, ParentOnly
    <2>6. NextOnly(s3, s2, l, c) /\ s3 \in Seq(Node) /\ Len(s3) = c
      <3>1. s2 \in Seq(Node) /\ l \in 1 .. Len(s2) /\ c \in Link
        BY <1>1, <2>3, <2>5
      <3>2. NextOnly(WithNext(s2, l, c), s2, l, c)
        BY <3>1, SetNext
      <3> QED BY <1>1, <2>3, <2>5, <3>2 DEF s3, NextOnly
    <2>7. LastOnly(out, s3, p, c) /\ out \in Seq(Node) /\ Len(out) = c
      <3>1. s3 \in Seq(Node) /\ p \in 1 .. Len(s3) /\ c \in Link
        BY <1>1, <2>2, <2>3, <2>6
      <3>2. LastOnly(WithLast(s3, p, c), s3, p, c)
        BY <3>1, SetLast
      <3> QED BY <1>1, <2>2, <2>3, <2>6, <3>2 DEF LastOnly
    <2> QED
      BY <1>1, <1>2, <1>3, <2>1, <2>4, <2>5, <2>6, <2>7
         DEF PrevOnly, ParentOnly, NextOnly, LastOnly, l
  <1>4. CASE ns[p].first = 0
    <2> DEFINE s1 == WithParent(as, c, p)
               s2 == WithFirst(s1, p, c)
    <2>1. out = WithLast(s2, p, c)
      BY <1>2, <1>4 DEF append_node, WithParent, WithFirst, WithLast
    <2> HIDE DEF s1, s2
    <2>2. c \in 1 .. c /\ p \in 1 .. c
      BY <1>1
    <2>3. ParentOnly(s1, as, c, p) /\ s1 \in Seq(Node) /\ Len(s1) = c
      <3>1. as \in Seq(Node) /\ c \in 1 .. Len(as) /\ p \in Link
        BY <1>1, <1>2, <2>2
      <3>2. ParentOnly(WithParent(as, c, p), as, c, p)
        BY <3>1, SetParent
      <3> QED BY <1>1, <1>2, <2>2, <3>2 DEF s1, ParentOnly
    <2>4. FirstOnly(s2, s1, p, c) /\ s2 \in Seq(Node) /\ Len(s2) = c
      <3>1. s1 \in Seq(Node) /\ p \in 1 .. Len(s1) /\ c \in Link
        BY <1>1, <2>2, <2>3
      <3>2. FirstOnly(WithFirst(s1, p, c), s1, p, c)
        BY <3>1, SetFirst
      <3> QED BY <1>1, <2>2, <2>3, <3>2 DEF s2, FirstOnly
    <2>5. LastOnly(out, s2, p, c) /\ out \in Seq(Node) /\ Len(out) = c
      <3>1. s2 \in Seq(Node) /\ p \in 1 .. Len(s2) /\ c \in Link
        BY <1>1, <2>1, <2>2, <2>4
      <3>2. LastOnly(WithLast(s2, p, c), s2, p, c)
        BY <3>1, SetLast
      <3> QED BY <1>1, <2>1, <2>2, <2>4, <3>2 DEF LastOnly
    <2> QED
      BY <1>1, <1>2, <1>4, <2>3, <2>4, <2>5 DEF ParentOnly, FirstOnly, LastOnly
  <1> QED BY <1>3, <1>4

(* What prepend_node changes: the first link of the parent, the back link  *)
(* of the former first child, and the new node.                            *)
LEMMA PrependFields ==
  ASSUME NEW ns \in Seq(Node), Len(ns) \in 1 .. MaxNodes - 1,
         NEW p \in 1 .. Len(ns),
         ns[p].first # 0 => ns[p].first \in 1 .. Len(ns),
         NEW kind \in Kinds,
         NEW out, out = prepend_node(allocate_node(ns, kind), p),
         NEW c, c = Len(ns) + 1
  PROVE  /\ out \in Seq(Node) /\ Len(out) = c
         /\ \A n \in 1 .. Len(ns) :
              /\ out[n].parent = ns[n].parent /\ out[n].next = ns[n].next
              /\ out[n].kind = ns[n].kind
              /\ out[n].prev = IF ns[p].first # 0 /\ n = ns[p].first THEN c ELSE ns[n].prev
              /\ out[n].first = IF n = p THEN c ELSE ns[n].first
              /\ out[n].last = IF ns[p].first = 0 /\ n = p THEN c ELSE ns[n].last
         /\ out[c].parent = p /\ out[c].prev = 0 /\ out[c].first = 0
         /\ out[c].next = ns[p].first
         /\ out[c].kind = kind
  <1>1. c \in Nat /\ c \in Link /\ c # p /\ p \in Link /\ c # 0
    BY XMLTreeAssumption DEF Link
  <1>2. PICK as \in Seq(Node) :
          /\ as = allocate_node(ns, kind) /\ Len(as) = c
          /\ \A n \in 1 .. Len(ns) : as[n] = ns[n]
          /\ as[c].kind = kind
          /\ as[c].parent = 0 /\ as[c].first = 0 /\ as[c].last = 0
          /\ as[c].prev = 0 /\ as[c].next = 0
    BY AllocateFields
  <1>3. CASE ns[p].first # 0
    <2> DEFINE f == ns[p].first
               s1 == WithNext(as, c, f)
               s2 == WithParent(s1, c, p)
               s3 == WithPrev(s2, f, c)
    <2>1. f \in 1 .. Len(ns) /\ f # c /\ f \in Link
      BY <1>3, XMLTreeAssumption DEF Link
    <2>2. out = WithFirst(s3, p, c)
      BY <1>2, <1>3 DEF prepend_node, WithPrev, WithParent, WithNext, WithFirst
    <2> HIDE DEF f, s1, s2, s3
    <2>3. c \in 1 .. c /\ p \in 1 .. c /\ f \in 1 .. c
      BY <1>1, <2>1
    <2>4. NextOnly(s1, as, c, f) /\ s1 \in Seq(Node) /\ Len(s1) = c
      <3>1. as \in Seq(Node) /\ c \in 1 .. Len(as) /\ f \in Link
        BY <1>2, <2>1, <2>3
      <3>2. NextOnly(WithNext(as, c, f), as, c, f)
        BY <3>1, SetNext
      <3> QED BY <1>2, <2>1, <2>3, <3>2 DEF s1, NextOnly
    <2>5. ParentOnly(s2, s1, c, p) /\ s2 \in Seq(Node) /\ Len(s2) = c
      <3>1. s1 \in Seq(Node) /\ c \in 1 .. Len(s1) /\ p \in Link
        BY <1>1, <2>3, <2>4
      <3>2. ParentOnly(WithParent(s1, c, p), s1, c, p)
        BY <3>1, SetParent
      <3> QED BY <1>1, <2>3, <2>4, <3>2 DEF s2, ParentOnly
    <2>6. PrevOnly(s3, s2, f, c) /\ s3 \in Seq(Node) /\ Len(s3) = c
      <3>1. s2 \in Seq(Node) /\ f \in 1 .. Len(s2) /\ c \in Link
        BY <1>1, <2>3, <2>5
      <3>2. PrevOnly(WithPrev(s2, f, c), s2, f, c)
        BY <3>1, SetPrev
      <3> QED BY <1>1, <2>3, <2>5, <3>2 DEF s3, PrevOnly
    <2>7. FirstOnly(out, s3, p, c) /\ out \in Seq(Node) /\ Len(out) = c
      <3>1. s3 \in Seq(Node) /\ p \in 1 .. Len(s3) /\ c \in Link
        BY <1>1, <2>2, <2>3, <2>6
      <3>2. FirstOnly(WithFirst(s3, p, c), s3, p, c)
        BY <3>1, SetFirst
      <3> QED BY <1>1, <2>2, <2>3, <2>6, <3>2 DEF FirstOnly
    <2> QED
      BY <1>1, <1>2, <1>3, <2>1, <2>4, <2>5, <2>6, <2>7
         DEF PrevOnly, ParentOnly, NextOnly, FirstOnly, f
  <1>4. CASE ns[p].first = 0
    <2> DEFINE s1 == WithParent(as, c, p)
               s2 == WithFirst(s1, p, c)
    <2>1. out = WithLast(s2, p, c)
      BY <1>2, <1>4 DEF prepend_node, WithParent, WithFirst, WithLast
    <2> HIDE DEF s1, s2
    <2>2. c \in 1 .. c /\ p \in 1 .. c
      BY <1>1
    <2>3. ParentOnly(s1, as, c, p) /\ s1 \in Seq(Node) /\ Len(s1) = c
      <3>1. as \in Seq(Node) /\ c \in 1 .. Len(as) /\ p \in Link
        BY <1>1, <1>2, <2>2
      <3>2. ParentOnly(WithParent(as, c, p), as, c, p)
        BY <3>1, SetParent
      <3> QED BY <1>1, <1>2, <2>2, <3>2 DEF s1, ParentOnly
    <2>4. FirstOnly(s2, s1, p, c) /\ s2 \in Seq(Node) /\ Len(s2) = c
      <3>1. s1 \in Seq(Node) /\ p \in 1 .. Len(s1) /\ c \in Link
        BY <1>1, <2>2, <2>3
      <3>2. FirstOnly(WithFirst(s1, p, c), s1, p, c)
        BY <3>1, SetFirst
      <3> QED BY <1>1, <2>2, <2>3, <3>2 DEF s2, FirstOnly
    <2>5. LastOnly(out, s2, p, c) /\ out \in Seq(Node) /\ Len(out) = c
      <3>1. s2 \in Seq(Node) /\ p \in 1 .. Len(s2) /\ c \in Link
        BY <1>1, <2>1, <2>2, <2>4
      <3>2. LastOnly(WithLast(s2, p, c), s2, p, c)
        BY <3>1, SetLast
      <3> QED BY <1>1, <2>1, <2>2, <2>4, <3>2 DEF LastOnly
    <2> QED
      BY <1>1, <1>2, <1>4, <2>3, <2>4, <2>5 DEF ParentOnly, FirstOnly, LastOnly
  <1> QED BY <1>3, <1>4

(* A new last child leaves a tree.                                         *)
LEMMA AppendTree ==
  ASSUME NEW ns, Tree(ns), Len(ns) < MaxNodes, NEW p \in 1 .. Len(ns),
         NEW kind \in Kinds,
         NEW out, out = append_node(allocate_node(ns, kind), p)
  PROVE  Tree(out)
  <1> DEFINE c == Len(ns) + 1
  <1>1. ns \in Seq(Node) /\ Len(ns) \in 1 .. MaxNodes - 1 /\ Len(ns) \in Nat
    BY XMLTreeAssumption DEF Tree
  <1>2. \A n \in 1 .. Len(ns) : Joined(ns, n)
    BY DEF Tree
  <1>3. /\ out \in Seq(Node) /\ Len(out) = c
        /\ \A n \in 1 .. Len(ns) :
             /\ out[n].parent = ns[n].parent /\ out[n].prev = ns[n].prev
             /\ out[n].next = IF ns[p].first # 0 /\ n = ns[p].last THEN c ELSE ns[n].next
             /\ out[n].first = IF ns[p].first = 0 /\ n = p THEN c ELSE ns[n].first
             /\ out[n].last = IF n = p THEN c ELSE ns[n].last
        /\ out[c].parent = p /\ out[c].next = 0 /\ out[c].first = 0
        /\ out[c].prev = IF ns[p].first # 0 THEN ns[p].last ELSE 0
    BY <1>1, <1>2, AppendFields DEF Joined
  <1>4. \A n \in 1 .. Len(ns) : ns[n] \in Node
    BY <1>1
  <1>5. c \in Nat /\ c \in 1 .. MaxNodes + 1 /\ c > Len(ns)
    BY <1>1, XMLTreeAssumption
  <1> HIDE DEF c
  <1>6. Rooted(out)
    <2>1. Rooted(ns)
      BY DEF Tree
    <2>2. out[1].parent = 0 /\ out[1].prev = 0 /\ out[1].next = 0
      BY <1>1, <1>2, <1>3, <2>1 DEF Rooted, Joined, c
    <2>3. out[c].parent \in 1 .. c - 1 /\ out[out[c].parent].first # 0
      BY <1>1, <1>3, <1>5 DEF c
    <2>4. ASSUME NEW n \in 2 .. Len(ns)
          PROVE  out[n].parent \in 1 .. n - 1 /\ out[out[n].parent].first # 0
      <3>1. ns[n].parent \in 1 .. Len(ns) /\ ns[n].parent \in 1 .. n - 1
        BY <1>1, <2>1 DEF Rooted
      <3>2. ns[ns[n].parent].first # 0 /\ out[n].parent = ns[n].parent
        BY <1>1, <1>3, <2>1 DEF Rooted
      <3> QED BY <1>3, <1>5, <3>1, <3>2
    <2> QED BY <1>1, <1>3, <1>5, <2>2, <2>3, <2>4 DEF Rooted, c
  <1>7. Joined(out, c)
    BY <1>1, <1>2, <1>3, <1>4, <1>5 DEF Joined, c
  <1>8. ASSUME NEW n \in 1 .. Len(ns) PROVE Joined(out, n)
    <2>1. /\ Joined(ns, n) /\ Joined(ns, p) /\ Rooted(ns)
      BY <1>2 DEF Tree
    <2>2. out[n].first # 0 =>
            /\ out[n].first \in 1 .. c /\ out[out[n].first].parent = n
            /\ out[out[n].first].prev = 0
            /\ out[n].last \in 1 .. c /\ out[out[n].last].parent = n
            /\ out[out[n].last].next = 0
      <3>1. CASE n = p /\ ns[p].first = 0
        BY <1>3, <1>5, <3>1
      <3>2. CASE n = p /\ ns[p].first # 0
        BY <1>1, <1>3, <1>5, <2>1, <3>2 DEF Joined
      <3>3. CASE n # p /\ ns[n].first # 0
        <4>1. /\ ns[n].first \in 1 .. Len(ns) /\ ns[ns[n].first].parent = n
              /\ ns[ns[n].first].prev = 0
              /\ ns[n].last \in 1 .. Len(ns) /\ ns[ns[n].last].parent = n
              /\ ns[ns[n].last].next = 0
          BY <2>1, <3>3 DEF Joined
        <4>2. ns[p].first # 0 => ns[p].last # ns[n].last
          BY <2>1, <3>3, <4>1 DEF Joined
        <4> QED BY <1>3, <1>5, <3>3, <4>1, <4>2
      <3>4. CASE n # p /\ ns[n].first = 0
        BY <1>3, <3>4
      <3> QED BY <3>1, <3>2, <3>3, <3>4
    <2>3. out[n].next # 0 =>
            /\ out[n].next \in 1 .. c /\ out[out[n].next].prev = n
            /\ out[out[n].next].parent = out[n].parent
      BY <1>1, <1>3, <1>4, <1>5, <2>1 DEF Joined
    <2>4. out[n].prev # 0 => out[n].prev \in 1 .. c /\ out[out[n].prev].next = n
      BY <1>1, <1>3, <1>4, <1>5, <2>1 DEF Joined
    <2>5. out[n].parent # 0 =>
            /\ out[n].parent \in 1 .. c
            /\ out[n].prev = 0 => out[out[n].parent].first = n
            /\ out[n].next = 0 => out[out[n].parent].last = n
      <3> SUFFICES ASSUME out[n].parent # 0
                   PROVE  /\ out[n].parent \in 1 .. c
                          /\ out[n].prev = 0 => out[out[n].parent].first = n
                          /\ out[n].next = 0 => out[out[n].parent].last = n
        OBVIOUS
      <3>0. ns[n].parent # 0 /\ n # 1
        BY <1>1, <1>3, <2>1 DEF Rooted
      <3>1. PICK q \in 1 .. Len(ns) :
              /\ q = ns[n].parent /\ q = out[n].parent /\ ns[q].first # 0
              /\ ns[n].prev = 0 => ns[q].first = n
              /\ ns[n].next = 0 => ns[q].last = n
        <4>1. /\ ns[n].parent \in 1 .. Len(ns)
              /\ ns[n].prev = 0 => ns[ns[n].parent].first = n
              /\ ns[n].next = 0 => ns[ns[n].parent].last = n
          BY <2>1, <3>0 DEF Joined
        <4>2. ns[ns[n].parent].first # 0
          BY <1>1, <2>1, <3>0, SMTT(30) DEF Rooted
        <4> QED BY <1>3, <4>1, <4>2
      <3>2. out[n].prev = 0 => out[q].first = n
        BY <1>3, <3>1
      <3>3. out[n].next = 0 => out[q].last = n
        BY <1>1, <1>3, <1>5, <3>1
      <3> QED BY <1>5, <3>1, <3>2, <3>3
    <2> QED BY <1>3, <2>2, <2>3, <2>4, <2>5 DEF Joined
  <1> QED BY <1>3, <1>5, <1>6, <1>7, <1>8 DEF Tree, c

(* A new first child leaves a tree.                                        *)
LEMMA PrependTree ==
  ASSUME NEW ns, Tree(ns), Len(ns) < MaxNodes, NEW p \in 1 .. Len(ns),
         NEW kind \in Kinds,
         NEW out, out = prepend_node(allocate_node(ns, kind), p)
  PROVE  Tree(out)
  <1> DEFINE c == Len(ns) + 1
  <1>1. ns \in Seq(Node) /\ Len(ns) \in 1 .. MaxNodes - 1 /\ Len(ns) \in Nat
    BY XMLTreeAssumption DEF Tree
  <1>2. \A n \in 1 .. Len(ns) : Joined(ns, n)
    BY DEF Tree
  <1>3. /\ out \in Seq(Node) /\ Len(out) = c
        /\ \A n \in 1 .. Len(ns) :
             /\ out[n].parent = ns[n].parent /\ out[n].next = ns[n].next
             /\ out[n].prev = IF ns[p].first # 0 /\ n = ns[p].first THEN c ELSE ns[n].prev
             /\ out[n].first = IF n = p THEN c ELSE ns[n].first
             /\ out[n].last = IF ns[p].first = 0 /\ n = p THEN c ELSE ns[n].last
        /\ out[c].parent = p /\ out[c].prev = 0 /\ out[c].first = 0
        /\ out[c].next = ns[p].first
    BY <1>1, <1>2, PrependFields DEF Joined
  <1>4. \A n \in 1 .. Len(ns) : ns[n] \in Node
    BY <1>1
  <1>5. c \in Nat /\ c \in 1 .. MaxNodes + 1 /\ c > Len(ns)
    BY <1>1, XMLTreeAssumption
  <1> HIDE DEF c
  <1>6. Rooted(out)
    <2>1. Rooted(ns)
      BY DEF Tree
    <2>2. out[1].parent = 0 /\ out[1].prev = 0 /\ out[1].next = 0
      BY <1>1, <1>2, <1>3, <2>1 DEF Rooted, Joined, c
    <2>3. out[c].parent \in 1 .. c - 1 /\ out[out[c].parent].first # 0
      BY <1>1, <1>3, <1>5 DEF c
    <2>4. ASSUME NEW n \in 2 .. Len(ns)
          PROVE  out[n].parent \in 1 .. n - 1 /\ out[out[n].parent].first # 0
      <3>1. ns[n].parent \in 1 .. Len(ns) /\ ns[n].parent \in 1 .. n - 1
        BY <1>1, <2>1 DEF Rooted
      <3>2. ns[ns[n].parent].first # 0 /\ out[n].parent = ns[n].parent
        BY <1>1, <1>3, <2>1 DEF Rooted
      <3> QED BY <1>3, <1>5, <3>1, <3>2
    <2> QED BY <1>1, <1>3, <1>5, <2>2, <2>3, <2>4 DEF Rooted, c
  <1>7. Joined(out, c)
    BY <1>1, <1>2, <1>3, <1>4, <1>5 DEF Joined, c
  <1>8. ASSUME NEW n \in 1 .. Len(ns) PROVE Joined(out, n)
    <2>1. /\ Joined(ns, n) /\ Joined(ns, p) /\ Rooted(ns)
      BY <1>2 DEF Tree
    <2>2. out[n].first # 0 =>
            /\ out[n].first \in 1 .. c /\ out[out[n].first].parent = n
            /\ out[out[n].first].prev = 0
            /\ out[n].last \in 1 .. c /\ out[out[n].last].parent = n
            /\ out[out[n].last].next = 0
      BY SMTT(60), <1>1, <1>3, <1>4, <1>5, <2>1 DEF Joined
    <2>3. out[n].next # 0 =>
            /\ out[n].next \in 1 .. c /\ out[out[n].next].prev = n
            /\ out[out[n].next].parent = out[n].parent
      BY <1>1, <1>3, <1>4, <1>5, <2>1 DEF Joined
    <2>4. out[n].prev # 0 => out[n].prev \in 1 .. c /\ out[out[n].prev].next = n
      BY <1>1, <1>3, <1>4, <1>5, <2>1 DEF Joined
    <2>5. out[n].parent # 0 =>
            /\ out[n].parent \in 1 .. c
            /\ out[n].prev = 0 => out[out[n].parent].first = n
            /\ out[n].next = 0 => out[out[n].parent].last = n
      <3> SUFFICES ASSUME out[n].parent # 0
                   PROVE  /\ out[n].parent \in 1 .. c
                          /\ out[n].prev = 0 => out[out[n].parent].first = n
                          /\ out[n].next = 0 => out[out[n].parent].last = n
        OBVIOUS
      <3>0. ns[n].parent # 0 /\ n # 1
        BY <1>1, <1>3, <2>1 DEF Rooted
      <3>1. PICK q \in 1 .. Len(ns) :
              /\ q = ns[n].parent /\ q = out[n].parent /\ ns[q].first # 0
              /\ ns[n].prev = 0 => ns[q].first = n
              /\ ns[n].next = 0 => ns[q].last = n
        <4>1. /\ ns[n].parent \in 1 .. Len(ns)
              /\ ns[n].prev = 0 => ns[ns[n].parent].first = n
              /\ ns[n].next = 0 => ns[ns[n].parent].last = n
          BY <2>1, <3>0 DEF Joined
        <4>2. ns[ns[n].parent].first # 0
          BY SMTT(30), <1>1, <2>1, <3>0 DEF Rooted
        <4> QED BY <1>3, <4>1, <4>2
      <3>2. out[n].prev = 0 => out[q].first = n
        BY <1>1, <1>3, <1>5, <3>1
      <3>3. out[n].next = 0 => out[q].last = n
        BY <1>3, <3>1
      <3> QED BY <1>5, <3>1, <3>2, <3>3
    <2> QED BY <1>3, <2>2, <2>3, <2>4, <2>5 DEF Joined
  <1> QED BY <1>3, <1>5, <1>6, <1>7, <1>8 DEF Tree, c

(* The order OnlyTextMoves speaks of, of a pool of nodes.                  *)
Ordered(ns) ==
  \A n \in 1 .. Len(ns) :
    ns[n].next # 0 =>
      IF ns[ns[n].next].kind = "data"
      THEN ns[n].kind = "data" /\ ns[n].next < n
      ELSE ns[n].kind = "data" \/ n < ns[n].next

-----------------------------------------------------------------------------
(* The serializer                                                          *)

OpenIsChain ==
  \A i \in 1 .. Len(open) :
    node[open[i]].parent = IF i = 1 THEN 1 ELSE open[i - 1]

OpenInElement == IF InElement THEN open # << >> ELSE open = << >>

TreeInv ==
  /\ TreeTypeOK
  /\ Tree(node)
  /\ Ordered(node)
  /\ OpenIsChain
  /\ OpenInElement
  /\ MirrorsDocument
  /\ TextLives

(* The part of the invariant that is about memory.                         *)
TextKept ==
  /\ text \in Texts /\ Len(text.node) = Len(node) /\ Len(text.attr) = Len(attr)
  /\ TextLives

(* A node with views of living memory keeps it.                            *)
LEMMA NodeTextKept ==
  ASSUME TextKept, node \in Seq(Node), phase # "Document",
         NEW views \in SUBSET Living,
         text' = [text EXCEPT !.node = Append(@, views)],
         Len(node') = Len(node) + 1, attr' = attr
  PROVE  TextKept'
  <1>1. PICK old : old = text.node
    OBVIOUS
  <1>2. /\ old \in Seq(SUBSET Memory) /\ views \in SUBSET Memory
        /\ Len(old) = Len(node) /\ \A n \in 1 .. Len(old) : old[n] \subseteq Living
    BY <1>1 DEF TextKept, TextLives, Texts, Living, Memory, Address
  <1>3. PICK new : new = Append(old, views)
    OBVIOUS
  <1>4. /\ new \in Seq(SUBSET Memory) /\ Len(new) = Len(old) + 1
        /\ \A n \in 1 .. Len(new) : new[n] \subseteq Living
    <2>1. /\ new \in Seq(SUBSET Memory) /\ Len(new) = Len(old) + 1
          /\ new[Len(old) + 1] = views
          /\ \A n \in 1 .. Len(old) : new[n] = old[n]
      BY <1>2, <1>3, AppendProperties
    <2> QED BY <1>2, <2>1
  <1>5. text' \in Texts /\ text'.node = new /\ text'.attr = text.attr
    BY <1>1, <1>3, <1>4 DEF TextKept, Texts
  <1> QED BY <1>2, <1>4, <1>5 DEF TextKept, TextLives, Address

(* And so does an attribute.                                               *)
LEMMA AttributeTextKept ==
  ASSUME TextKept, attr \in Seq([parent : Link]), phase # "Document",
         NEW views \in SUBSET Living,
         text' = [text EXCEPT !.attr = Append(@, views)],
         Len(attr') = Len(attr) + 1, node' = node
  PROVE  TextKept'
  <1>1. PICK old : old = text.attr
    OBVIOUS
  <1>2. /\ old \in Seq(SUBSET Memory) /\ views \in SUBSET Memory
        /\ Len(old) = Len(attr) /\ \A a \in 1 .. Len(old) : old[a] \subseteq Living
    BY <1>1 DEF TextKept, TextLives, Texts, Living, Memory
  <1>3. PICK new : new = Append(old, views)
    OBVIOUS
  <1>4. /\ new \in Seq(SUBSET Memory) /\ Len(new) = Len(old) + 1
        /\ \A a \in 1 .. Len(new) : new[a] \subseteq Living
    <2>1. /\ new \in Seq(SUBSET Memory) /\ Len(new) = Len(old) + 1
          /\ new[Len(old) + 1] = views
          /\ \A a \in 1 .. Len(old) : new[a] = old[a]
      BY <1>2, <1>3, AppendProperties
    <2> QED BY <1>2, <2>1
  <1>5. text' \in Texts /\ text'.attr = new /\ text'.node = text.node
    BY <1>1, <1>3, <1>4 DEF TextKept, Texts
  <1> QED BY <1>2, <1>4, <1>5 DEF TextKept, TextLives, Address

(* A decoder that goes takes nobody's memory but its own.                  *)
LEMMA LeftBehindTypes ==
  ASSUME NEW ts \in Seq(SUBSET Memory)
  PROVE  LeftBehind(ts) \in Seq(SUBSET Memory) /\ Len(LeftBehind(ts)) = Len(ts)
  <1>1. \A m \in Memory : Left(m) \in Memory
    BY DEF Memory, Left
  <1>2. \A i \in 1 .. Len(ts) : {Left(m) : m \in ts[i]} \in SUBSET Memory
    BY <1>1
  <1> QED BY <1>2 DEF LeftBehind

(* Strings a handler has read are copied before they are kept.             *)
LEMMA PersistentLives ==
  ASSUME NEW strs, NEW i \in DOMAIN strs
  PROVE  Persistent(strs)[i] \in Living
  BY DEF Persistent, needsPersistence, internStrings, Living

(* CH puts its node in front and the other handlers put theirs at the end; *)
(* what AddChild leaves is a tree in order, with one more node under the   *)
(* innermost open element.                                                 *)
LEMMA AddChildKeeps ==
  ASSUME TreeInv, phase # "Document", Len(node) < MaxNodes,
         NEW kind \in Kinds, NEW views \in SUBSET Living,
         AddChild(kind, views)
  PROVE  /\ Tree(node') /\ Ordered(node') /\ Len(node') = Len(node) + 1
         /\ node'[Len(node')].parent = Curr
         /\ \A n \in 1 .. Len(node) : node'[n].parent = node[n].parent
         /\ \A n \in 1 .. Len(node') : node'[n].parent = under'[n]
         /\ Len(under') = Len(node')
         /\ attr' = attr /\ Attr' = Attr
         /\ text' = [text EXCEPT !.node = Append(@, views)]
  <1> DEFINE c == Len(node) + 1
  <1>1. /\ node \in Seq(Node) /\ Len(node) \in 1 .. MaxNodes - 1
        /\ Tree(node) /\ Ordered(node) /\ \A n \in 1 .. Len(node) : node[n] \in Node
    BY XMLTreeAssumption DEF TreeInv, TreeTypeOK
  <1>2. Curr \in 1 .. Len(node) /\ Curr = IF open = << >> THEN 1 ELSE Top
    BY XMLTreeAssumption DEF TreeInv, TreeTypeOK, MirrorsDocument, Top
  <1>3. Joined(node, Curr) /\ \A n \in 1 .. Len(node) : Joined(node, n)
    BY <1>1, <1>2 DEF Tree
  <1>4. /\ node'[c].parent = Curr /\ Len(node') = c
        /\ \A n \in 1 .. Len(node) :
             node'[n].parent = node[n].parent
        /\ Tree(node') /\ Ordered(node')
    <2>1. CASE kind = "data"
      <3>1. node' = prepend_node(allocate_node(node, kind), Curr)
        BY <2>1 DEF AddChild
      <3>2. Tree(node')
        BY <1>1, <1>2, <3>1, PrependTree
      <3>3. node[Curr].first # 0 => node[Curr].first \in 1 .. Len(node)
        BY <1>3 DEF Joined
      <3>4. /\ Len(node') = c
            /\ \A n \in 1 .. Len(node) :
                 /\ node'[n].parent = node[n].parent
                 /\ node'[n].next = node[n].next /\ node'[n].kind = node[n].kind
            /\ node'[c].parent = Curr /\ node'[c].kind = kind
            /\ node'[c].next = node[Curr].first
        BY <1>1, <1>2, <3>1, <3>3, PrependFields
      <3>5. Ordered(node')
        BY <1>1, <1>2, <1>3, <2>1, <3>3, <3>4, SMTT(30) DEF Ordered, Joined
      <3> QED BY <3>2, <3>4, <3>5
    <2>2. CASE kind # "data"
      <3>1. node' = append_node(allocate_node(node, kind), Curr)
        BY <2>2 DEF AddChild
      <3>2. Tree(node')
        BY <1>1, <1>2, <3>1, AppendTree
      <3>3. node[Curr].first # 0 => node[Curr].last \in 1 .. Len(node)
        BY <1>3 DEF Joined
      <3>4. /\ Len(node') = c
            /\ \A n \in 1 .. Len(node) :
                 /\ node'[n].parent = node[n].parent
                 /\ node'[n].kind = node[n].kind
                 /\ node'[n].next = IF node[Curr].first # 0 /\ n = node[Curr].last
                                    THEN c ELSE node[n].next
            /\ node'[c].parent = Curr /\ node'[c].kind = kind
            /\ node'[c].next = 0
        <4> HIDE DEF c
        <4>1. c = Len(node) + 1
          BY DEF c
        <4> QED BY <1>1, <1>2, <3>1, <3>3, <4>1, AppendFields
      <3>5. Ordered(node')
        <4> SUFFICES ASSUME NEW n \in 1 .. c, node'[n].next # 0
                     PROVE  IF node'[node'[n].next].kind = "data"
                            THEN node'[n].kind = "data" /\ node'[n].next < n
                            ELSE node'[n].kind = "data" \/ n < node'[n].next
          BY <3>4 DEF Ordered
        <4>1. n \in 1 .. Len(node)
          BY <1>1, <3>4
        <4>2. CASE node'[n].next = c
          BY <1>1, <2>2, <3>4, <4>1, <4>2
        <4>3. CASE node'[n].next # c
          <5>1. node'[n].next = node[n].next /\ node[n].next \in 1 .. Len(node)
            BY <1>3, <3>4, <4>1, <4>3 DEF Joined
          <5> QED BY <1>1, <3>4, <4>1, <5>1 DEF Ordered
        <4> QED BY <4>2, <4>3
      <3> QED BY <3>2, <3>4, <3>5
    <2> QED BY <2>1, <2>2
  <1>5. text' = [text EXCEPT !.node = Append(@, views)]
    BY DEF AddChild
  <1>6. /\ Len(under) = Len(node) /\ \A n \in 1 .. Len(node) : node[n].parent = under[n]
        /\ under' = Append(under, Curr) /\ attr' = attr /\ Attr' = Attr
    BY <1>2 DEF TreeInv, TreeTypeOK, MirrorsDocument, Address, AddChild, Top
  <1> QED BY <1>1, <1>4, <1>5, <1>6

(* What the other parts of the invariant need of the tree.                 *)
LEMMA NodeTypes ==
  ASSUME TreeTypeOK
  PROVE  /\ node \in Seq(Node) /\ Len(node) \in Nat \ {0}
         /\ attr \in Seq([parent : Link]) /\ Len(attr) \in Nat
         /\ open \in Seq(2 .. Len(node)) /\ Len(open) \in Nat
         /\ \A n \in 1 .. Len(node) : node[n] \in Node
         /\ \A i \in 1 .. Len(open) : open[i] \in 2 .. Len(node)
         /\ open # << >> => Len(open) \in 1 .. Len(open)
  BY XMLTreeAssumption DEF TreeTypeOK

(* A handler that adds a child and moves nothing else.                     *)
LEMMA ChildPreserves ==
  ASSUME TreeInv, phase # "Document", Len(node) < MaxNodes,
         NEW kind \in Kinds, NEW views \in SUBSET Living,
         Child(kind, views), UNCHANGED open, loop' = loop,
         phase' = IF InElement THEN "Content" ELSE phase
  PROVE  TreeInv'
  <1>1. /\ Tree(node') /\ Ordered(node') /\ Len(node') = Len(node) + 1
        /\ \A n \in 1 .. Len(node) : node'[n].parent = node[n].parent
        /\ \A n \in 1 .. Len(node') : node'[n].parent = under'[n]
        /\ Len(under') = Len(node')
        /\ attr' = attr /\ Attr' = Attr
        /\ text' = [text EXCEPT !.node = Append(@, views)]
    BY AddChildKeeps DEF Child
  <1>2. Curr' = Curr /\ open' = open
    BY DEF Child
  <1>3. TreeTypeOK
    BY DEF TreeInv
  <1>4. phase' \in Phases /\ InElement' = InElement /\ (phase' = "Document") = FALSE
    BY <1>3 DEF TreeTypeOK, Phases, InElement
  <1>5. open' \in Seq(2 .. Len(node'))
    BY <1>1, <1>2, <1>3, NodeTypes
  <1>6. TreeTypeOK' /\ TextKept'
    <2>1. TextKept'
      BY <1>1, <1>3, NodeTypes, NodeTextKept DEF TreeInv, TreeTypeOK, TextKept
    <2>2. TreeTypeOK'
      BY <1>1, <1>2, <1>3, <1>4, <1>5, <2>1, NodeTypes DEF TreeTypeOK, Tree, TextKept
    <2> QED BY <2>1, <2>2
  <1>7. OpenIsChain'
    <2> SUFFICES ASSUME NEW i \in 1 .. Len(open)
                 PROVE  node'[open[i]].parent = IF i = 1 THEN 1 ELSE open[i - 1]
      BY <1>2 DEF OpenIsChain
    <2>1. open[i] \in 1 .. Len(node)
      <3>1. open[i] \in 2 .. Len(node)
        BY <1>3, NodeTypes
      <3>2. Len(node) \in Nat
        BY <1>3, NodeTypes
      <3> QED BY <3>1, <3>2
    <2>2. node[open[i]].parent = IF i = 1 THEN 1 ELSE open[i - 1]
      BY DEF TreeInv, OpenIsChain
    <2> QED BY <1>1, <2>1, <2>2
  <1>8. OpenInElement'
    BY <1>2, <1>4 DEF TreeInv, OpenInElement
  <1>9. MirrorsDocument'
    BY <1>1, <1>2 DEF TreeInv, MirrorsDocument, Address, Top
  <1> QED BY <1>1, <1>6, <1>7, <1>8, <1>9 DEF TreeInv, TextKept

(* SE: the new element is the new top of the stack, ...                    *)
LEMMA SEPreserves ==
  ASSUME TreeInv, NEW prefixed \in BOOLEAN, handleSE(prefixed), loop' = loop
  PROVE  TreeInv'
  <1> DEFINE c == Len(node) + 1
  <1>0. phase # "Document" /\ Len(node) < MaxNodes
    BY DEF handleSE, CanGrow
  <1>1. /\ Tree(node') /\ Ordered(node') /\ Len(node') = c
        /\ node'[c].parent = Curr
        /\ \A n \in 1 .. Len(node) : node'[n].parent = node[n].parent
        /\ \A n \in 1 .. Len(node') : node'[n].parent = under'[n]
        /\ Len(under') = Len(node')
        /\ attr' = attr /\ Attr' = Attr
        /\ text' = [text EXCEPT !.node = Append(@, {FullName(prefixed)})]
    <2>1. {FullName(prefixed)} \in SUBSET Living /\ "element" \in Kinds
      BY DEF FullName, Living, Kinds
    <2>2. AddChild("element", {FullName(prefixed)})
      BY DEF handleSE, SE
    <2> QED BY <1>0, <2>1, <2>2, AddChildKeeps
  <1>2. Curr' = c /\ open' = Append(open, c) /\ phase' = "StartTag"
    BY DEF handleSE, SE
  <1>3. TreeTypeOK /\ c \in Nat /\ c \in 2 .. c
    BY NodeTypes DEF TreeInv
  <1>4. Curr = IF open = << >> THEN 1 ELSE Top
    BY <1>0 DEF TreeInv, MirrorsDocument
  <1>5. /\ open' \in Seq(2 .. Len(node')) /\ Len(open') = Len(open) + 1
        /\ open' # << >> /\ open'[Len(open')] = c
        /\ \A i \in 1 .. Len(open) : open'[i] = open[i]
    <2>1. /\ open \in Seq(2 .. Len(node)) /\ Len(open) \in Nat
          /\ Len(node) \in Nat /\ Len(node') = c
      BY <1>1, <1>3, NodeTypes
    <2>2. 2 .. Len(node) \subseteq 2 .. c /\ c \in 2 .. c
      BY <1>3, <2>1
    <2> HIDE DEF c
    <2>3. open \in Seq(2 .. c)
      <3> DEFINE old == 2 .. Len(node)
                 new == 2 .. c
      <3>1. open \in Seq(old) /\ old \subseteq new
        BY <2>1, <2>2
      <3> HIDE DEF old, new
      <3>2. open \in Seq(new)
        BY ONLY <3>1, SeqMonotonic
      <3> QED BY <3>2 DEF new
    <2>4. /\ Append(open, c) \in Seq(2 .. c) /\ Len(Append(open, c)) = Len(open) + 1
          /\ Append(open, c) # << >> /\ Append(open, c)[Len(open) + 1] = c
          /\ \A i \in 1 .. Len(open) : Append(open, c)[i] = open[i]
      BY ONLY <2>2, <2>3, AppendProperties
    <2> QED BY <1>2, <2>1, <2>4
  <1>6. TreeTypeOK' /\ TextKept'
    <2>1. {FullName(prefixed)} \in SUBSET Living
      BY DEF FullName, Living
    <2>2. TextKept'
      BY <1>0, <1>1, <1>3, <2>1, NodeTypes, NodeTextKept DEF TreeInv, TreeTypeOK, TextKept
    <2>3. TreeTypeOK'
      BY <1>1, <1>2, <1>3, <1>5, <2>2, NodeTypes DEF TreeTypeOK, Tree, Phases, TextKept
    <2> QED BY <2>2, <2>3
  <1>7. OpenIsChain'
    <2> SUFFICES ASSUME NEW i \in 1 .. Len(open')
                 PROVE  node'[open'[i]].parent = IF i = 1 THEN 1 ELSE open'[i - 1]
      BY DEF OpenIsChain
    <2>1. CASE i \in 1 .. Len(open)
      <3>1. open[i] \in 1 .. Len(node) /\ open'[i] = open[i]
        <4>1. Len(node) \in Nat /\ \A j \in 1 .. Len(open) : open[j] \in 2 .. Len(node)
          BY <1>3, NodeTypes
        <4> QED BY <1>5, <2>1, <4>1
      <3>2. i # 1 => open'[i - 1] = open[i - 1]
        <4>1. Len(open) \in Nat
          BY <1>3, NodeTypes
        <4>2. i # 1 => i - 1 \in 1 .. Len(open)
          BY <2>1, <4>1
        <4> QED BY <1>5, <4>2
      <3>3. node[open[i]].parent = IF i = 1 THEN 1 ELSE open[i - 1]
        BY <2>1 DEF TreeInv, OpenIsChain
      <3> QED BY <1>1, <3>1, <3>2, <3>3
    <2>2. CASE i = Len(open) + 1
      <3>1. node'[open'[i]].parent = Curr
        BY <1>1, <1>5, <2>2
      <3>2. CASE open = << >>
        BY <1>4, <2>2, <3>1, <3>2
      <3>3. CASE open # << >>
        BY <1>3, <1>4, <1>5, <2>2, <3>1, <3>3, NodeTypes DEF Top
      <3> QED BY <3>2, <3>3
    <2> QED BY <1>3, <1>5, <2>1, <2>2, NodeTypes
  <1>8. OpenInElement'
    BY <1>2, <1>5 DEF OpenInElement, InElement
  <1>9. MirrorsDocument'
    BY <1>1, <1>2, <1>5 DEF MirrorsDocument, Address, Top
  <1> QED BY <1>1, <1>6, <1>7, <1>8, <1>9 DEF TreeInv, TextKept

(* ... and EE goes to its parent, which is the one below.                  *)
LEMMA EEPreserves ==
  ASSUME TreeInv, handleEE, loop' = loop
  PROVE  TreeInv'
  <1>1. /\ InElement /\ node' = node /\ attr' = attr /\ Attr' = Attr /\ under' = under
        /\ text' = text
        /\ Curr' = IF node[Curr].parent # 0 THEN node[Curr].parent ELSE 1
        /\ open' = SubSeq(open, 1, Len(open) - 1)
        /\ phase' = IF Len(open) = 1 THEN "DocEnd" ELSE "Content"
    BY DEF handleEE, EE
  <1>2. TreeTypeOK /\ open # << >> /\ Len(open) \in Nat \ {0}
    BY <1>1, NodeTypes DEF TreeInv, OpenInElement
  <1>3. /\ Curr = open[Len(open)]
        /\ node[Curr].parent = IF Len(open) = 1 THEN 1 ELSE open[Len(open) - 1]
    <2>1. Curr = open[Len(open)]
      BY <1>1, <1>2 DEF TreeInv, MirrorsDocument, InElement, Top
    <2>2. Len(open) \in 1 .. Len(open)
      BY <1>2
    <2>3. node[open[Len(open)]].parent = IF Len(open) = 1 THEN 1 ELSE open[Len(open) - 1]
      BY <2>2 DEF TreeInv, OpenIsChain
    <2> QED BY <2>1, <2>3
  <1>4. /\ open' \in Seq(2 .. Len(node')) /\ Len(open') = Len(open) - 1
        /\ \A i \in 1 .. Len(open') : open'[i] = open[i]
    <2>1. PICK o : o = open /\ o \in Seq(2 .. Len(node)) /\ Len(o) \in Nat \ {0}
      BY <1>2, NodeTypes
    <2>2. PICK k \in Nat \ {0} : k = Len(o)
      BY <2>1
    <2>3. PICK q : q = SubSeq(o, 1, k - 1)
      OBVIOUS
    <2>4. /\ q \in Seq(2 .. Len(node)) /\ Len(q) = k - 1
          /\ \A i \in 1 .. Len(q) : q[i] = o[i]
      <3>1. k - 1 \in Nat /\ k - 1 \in Int /\ 1 \in Int
        BY ONLY <2>2
      <3>2. \A i \in 1 .. k - 1 : o[i] \in 2 .. Len(node)
        BY ONLY <2>1, <2>2
      <3>3. /\ q \in Seq(2 .. Len(node))
            /\ Len(q) = IF 1 <= k - 1 THEN k - 1 - 1 + 1 ELSE 0
            /\ \A i \in 1 .. k - 1 - 1 + 1 : q[i] = o[1 + i - 1]
        BY ONLY <2>3, <3>1, <3>2, SubSeqProperties
      <3> QED BY ONLY <3>1, <3>3
    <2> QED BY <1>1, <2>1, <2>2, <2>3, <2>4
  <1>5. Curr' = IF Len(open) = 1 THEN 1 ELSE open[Len(open) - 1]
    <2>1. Len(open) # 1 => Len(open) - 1 \in 1 .. Len(open)
      <3>1. PICK k \in Nat \ {0} : k = Len(open)
        BY <1>2
      <3>2. k # 1 => k - 1 \in 1 .. k
        OBVIOUS
      <3> QED BY <3>1, <3>2
    <2>2. \A i \in 1 .. Len(open) : open[i] \in 2 .. Len(node)
      BY <1>2, NodeTypes
    <2>3. Len(open) # 1 => open[Len(open) - 1] # 0
      BY <2>1, <2>2
    <2> QED BY <1>1, <1>3, <2>3
  <1>6. /\ Len(open) = 1 => open' = << >>
        /\ Len(open) # 1 => open' # << >> /\ open'[Len(open')] = open[Len(open) - 1]
    BY <1>2, <1>4
  <1>7. Curr' \in 0 .. Len(node')
    <2>1. Len(open) # 1 => Len(open) - 1 \in 1 .. Len(open)
      <3>1. PICK k \in Nat \ {0} : k = Len(open)
        BY <1>2
      <3>2. k # 1 => k - 1 \in 1 .. k
        OBVIOUS
      <3> QED BY <3>1, <3>2
    <2>2. Len(node) \in Nat \ {0} /\ \A i \in 1 .. Len(open) : open[i] \in 2 .. Len(node)
      BY <1>2, NodeTypes
    <2> QED BY <1>1, <1>5, <2>1, <2>2
  <1>8. TreeTypeOK'
    BY <1>1, <1>2, <1>4, <1>7 DEF TreeTypeOK, Phases
  <1>9. OpenIsChain'
    <2> SUFFICES ASSUME NEW i \in 1 .. Len(open')
                 PROVE  node[open'[i]].parent = IF i = 1 THEN 1 ELSE open'[i - 1]
      BY <1>1 DEF OpenIsChain
    <2>1. /\ i \in 1 .. Len(open) /\ open'[i] = open[i]
          /\ i # 1 => open'[i - 1] = open[i - 1]
      BY <1>2, <1>4
    <2> QED BY <2>1 DEF TreeInv, OpenIsChain
  <1>10. OpenInElement'
    BY <1>1, <1>6 DEF OpenInElement, InElement
  <1>11. MirrorsDocument'
    BY <1>1, <1>5, <1>6 DEF TreeInv, MirrorsDocument, Address, Top
  <1>12. TextLives'
    BY <1>1 DEF TreeInv, TextLives, Address, InElement
  <1> QED BY <1>1, <1>8, <1>9, <1>10, <1>11, <1>12 DEF TreeInv

(* SD clears the pool but for the document itself.                         *)
LEMMA SDPreserves ==
  ASSUME TreeInv, StartDocument, loop' = loop
  PROVE  TreeInv'
  <1>1. /\ node' = << [node[1] EXCEPT !.first = 0] >> /\ under' = << 0 >>
        /\ attr' = << >> /\ Curr' = 1 /\ Attr' = 0 /\ text' = ClearedText
        /\ phase = "Document" /\ phase' = "DocContent" /\ open' = open
    BY DEF StartDocument, SD, ClearedNodes
  <1>2. PICK x \in Node : x = node[1]
    BY NodeTypes DEF TreeInv
  <1>3. x.parent = 0 /\ x.prev = 0 /\ x.next = 0
    BY <1>2, NodeTypes DEF TreeInv, Tree, Rooted
  <1>4. PICK y : y = [x EXCEPT !.first = 0]
    OBVIOUS
  <1>5. /\ y \in Node /\ y.first = 0
        /\ y.parent = 0 /\ y.prev = 0 /\ y.next = 0
    BY <1>3, <1>4, XMLTreeAssumption DEF Node, Link
  <1>6. node' = << y >> /\ node' \in Seq(Node) /\ Len(node') = 1 /\ node'[1] = y
    BY <1>1, <1>2, <1>4, <1>5
  <1>7. open = << >>
    BY <1>1 DEF TreeInv, OpenInElement, InElement
  <1>8. Tree(node') /\ Ordered(node')
    BY <1>5, <1>6, XMLTreeAssumption DEF Tree, Rooted, Joined, Ordered
  <1>9. TextKept'
    BY <1>1, <1>6 DEF TextKept, TextLives, Address, ClearedText, Texts
  <1>10. TreeTypeOK'
    BY <1>1, <1>6, <1>7, <1>9, XMLTreeAssumption DEF TreeInv, TreeTypeOK, Phases, TextKept
  <1>11. OpenIsChain' /\ OpenInElement'
    BY <1>1, <1>7 DEF OpenIsChain, OpenInElement, InElement
  <1>12. MirrorsDocument'
    BY <1>1, <1>5, <1>6, <1>7 DEF MirrorsDocument, Address
  <1> QED BY <1>8, <1>9, <1>10, <1>11, <1>12 DEF TreeInv, TextKept

(* AT touches the attributes only.                                         *)
LEMMA ATPreserves ==
  ASSUME TreeInv, NEW prefixed \in BOOLEAN, handleAT(prefixed), loop' = loop
  PROVE  TreeInv'
  <1>1. PICK e : e = [parent |-> 0]
    OBVIOUS
  <1>2. e \in [parent : Link] /\ e.parent = 0
    BY <1>1, XMLTreeAssumption DEF Link
  <1>3. /\ attr \in Seq([parent : Link]) /\ Len(attr) \in Nat
    BY NodeTypes DEF TreeInv
  <1>4. PICK as : as = Append(attr, e)
    OBVIOUS
  <1>5. /\ as \in Seq([parent : Link]) /\ Len(as) = Len(attr) + 1
        /\ as[Len(attr) + 1] = e
    BY ONLY <1>2, <1>3, <1>4
  <1>6. attr' = append_attribute(as, Len(attr) + 1, Curr) /\ Attr' = Len(attr) + 1
    BY <1>1, <1>4 DEF handleAT, AT
  <1>7. attr' = as
    BY <1>2, <1>5, <1>6 DEF append_attribute
  <1>8. /\ node' = node /\ under' = under /\ open' = open /\ Curr' = Curr /\ phase' = phase
    BY DEF handleAT, AT
  <1>9. Attr' \in 0 .. Len(attr')
    <2>1. PICK k \in Nat : k = Len(attr)
      BY <1>3
    <2>2. k + 1 \in 0 .. k + 1
      BY ONLY <2>1
    <2> QED BY ONLY <1>5, <1>6, <1>7, <2>1, <2>2
  <1>10. TextKept'
    <2>1. /\ {FullName(prefixed), "decoder"} \in SUBSET Living
          /\ text' = [text EXCEPT !.attr = Append(@, {FullName(prefixed), "decoder"})]
          /\ phase # "Document"
      BY DEF handleAT, AT, FullName, Living
    <2> QED BY <1>3, <1>5, <1>7, <1>8, <2>1, AttributeTextKept
            DEF TreeInv, TreeTypeOK, TextKept
  <1>11. TreeTypeOK'
    BY <1>5, <1>7, <1>8, <1>9, <1>10 DEF TreeInv, TreeTypeOK, TextKept
  <1> QED
    BY <1>8, <1>10, <1>11 DEF TreeInv, OpenIsChain, OpenInElement, InElement,
       MirrorsDocument, Address, Top, TextKept

(* Every round of the loop, every return from it and every call of         *)
(* decodeBody.                                                             *)
LEMMA StepPreserves ==
  ASSUME TreeInv, [Next]_treeVars
  PROVE  TreeInv'
  <1>1. CASE Decode
    <2>0. loop' = loop
      BY <1>1 DEF Decode
    <2>1. CASE StartDocument
      BY <2>0, <2>1, SDPreserves
    <2>2. ASSUME NEW prefixed \in BOOLEAN, handleSE(prefixed) PROVE TreeInv'
      BY <2>0, <2>2, SEPreserves
    <2>3. ASSUME NEW prefixed \in BOOLEAN, handleAT(prefixed) PROVE TreeInv'
      BY <2>0, <2>3, ATPreserves
    <2>4. CASE handleEE
      BY <2>0, <2>4, EEPreserves
    <2>5. CASE handleCH
      <3>1. /\ phase # "Document" /\ Len(node) < MaxNodes /\ Child("data", {"decoder"})
            /\ UNCHANGED open /\ phase' = IF InElement THEN "Content" ELSE phase
        BY <2>5 DEF handleCH, InElement, CanGrow
      <3>2. "data" \in Kinds /\ {"decoder"} \in SUBSET Living
        BY DEF Kinds, Living
      <3> QED BY <2>0, <3>1, <3>2, ChildPreserves
    <2>6. CASE handleCM
      <3> DEFINE strs == Persistent(<< ReadString >>)
      <3>1. /\ phase # "Document" /\ Len(node) < MaxNodes /\ Child("comment", {strs[1]})
            /\ UNCHANGED open /\ phase' = IF InElement THEN "Content" ELSE phase
        BY <2>6 DEF handleCM, CanGrow
      <3>2. "comment" \in Kinds /\ {strs[1]} \in SUBSET Living
        <4>1. 1 \in DOMAIN << ReadString >>
          OBVIOUS
        <4>2. strs[1] \in Living
          BY <4>1, PersistentLives
        <4> HIDE DEF strs
        <4> QED BY <4>2 DEF Kinds
      <3> HIDE DEF strs
      <3> QED BY <2>0, <3>1, <3>2, ChildPreserves
    <2>7. CASE handlePI
      <3> DEFINE strs == Persistent(<< ReadString, ReadString >>)
      <3>1. /\ phase # "Document" /\ Len(node) < MaxNodes
            /\ Child("pi", {strs[1], strs[2]})
            /\ UNCHANGED open /\ phase' = IF InElement THEN "Content" ELSE phase
        BY <2>7 DEF handlePI, CanGrow
      <3>2. "pi" \in Kinds /\ {strs[1], strs[2]} \in SUBSET Living
        <4>1. {1, 2} \subseteq DOMAIN << ReadString, ReadString >>
          OBVIOUS
        <4>2. strs[1] \in Living /\ strs[2] \in Living
          BY <4>1, PersistentLives
        <4> HIDE DEF strs
        <4> QED BY <4>2 DEF Kinds
      <3> HIDE DEF strs
      <3> QED BY <2>0, <3>1, <3>2, ChildPreserves
    <2>8. CASE handleDT
      <3> DEFINE strs == Persistent(<< ReadString, ReadString, ReadString, ReadString >>)
      <3>1. /\ phase # "Document" /\ Len(node) < MaxNodes /\ Child("doctype", {strs[4]})
            /\ UNCHANGED open /\ phase' = IF InElement THEN "Content" ELSE phase
        BY <2>8 DEF handleDT, CanGrow, InElement
      <3>2. "doctype" \in Kinds /\ {strs[4]} \in SUBSET Living
        <4>1. 4 \in DOMAIN << ReadString, ReadString, ReadString, ReadString >>
          OBVIOUS
        <4>2. strs[4] \in Living
          BY <4>1, PersistentLives
        <4> HIDE DEF strs
        <4> QED BY <4>2 DEF Kinds
      <3> HIDE DEF strs
      <3> QED BY <2>0, <3>1, <3>2, ChildPreserves
    <2> QED BY <1>1, <2>1, <2>2, <2>3, <2>4, <2>5, <2>6, <2>7, <2>8
            DEF Decode, decodeEvent
  <1>2. CASE Finish
    <2>1. /\ Curr' = 1 /\ Attr' = 0 /\ loop' = "done" /\ phase = "DocEnd"
          /\ UNCHANGED << node, attr, under, phase, open, text >>
      BY <1>2 DEF Finish, EndDocument, ED
    <2>2. TreeTypeOK /\ Len(node) \in Nat \ {0} /\ Len(attr) \in Nat
      BY NodeTypes DEF TreeInv
    <2>3. open = << >>
      BY <2>1 DEF TreeInv, OpenInElement, InElement
    <2>4. 1 \in 0 .. Len(node) /\ 0 \in 0 .. Len(attr)
      BY ONLY <2>2
    <2>5. TreeTypeOK'
      BY <2>1, <2>2, <2>4 DEF TreeTypeOK
    <2>6. MirrorsDocument'
      BY <2>1, <2>3 DEF TreeInv, MirrorsDocument, Address
    <2> QED BY <2>1, <2>5, <2>6
            DEF TreeInv, OpenIsChain, OpenInElement, InElement, TextLives, Address
  <1>3. CASE Fail
    <2>1. /\ loop' = "failed" /\ UNCHANGED << node, attr, Curr, Attr, open, under, text >>
          /\ phase # "Document"
          /\ UNCHANGED phase \/ (phase = "StartTag" /\ phase' = "Content")
      BY <1>3 DEF Fail, FailedEvent
    <2>2. TreeTypeOK'
      BY <2>1 DEF TreeInv, TreeTypeOK, Phases
    <2>3. OpenInElement'
      BY <2>1 DEF TreeInv, OpenInElement, InElement
    <2>4. MirrorsDocument'
      BY <2>1 DEF TreeInv, MirrorsDocument, Address, Top
    <2> QED BY <2>1, <2>2, <2>3, <2>4 DEF TreeInv, OpenIsChain, TextLives, Address
  <1>4. CASE OutOfData \/ UNCHANGED treeVars
    <2>1. /\ loop' \in {"running", "done", "failed"}
          /\ UNCHANGED << node, attr, Curr, Attr, phase, open, under, text >>
      BY <1>4 DEF OutOfData, treeVars, TreeInv, TreeTypeOK
    <2>2. TreeTypeOK'
      BY <2>1 DEF TreeInv, TreeTypeOK
    <2> QED BY <2>1, <2>2
            DEF TreeInv, OpenIsChain, OpenInElement, InElement, MirrorsDocument, Top,
                TextLives, Address
  <1>5. ASSUME NEW sameDecoder \in BOOLEAN, decodeBody(sameDecoder) PROVE TreeInv'
    <2>1. /\ loop' = "running" /\ UNCHANGED << node, attr, Curr, Attr, under >>
          /\ \/ UNCHANGED << phase, open, text >>
             \/ /\ phase' = "Document" /\ open' = << >>
                /\ text' = [node |-> LeftBehind(text.node), attr |-> LeftBehind(text.attr)]
      BY <1>5 DEF decodeBody
    <2>2. TreeTypeOK'
      <3>0. TreeTypeOK /\ open \in Seq(2 .. Len(node)) /\ phase \in Phases
        BY DEF TreeInv, TreeTypeOK
      <3>1. TreeTypeOK /\ open' \in Seq(2 .. Len(node)) /\ phase' \in Phases
        <4>1. CASE UNCHANGED << phase, open >>
          BY <3>0, <4>1
        <4>2. CASE phase' = "Document" /\ open' = << >>
          BY <3>0, <4>2 DEF Phases
        <4> QED BY <2>1, <4>1, <4>2
      <3>2. text' \in Texts /\ Len(text'.node) = Len(node) /\ Len(text'.attr) = Len(attr)
        <4>1. /\ text \in Texts /\ text.node \in Seq(SUBSET Memory)
              /\ text.attr \in Seq(SUBSET Memory)
              /\ Len(text.node) = Len(node) /\ Len(text.attr) = Len(attr)
          BY <3>0 DEF TreeTypeOK, Texts
        <4>2. CASE text' = text
          BY <4>1, <4>2
        <4>3. CASE text' = [node |-> LeftBehind(text.node), attr |-> LeftBehind(text.attr)]
          <5>1. /\ LeftBehind(text.node) \in Seq(SUBSET Memory)
                /\ Len(LeftBehind(text.node)) = Len(text.node)
            BY <4>1, LeftBehindTypes
          <5>2. /\ LeftBehind(text.attr) \in Seq(SUBSET Memory)
                /\ Len(LeftBehind(text.attr)) = Len(text.attr)
            BY <4>1, LeftBehindTypes
          <5> QED BY <4>1, <4>3, <5>1, <5>2 DEF Texts
        <4> QED BY <2>1, <4>2, <4>3
      <3> QED BY ONLY <2>1, <3>1, <3>2 DEF TreeTypeOK
    <2>3. OpenInElement' /\ OpenIsChain'
      BY <2>1 DEF TreeInv, OpenInElement, InElement, OpenIsChain
    <2>4. MirrorsDocument'
      BY <2>1 DEF TreeInv, MirrorsDocument, Address, Top
    <2>5. TextLives'
      BY <2>1 DEF TreeInv, TextLives, Address
    <2> QED BY <2>1, <2>2, <2>3, <2>4, <2>5 DEF TreeInv
  <1> QED BY <1>1, <1>2, <1>3, <1>4, <1>5 DEF Next

(* The serializer as it is constructed.                                    *)
LEMMA InitHolds == Init => TreeInv
  <1> SUFFICES ASSUME Init PROVE TreeInv
    OBVIOUS
  <1>1. Blank \in Node
    BY XMLTreeAssumption DEF Blank, Node, Link, Kinds
  <1>2. node = << Blank >> /\ node \in Seq(Node) /\ Len(node) = 1 /\ node[1] = Blank
    BY <1>1 DEF Init
  <1>3. TreeTypeOK
    BY <1>2, XMLTreeAssumption DEF Init, TreeTypeOK, Phases, ClearedText, Texts
  <1>4. Tree(node) /\ Ordered(node)
    BY <1>2, XMLTreeAssumption DEF Tree, Rooted, Joined, Ordered, Blank
  <1>5. MirrorsDocument /\ TextLives
    BY <1>2 DEF Init, MirrorsDocument, TextLives, Address, Blank
  <1> QED BY <1>3, <1>4, <1>5 DEF TreeInv, Init, OpenIsChain, OpenInElement, InElement

(* The invariant of the serializer.                                        *)
LEMMA InvariantHolds == Spec => []TreeInv
  BY InitHolds, StepPreserves, PTL DEF Spec

-----------------------------------------------------------------------------
(* Theorems                                                                *)

(* The tree is well formed and the serializer's pointers are into it, for  *)
(* documents of any size (XMLSerializer).                                  *)
THEOREM TreeTypeCorrect == Spec => []TreeTypeOK
  <1>1. TreeInv => TreeTypeOK
    BY DEF TreeInv
  <1> QED BY <1>1, InvariantHolds, PTL

(* append_node and prepend_node, in whatever order the events call them,   *)
(* keep the links of every list of children in agreement.                  *)
THEOREM LinksAlwaysAgree == Spec => []LinksAgree
  <1>1. TreeInv => LinksAgree
    BY DEF TreeInv, Tree, Rooted, Joined, LinksAgree, Address
  <1> QED BY <1>1, InvariantHolds, PTL

(* The parent links EE climbs and the stack of the schema lead to the same *)
(* element, and every node hangs where its event was.                      *)
THEOREM TreeMirrorsDocument == Spec => []MirrorsDocument
  <1>1. TreeInv => MirrorsDocument
    BY DEF TreeInv
  <1> QED BY <1>1, InvariantHolds, PTL

(* Only character data leaves the order of the document (CH prepends).     *)
THEOREM OrderKept == Spec => []OnlyTextMoves
  <1>1. TreeInv => OnlyTextMoves
    <2> SUFFICES ASSUME TreeInv, NEW n \in Address, node[n].next # 0
                 PROVE  IF node[node[n].next].kind = "data"
                        THEN node[n].kind = "data" /\ node[n].next < n
                        ELSE node[n].kind = "data" \/ n < node[n].next
      BY DEF OnlyTextMoves
    <2> QED BY DEF TreeInv, Ordered, Address
  <1> QED BY <1>1, InvariantHolds, PTL

(* What a handler read into a buffer of its own has been copied before a   *)
(* node keeps a view of it, and no node of an earlier decoder's document   *)
(* is left in the tree of the next (internStrings, clear).                 *)
THEOREM TextStaysAlive == Spec => []TextLives
  <1>1. TreeInv => TextLives
    BY DEF TreeInv
  <1> QED BY <1>1, InvariantHolds, PTL
=============================================================================
