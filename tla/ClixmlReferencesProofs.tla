----------------------- MODULE ClixmlReferencesProofs -----------------------
(***************************************************************************)
(* ReferencesKnown, GraphKept and NamesKept, for graphs of any number of   *)
(* objects with any properties and entries: what the reader makes of a     *)
(* document is what the writer was given.                                  *)
(***************************************************************************)
EXTENDS ClixmlReferences, SequenceTheorems, WellFoundedInduction, NaturalsInduction, TLAPS
-----------------------------------------------------------------------------
(* The invariants *)

Kinds == {"string", "custom", "list", "dict", "queue"}
AllNames == {<<>>} \union NameLists \union {KindNames[k] : k \in DOMAIN KindNames}
Parts == {"props", "items"}

Nodes == [tag : {"S", "Ref", "Obj"}, obj : Objects, kind : Kinds, ref : Nat,
          tn : [tag : {"none", "TN", "TNRef"}, id : Nat, names : AllNames],
          props : Seq(Nat), items : Seq(Nat)]
Roots == [tag : {"Objs"}, kind : {"Objs"}, items : Seq(Nat)]

DocType(d) ==
    /\ d \in Seq(Nodes \union Roots) /\ Len(d) # 0 /\ d[1] \in Roots
    /\ \A x \in 2..Len(d) : d[x] \in Nodes

\* What an element of the document has for its properties, or for its entries.
Kids(d, p, part) == IF part = "items" THEN d[p].items ELSE IF p = 1 THEN <<>> ELSE d[p].props

IsObj(d, x) == x \in 2..Len(d) /\ d[x].tag = "Obj"

\* The tree of a document, in the order it is written: par is the parent of each element.
Tree(d, par) ==
    /\ DOMAIN par = 2..Len(d)
    /\ \A x \in 2..Len(d) : /\ par[x] \in 1..(x - 1) /\ (par[x] = 1 \/ IsObj(d, par[x]))
                            /\ \E part \in Parts : \E i \in 1..Len(Kids(d, par[x], part)) : Kids(d, par[x], part)[i] = x
                            /\ \A y \in 2..(x - 1) : par[x] < y => par[x] <= par[y]
    /\ \A p \in 1..Len(d), part \in Parts : \A i \in 1..Len(Kids(d, p, part)) :
          /\ Kids(d, p, part)[i] \in 2..Len(d) /\ par[Kids(d, p, part)[i]] = p
          /\ \A j \in 1..(i - 1) : Kids(d, p, part)[j] < Kids(d, p, part)[i]

\* Every element stands for a member of what its parent stands for, in the same place.
Faithful(d, h) ==
    /\ \A x \in 2..Len(d) : /\ d[x].kind = h[d[x].obj].kind
                            /\ d[x].tag = "S" <=> h[d[x].obj].kind = "string" /\ h[d[x].obj].props = <<>>
    /\ \A p \in 2..Len(d), part \in Parts : \A i \in 1..Len(Kids(d, p, part)) :
          /\ i \in 1..Len(h[d[p].obj][part])
          /\ d[Kids(d, p, part)[i]].obj = h[d[p].obj][part][i]

SlotSet == [parent : Nat, part : Parts, obj : Objects]
SameSlot(s, t) == s.parent = t.parent /\ s.part = t.part

\* What is still to be written: pos is the place a slot is for.
SlotOk(td, d, h, par, pos, t) ==
    LET s == td[t]
        kids == Kids(d, s.parent, s.part)
    IN  /\ (s.parent = 1 /\ s.part = "items") \/ IsObj(d, s.parent)
        /\ \A u \in 1..(t - 1) : s.parent <= td[u].parent /\ (SameSlot(td[u], s) => pos[u] < pos[t])
        /\ \A y \in 2..Len(d) : s.parent < y => s.parent <= par[y]
        /\ pos[t] \in Nat /\ Len(kids) < pos[t]
        /\ s.parent # 1 => /\ pos[t] \in 1..Len(h[d[s.parent].obj][s.part])
                           /\ s.obj = h[d[s.parent].obj][s.part][pos[t]]
        /\ \A k \in (Len(kids) + 1)..pos[t] : \E u \in 1..Len(td) : SameSlot(td[u], s) /\ pos[u] = k
TodoOk(td, d, h, par, pos) ==
    /\ td \in Seq(SlotSet) /\ DOMAIN pos = 1..Len(td)
    /\ \A t \in 1..Len(td) : SlotOk(td, d, h, par, pos, t)

\* The entries of a dict are written, or its last one is still to be.
DictOk(td, d, h, pos, p) ==
    IsObj(d, p) /\ d[p].kind = "dict" /\ Len(d[p].items) # Len(h[d[p].obj].items) =>
      \E t \in 1..Len(td) : td[t].parent = p /\ td[t].part = "items" /\ pos[t] = Len(h[d[p].obj].items)
DictsOk(td, d, h, pos) == \A p \in 2..Len(d) : DictOk(td, d, h, pos, p)

RefsOk ==
    /\ obj_ref_id \in Nat
    /\ \A entry \in obj_ref : entry = <<entry[1], entry[2]>> /\ \E x \in 2..Len(doc) :
          doc[x].tag = "Obj" /\ doc[x].ref = entry[2] /\ entry[1] \in Key(doc[x].obj)
    /\ \A e1, e2 \in obj_ref : e1[1] = e2[1] => e1[2] = e2[2]
    /\ \A x \in 2..Len(doc) :
          /\ doc[x].tag = "Obj" => /\ doc[x].ref < obj_ref_id
                                   /\ \A y \in 2..Len(doc) : doc[y].tag = "Obj" /\ doc[y].ref = doc[x].ref => x = y
          /\ doc[x].tag # "S" => \A k \in Key(doc[x].obj) : <<k, doc[x].ref>> \in obj_ref
          /\ doc[x].tag = "Ref" => /\ Key(doc[x].obj) # {}
                                   /\ \E y \in 2..(x - 1) : doc[y].tag = "Obj" /\ doc[y].ref = doc[x].ref

NewNames(d, x, id) == d[x].tag = "Obj" /\ d[x].tn.tag = "TN" /\ d[x].tn.id = id
NamesOk ==
    /\ tn_ref_list \in Seq({tn[1] : tn \in AllNames})
    /\ \A id \in 1..Len(tn_ref_list) : \E x \in 2..Len(doc) : NewNames(doc, x, id)
    /\ \A x \in 2..Len(doc) : doc[x].tag = "Obj" /\ doc[x].kind # "string" =>
          LET tn == doc[x].tn
          IN  /\ tn.tag \in {"TN", "TNRef"} /\ tn.id \in 1..Len(tn_ref_list)
              /\ tn_ref_list[tn.id] = heap[doc[x].obj].names[1]
              /\ tn.tag = "TN" => tn.names = heap[doc[x].obj].names
              /\ tn.tag = "TNRef" => \E y \in 2..(x - 1) : NewNames(doc, y, tn.id)
    /\ \A x \in 2..Len(doc) : doc[x].tag = "Obj" /\ doc[x].kind = "string" => doc[x].tn.tag = "none"

NotRead ==
    /\ toread = <<1>> /\ obj_ref_map = <<>> /\ tn_ref_map = <<>> /\ ~failed
    /\ value = [e \in ElementIds |-> 0] /\ names = [e \in ElementIds |-> <<>>]

ReadOk ==
    /\ toread \in Seq(1..Len(doc))
    /\ value = [e \in ElementIds |-> value[e]] /\ names = [e \in ElementIds |-> names[e]] /\ value[1] = 0
    /\ \A x \in 2..Len(doc) : value[x] # 0 =>
          /\ doc[x].tag # "Ref" => value[x] = x
          /\ doc[x].tag = "Ref" => IsObj(doc, value[x]) /\ doc[value[x]].ref = doc[x].ref
          /\ doc[x].tag = "Obj" => /\ doc[x].ref \in DOMAIN obj_ref_map
                                   /\ doc[x].tn.tag = "TN" => doc[x].tn.id \in DOMAIN tn_ref_map
    /\ \A id \in DOMAIN obj_ref_map : IsObj(doc, obj_ref_map[id]) /\ doc[obj_ref_map[id]].ref = id
    /\ \A id \in DOMAIN tn_ref_map :
          /\ id \in 1..Len(tn_ref_list)
          /\ \E o \in Objects : /\ heap[o].kind # "string" /\ tn_ref_map[id] = heap[o].names
                                /\ tn_ref_list[id] = heap[o].names[1]

NotPlain(d, x) == d[x].tag # "S"

\* In a document d of which v has been read, tr is next: parents first, and what
\* can be referred to in the order it was written.
Ready(par, v, x) == par[x] = 1 \/ v[par[x]] # 0
Later(d, v, x) == v[x] = 0 /\ \A y \in 2..Len(d) : NotPlain(d, y) /\ v[y] # 0 => y < x
OrderOf(d, par, tr, v) ==
    /\ \A i \in 1..Len(tr) : Ready(par, v, tr[i]) /\ (NotPlain(d, tr[i]) => Later(d, v, tr[i]))
    /\ \A i, j \in 1..Len(tr) : i < j /\ NotPlain(d, tr[i]) /\ NotPlain(d, tr[j]) => tr[i] < tr[j]
    /\ \A x \in 2..Len(d) : IF v[x] # 0 THEN Ready(par, v, x)
                             ELSE (\E i \in 1..Len(tr) : tr[i] = x) \/ ~Ready(par, v, x)

\* Whoever is straight is read in the order it was written.
InOrder(par) == ~failed /\ (NotRead \/ OrderOf(doc, par, toread, value))

WellShaped == heap \in [Objects -> Shapes] /\ WellFormed(heap)

\* What the writer has made, and what it has yet to do.
Writing(par, pos) ==
    /\ WellShaped /\ DocType(doc) /\ Len(doc) <= MaxElements
    /\ Tree(doc, par) /\ Faithful(doc, heap)
    /\ TodoOk(todo, doc, heap, par, pos) /\ DictsOk(todo, doc, heap, pos)
    /\ emptied \subseteq {o \in Objects : heap[o].kind = "queue"}

NamesRead ==
    \A x \in 2..Len(doc) :
        doc[x].tag = "Obj" /\ doc[x].kind # "string" /\ value[x] # 0 => names[x] = heap[doc[x].obj].names

CInvFor(par, pos) ==
    /\ Writing(par, pos) /\ RefsOk /\ NamesOk
    /\ NotRead \/ (todo = <<>> /\ toread \in Seq(2..Len(doc)))
    /\ ReadOk
    /\ Straight => InOrder(par)
    /\ NamesByFirst => NamesRead

CInv == \E par, pos : CInvFor(par, pos)

-----------------------------------------------------------------------------
(* Numbers and objects *)

\* A set of numbers that is not empty has a least one.
LEMMA LeastOf ==
    ASSUME NEW T \in SUBSET Nat, T # {}
    PROVE  \E n \in T : \A m \in T : n <= m
<1>1. IsWellFoundedOn(OpToRel(<, Nat), Nat)
  BY NatLessThanWellFounded
<1>2. PICK x \in T : \A y \in T : ~(<<y, x>> \in OpToRel(<, Nat))
  BY <1>1, WFMin
<1>3. \A y \in T : ~(y < x)
  BY <1>2 DEF OpToRel
<1> QED
  BY <1>3

\* What Append does to a sequence of numbers.
LEMMA AppendAt ==
    ASSUME NEW s \in Seq(Nat), NEW n \in Nat
    PROVE  /\ Append(s, n) \in Seq(Nat) /\ Len(Append(s, n)) = Len(s) + 1 /\ Append(s, n)[Len(s) + 1] = n
           /\ \A i \in 1..Len(s) : i \in 1..Len(Append(s, n)) /\ Append(s, n)[i] = s[i]
OBVIOUS

\* The fields of a shape, whatever its kind.
LEMMA ShapeOf ==
    ASSUME NEW s \in Shapes
    PROVE  /\ s.kind \in Kinds /\ s.names \in AllNames
           /\ s.props \in Seq(Objects) /\ s.items \in Seq(Objects)
           /\ s.kind # "string" => s.names # <<>>
           /\ s.kind = "dict" => Len(s.items) \in {0, 2}
<1>1. \A m \in Members : m \in Seq(Objects)
  BY ClixmlReferencesAssumption DEF Members
<1>2. <<>> \in Seq(Objects) /\ Len(<<>>) = 0
  OBVIOUS
<1> DEFINE Fine == /\ s.kind \in Kinds /\ s.names \in AllNames
                   /\ s.props \in Seq(Objects) /\ s.items \in Seq(Objects)
                   /\ s.kind # "string" => s.names # <<>>
                   /\ s.kind = "dict" => Len(s.items) \in {0, 2}
<1>3. ASSUME NEW t \in Texts, NEW p \in Members, s = Object("string", t, <<>>, p, <<>>)
      PROVE  Fine
  <2>1. s.kind = "string" /\ s.names = <<>> /\ s.props = p /\ s.items = <<>>
    BY <1>3 DEF Object
  <2> QED
    BY <1>1, <1>2, <2>1 DEF Kinds, AllNames
<1>4. ASSUME NEW n \in NameLists, NEW p \in Members, s = Object("custom", "", n, p, <<>>)
      PROVE  Fine
  <2>1. s.kind = "custom" /\ s.names = n /\ s.props = p /\ s.items = <<>>
    BY <1>4 DEF Object
  <2>2. n # <<>>
    <3>1. PICK a \in FirstNames, b \in Rests : n = <<a, b>>
      BY DEF NameLists
    <3>2. <<a, b>> # <<>>
      OBVIOUS
    <3> QED
      BY <3>1, <3>2
  <2> QED
    BY <1>1, <1>2, <2>1, <2>2 DEF Kinds, AllNames
<1>5. ASSUME NEW k \in DOMAIN KindNames, NEW p \in Members, NEW i \in Members, s = Object(k, "", KindNames[k], p, i),
             s.kind = "dict" => Len(s.items) \in {0, 2}
      PROVE  Fine
  <2>1. k \in Kinds /\ KindNames[k] # <<>>
    BY DEF Kinds, KindNames
  <2>2. KindNames[k] \in AllNames
    BY DEF AllNames
  <2>3. s.kind = k /\ s.names = KindNames[k] /\ s.props = p /\ s.items = i
    BY <1>5 DEF Object
  <2> QED
    BY <1>1, <1>5, <2>1, <2>2, <2>3
<1> HIDE DEF Fine
<1>6. \/ \E t \in Texts, p \in Members : s = Object("string", t, <<>>, p, <<>>)
      \/ \E n \in NameLists, p \in Members : s = Object("custom", "", n, p, <<>>)
      \/ \E k \in DOMAIN KindNames, p \in Members, i \in Members :
            s = Object(k, "", KindNames[k], p, i) /\ (s.kind = "dict" => Len(s.items) \in {0, 2})
  <2>1. s \in Strings => \E t \in Texts, p \in {m \in Members : Len(m) <= 1} : s = String(t, p)
    BY DEF Strings
  <2>2. s \in Customs => \E n \in NameLists, p \in Members : s = Custom(n, p)
    BY DEF Customs
  <2>3. s \in Containers => /\ \E k \in DOMAIN KindNames, p \in Members, i \in Members : s = Container(k, p, i)
                            /\ s.kind = "dict" => Len(s.items) \in {0, 2}
    BY DEF Containers
  <2>4. CASE s \in Strings
    <3>1. PICK t \in Texts, p \in {m \in Members : Len(m) <= 1} : s = String(t, p)
      BY <2>1, <2>4
    <3> QED
      BY <3>1 DEF String
  <2>5. CASE s \in Customs
    <3>1. PICK n \in NameLists, p \in Members : s = Custom(n, p)
      BY <2>2, <2>5
    <3> QED
      BY <3>1 DEF Custom
  <2>6. CASE s \in Containers
    <3>1. PICK k \in DOMAIN KindNames, p \in Members, i \in Members : s = Container(k, p, i)
      BY <2>3, <2>6
    <3> QED
      BY <2>3, <2>6, <3>1 DEF Container
  <2> QED
    BY <2>4, <2>5, <2>6 DEF Shapes
<1>7. Fine
  BY <1>3, <1>4, <1>5, <1>6
<1> QED
  BY <1>7 DEF Fine

\* The fields of the caller's objects.
LEMMA HeapShapes ==
    ASSUME WellShaped, NEW o \in Objects
    PROVE  /\ heap[o].kind \in Kinds /\ heap[o].names \in AllNames
           /\ heap[o].props \in Seq(Objects) /\ heap[o].items \in Seq(Objects)
           /\ heap[o].kind # "string" => heap[o].names # <<>>
           /\ heap[o].kind = "dict" => Len(heap[o].items) \in {0, 2}
BY ShapeOf DEF WellShaped
-----------------------------------------------------------------------------
(* An element more *)

\* The document d with another element, x, in a part of p.
WithNode(d, p, part, x) == Append([d EXCEPT ![p][part] = Append(@, Len(d) + 1)], x)

Grown(d, w, p, part, x) ==
    /\ DocType(w) /\ Len(w) = Len(d) + 1 /\ w[Len(d) + 1] = x
    /\ \A i \in 2..Len(d) : /\ w[i].tag = d[i].tag /\ w[i].obj = d[i].obj /\ w[i].kind = d[i].kind
                            /\ w[i].ref = d[i].ref /\ w[i].tn = d[i].tn
    /\ \A i \in 1..Len(d), q \in Parts :
          Kids(w, i, q) = IF i = p /\ q = part THEN Append(Kids(d, i, q), Len(d) + 1) ELSE Kids(d, i, q)
    /\ \A q \in Parts : Kids(w, Len(d) + 1, q) = <<>>

\* Writing an element adds it to one part of its parent and changes nothing else.
LEMMA WrittenNode ==
    ASSUME NEW d, DocType(d), NEW p \in 1..Len(d), NEW part \in Parts, p = 1 => part = "items",
           NEW x \in Nodes, x.props = <<>>, x.items = <<>>
    PROVE  Grown(d, WithNode(d, p, part, x), p, part, x)
<1> DEFINE n == Len(d) + 1
           u == [d[p] EXCEPT ![part] = Append(@, n)]
           v == [d EXCEPT ![p] = u]
           w == Append(v, x)
<1>1. /\ d \in Seq(Nodes \union Roots) /\ Len(d) \in Nat /\ Len(d) # 0 /\ d[1] \in Roots
      /\ \A i \in 2..Len(d) : d[i] \in Nodes
  BY DEF DocType
<1>2. WithNode(d, p, part, x) = w
  BY DEF WithNode
<1>3. p = 1 => u \in Roots /\ u.items = Append(d[1].items, n)
  <2> SUFFICES ASSUME p = 1 PROVE u \in Roots /\ u.items = Append(d[1].items, n)
    OBVIOUS
  <2>1. u = [d[1] EXCEPT !.items = Append(@, n)]
    OBVIOUS
  <2>2. d[1].items \in Seq(Nat) /\ n \in Nat
    BY <1>1 DEF Roots
  <2>3. Append(d[1].items, n) \in Seq(Nat)
    BY <2>2
  <2> QED
    BY <1>1, <2>1, <2>3 DEF Roots
<1>4. p # 1 => /\ u \in Nodes /\ u.tag = d[p].tag /\ u.obj = d[p].obj /\ u.kind = d[p].kind
               /\ u.ref = d[p].ref /\ u.tn = d[p].tn
               /\ u.items = IF part = "items" THEN Append(d[p].items, n) ELSE d[p].items
               /\ u.props = IF part = "props" THEN Append(d[p].props, n) ELSE d[p].props
  <2> SUFFICES ASSUME p # 1
               PROVE  /\ u \in Nodes /\ u.tag = d[p].tag /\ u.obj = d[p].obj /\ u.kind = d[p].kind
                      /\ u.ref = d[p].ref /\ u.tn = d[p].tn
                      /\ u.items = IF part = "items" THEN Append(d[p].items, n) ELSE d[p].items
                      /\ u.props = IF part = "props" THEN Append(d[p].props, n) ELSE d[p].props
    OBVIOUS
  <2>1. d[p] \in Nodes
    BY <1>1
  <2> DEFINE e == d[p]
  <2>2. e.items \in Seq(Nat) /\ e.props \in Seq(Nat) /\ n \in Nat
    BY <1>1, <2>1 DEF Nodes
  <2> HIDE DEF n, e
  <2>3. Append(e.items, n) \in Seq(Nat) /\ Append(e.props, n) \in Seq(Nat)
    BY <2>2
  <2>4. CASE part = "items"
    <3>1. u = [e EXCEPT !.items = Append(@, n)]
      BY <2>4 DEF e
    <3> QED
      BY <2>1, <2>3, <2>4, <3>1 DEF Nodes, e
  <2>5. CASE part = "props"
    <3>1. u = [e EXCEPT !.props = Append(@, n)]
      BY <2>5 DEF e
    <3> QED
      BY <2>1, <2>3, <2>5, <3>1 DEF Nodes, e
  <2> QED
    BY <2>4, <2>5 DEF Parts
<1> HIDE DEF u
<1>5. /\ v \in Seq(Nodes \union Roots) /\ Len(v) = Len(d)
      /\ \A i \in 1..Len(d) : v[i] = IF i = p THEN u ELSE d[i]
  BY <1>1, <1>3, <1>4
<1> HIDE DEF v
<1>6. /\ w \in Seq(Nodes \union Roots) /\ Len(w) = n /\ w[n] = x
      /\ \A i \in 1..Len(d) : w[i] = IF i = p THEN u ELSE d[i]
  BY <1>1, <1>5
<1> HIDE DEF w, n
<1>7. DocType(w)
  <2>1. w[1] \in Roots
    BY <1>1, <1>3, <1>6
  <2>2. ASSUME NEW i \in 2..n PROVE w[i] \in Nodes
    <3>1. i \in 2..Len(d) \/ i = n
      BY <1>1 DEF n
    <3> QED
      BY <1>1, <1>4, <1>6, <3>1
  <2> QED
    BY <1>1, <1>6, <2>1, <2>2 DEF DocType, n
<1>8. \A i \in 2..Len(d) : /\ w[i].tag = d[i].tag /\ w[i].obj = d[i].obj /\ w[i].kind = d[i].kind
                           /\ w[i].ref = d[i].ref /\ w[i].tn = d[i].tn
  BY <1>1, <1>4, <1>6
<1>9. ASSUME NEW i \in 1..Len(d), NEW q \in Parts
      PROVE  Kids(w, i, q) = IF i = p /\ q = part THEN Append(Kids(d, i, q), n) ELSE Kids(d, i, q)
  BY <1>3, <1>4, <1>6 DEF Kids, Parts
<1>10. \A q \in Parts : Kids(w, n, q) = <<>>
  <2>1. n # 1
    BY <1>1 DEF n
  <2> QED
    BY <1>6, <2>1 DEF Kids, Parts
<1> QED
  BY <1>2, <1>6, <1>7, <1>8, <1>9, <1>10 DEF n, Grown

\* The members of an element are numbers.
LEMMA KidsType ==
    ASSUME NEW d, DocType(d), NEW p \in 1..Len(d), NEW part \in Parts
    PROVE  Kids(d, p, part) \in Seq(Nat)
<1>1. d[1] \in Roots /\ \A i \in 2..Len(d) : d[i] \in Nodes
  BY DEF DocType
<1>2. p = 1 \/ p \in 2..Len(d)
  BY DEF DocType
<1> QED
  BY <1>1, <1>2 DEF Kids, Nodes, Roots

\* The parents of the elements when p has got another one.
WithParent(d, par, p) == [x \in 2..(Len(d) + 1) |-> IF x = Len(d) + 1 THEN p ELSE par[x]]

\* The document stays a tree in the order of writing, as long as nothing outside of
\* the branch of the new element is written after it.
LEMMA TreeGrows ==
    ASSUME NEW d, NEW w, NEW par, NEW p \in 1..Len(d), NEW part \in Parts, NEW x,
           DocType(d), Grown(d, w, p, part, x), Tree(d, par), p = 1 \/ IsObj(d, p),
           \A y \in 2..Len(d) : p < y => p <= par[y]
    PROVE  Tree(w, WithParent(d, par, p))
<1> DEFINE n == Len(d) + 1
           wp == WithParent(d, par, p)
<1>1. Len(d) \in Nat /\ Len(d) # 0 /\ n \in Nat /\ n \in 2..n
  BY DEF DocType
<1>2. /\ Len(w) = n
      /\ \A i \in 2..Len(d) : w[i].tag = d[i].tag
      /\ \A i \in 1..Len(d), q \in Parts :
            Kids(w, i, q) = IF i = p /\ q = part THEN Append(Kids(d, i, q), n) ELSE Kids(d, i, q)
      /\ \A q \in Parts : Kids(w, n, q) = <<>>
  BY DEF Grown
<1>3. DOMAIN wp = 2..n /\ wp[n] = p /\ \A y \in 2..Len(d) : wp[y] = par[y]
  BY <1>1 DEF WithParent
<1>4. \A q \in 1..Len(d), r \in Parts : Kids(d, q, r) \in Seq(Nat)
  BY KidsType
<1>5. \A y \in 2..n : y = n \/ y \in 2..Len(d)
  BY <1>1
<1>6. \A q \in 1..n : q = n \/ q \in 1..Len(d)
  BY <1>1
<1>7. \A q \in 2..Len(d) : IsObj(d, q) => IsObj(w, q)
  BY <1>1, <1>2 DEF IsObj
<1>8. ASSUME NEW y \in 2..Len(d)
      PROVE  /\ par[y] \in 1..(y - 1) /\ (par[y] = 1 \/ IsObj(d, par[y]))
             /\ \E r \in Parts : \E i \in 1..Len(Kids(d, par[y], r)) : Kids(d, par[y], r)[i] = y
             /\ \A z \in 2..(y - 1) : par[y] < z => par[y] <= par[z]
  BY DEF Tree
<1>9. ASSUME NEW q \in 1..Len(d), NEW r \in Parts, NEW i \in 1..Len(Kids(d, q, r))
      PROVE  /\ Kids(d, q, r)[i] \in 2..Len(d) /\ par[Kids(d, q, r)[i]] = q
             /\ \A j \in 1..(i - 1) : Kids(d, q, r)[j] < Kids(d, q, r)[i]
  BY DEF Tree
<1> HIDE DEF n, wp
<1>10. ASSUME NEW q \in 1..Len(d), NEW r \in Parts, NEW i \in 1..Len(Kids(d, q, r))
       PROVE  i \in 1..Len(Kids(w, q, r)) /\ Kids(w, q, r)[i] = Kids(d, q, r)[i]
  <2>1. Kids(d, q, r) \in Seq(Nat)
    BY <1>4
  <2>2. Kids(w, q, r) = Append(Kids(d, q, r), n) \/ Kids(w, q, r) = Kids(d, q, r)
    BY <1>2
  <2>3. i \in 1..Len(Append(Kids(d, q, r), n)) /\ Append(Kids(d, q, r), n)[i] = Kids(d, q, r)[i]
    BY <1>1, <2>1, AppendAt
  <2> QED
    BY <2>2, <2>3
<1>11. n \in 1..n /\ p \in 1..n - 1
  BY <1>1 DEF n
<1>12. ASSUME NEW y \in 2..n
       PROVE  /\ wp[y] \in 1..(y - 1) /\ (wp[y] = 1 \/ IsObj(w, wp[y]))
              /\ \E r \in Parts : \E i \in 1..Len(Kids(w, wp[y], r)) : Kids(w, wp[y], r)[i] = y
              /\ \A z \in 2..(y - 1) : wp[y] < z => wp[y] <= wp[z]
  <2>1. CASE y = n
    <3>1. wp[y] \in 1..(y - 1) /\ (wp[y] = 1 \/ IsObj(w, wp[y]))
      BY <1>1, <1>3, <1>7, <1>11, <2>1 DEF IsObj
    <3>2. Kids(w, p, part) = Append(Kids(d, p, part), n) /\ Kids(d, p, part) \in Seq(Nat)
      BY <1>2, <1>4
    <3>3. LET i == Len(Kids(d, p, part)) + 1 IN i \in 1..Len(Kids(w, p, part)) /\ Kids(w, p, part)[i] = n
      BY <1>1, <3>2
    <3>4. \A z \in 2..(y - 1) : z \in 2..Len(d)
      BY <1>1, <2>1 DEF n
    <3>5. \A z \in 2..(y - 1) : wp[y] < z => wp[y] <= wp[z]
      BY <1>3, <2>1, <3>4
    <3> QED
      BY <1>3, <2>1, <3>1, <3>3, <3>5
  <2>2. CASE y \in 2..Len(d)
    <3>1. wp[y] = par[y] /\ par[y] \in 1..Len(d)
      BY <1>1, <1>3, <1>8, <2>2
    <3>2. wp[y] \in 1..(y - 1) /\ (wp[y] = 1 \/ IsObj(w, wp[y]))
      BY <1>7, <1>8, <2>2, <3>1 DEF IsObj
    <3>3. PICK r \in Parts : \E i \in 1..Len(Kids(d, par[y], r)) : Kids(d, par[y], r)[i] = y
      BY <1>8, <2>2
    <3>4. \E i \in 1..Len(Kids(w, wp[y], r)) : Kids(w, wp[y], r)[i] = y
      BY <1>10, <3>1, <3>3
    <3>5. \A z \in 2..(y - 1) : z \in 2..Len(d)
      BY <1>1, <2>2
    <3>6. \A z \in 2..(y - 1) : wp[y] < z => wp[y] <= wp[z]
      BY <1>3, <1>8, <2>2, <3>1, <3>5
    <3> QED
      BY <3>2, <3>4, <3>6
  <2> QED
    BY <1>5, <2>1, <2>2
<1>13. ASSUME NEW q \in 1..n, NEW r \in Parts, NEW i \in 1..Len(Kids(w, q, r))
       PROVE  /\ Kids(w, q, r)[i] \in 2..n /\ wp[Kids(w, q, r)[i]] = q
              /\ \A j \in 1..(i - 1) : Kids(w, q, r)[j] < Kids(w, q, r)[i]
  <2>1. q \in 1..Len(d)
    BY <1>2, <1>6
  <2>2. Kids(d, q, r) \in Seq(Nat)
    BY <1>4, <2>1
  <2>3. CASE i \in 1..Len(Kids(d, q, r))
    <3>1. \A j \in 1..(i - 1) : j \in 1..Len(Kids(d, q, r))
      BY <2>2, <2>3
    <3>2. \A j \in 1..i : Kids(w, q, r)[j] = Kids(d, q, r)[j]
      BY <1>10, <2>1, <2>2, <2>3
    <3>3. Kids(w, q, r)[i] = Kids(d, q, r)[i]
      BY <1>10, <2>1, <2>3
    <3>4. Kids(d, q, r)[i] \in 2..n
      BY <1>1, <1>9, <2>1, <2>3 DEF n
    <3> QED
      BY <1>1, <1>3, <1>9, <1>10, <2>1, <2>3, <3>1, <3>3, <3>4
  <2>4. CASE i \notin 1..Len(Kids(d, q, r))
    <3>1. q = p /\ r = part /\ Kids(w, q, r) = Append(Kids(d, q, r), n)
      BY <1>2, <2>1, <2>4
    <3>2. i = Len(Kids(d, q, r)) + 1 /\ Kids(w, q, r)[i] = n
      BY <1>1, <2>2, <2>4, <3>1
    <3>3. \A j \in 1..(i - 1) : j \in 1..Len(Kids(d, q, r))
      BY <2>2, <3>2
    <3>4. \A j \in 1..(i - 1) : Kids(w, q, r)[j] < n
      <4> SUFFICES ASSUME NEW j \in 1..(i - 1) PROVE Kids(w, q, r)[j] < n
        OBVIOUS
      <4>1. Kids(w, q, r)[j] \in 2..Len(d)
        BY <1>9, <1>10, <2>1, <3>3
      <4> QED
        BY <1>1, <4>1 DEF n
    <3> QED
      BY <1>1, <1>3, <3>1, <3>2, <3>4
  <2> QED
    BY <2>3, <2>4
<1>14. DOMAIN wp = 2..Len(w)
  BY <1>2, <1>3
<1>15. \A y \in 2..Len(w) :
          /\ wp[y] \in 1..(y - 1) /\ (wp[y] = 1 \/ IsObj(w, wp[y]))
          /\ \E r \in Parts : \E i \in 1..Len(Kids(w, wp[y], r)) : Kids(w, wp[y], r)[i] = y
          /\ \A z \in 2..(y - 1) : wp[y] < z => wp[y] <= wp[z]
  BY ONLY <1>2, <1>12
<1>16. \A q \in 1..Len(w), r \in Parts : \A i \in 1..Len(Kids(w, q, r)) :
          /\ Kids(w, q, r)[i] \in 2..Len(w) /\ wp[Kids(w, q, r)[i]] = q
          /\ \A j \in 1..(i - 1) : Kids(w, q, r)[j] < Kids(w, q, r)[i]
  BY ONLY <1>2, <1>13
<1>17. Tree(w, wp)
  BY ONLY <1>14, <1>15, <1>16 DEF Tree
<1> QED
  BY <1>17 DEF wp

\* The new element stands for the next member of what its parent stands for.
LEMMA FaithfulGrows ==
    ASSUME NEW d, NEW w, NEW par, NEW h, NEW p \in 1..Len(d), NEW part \in Parts, NEW x,
           DocType(d), Grown(d, w, p, part, x), Tree(d, par), Faithful(d, h),
           x.kind = h[x.obj].kind, x.tag = "S" <=> h[x.obj].kind = "string" /\ h[x.obj].props = <<>>,
           p # 1 => LET k == Len(Kids(d, p, part)) + 1
                    IN  k \in 1..Len(h[d[p].obj][part]) /\ x.obj = h[d[p].obj][part][k]
    PROVE  Faithful(w, h)
<1> DEFINE n == Len(d) + 1
<1>1. Len(d) \in Nat /\ Len(d) # 0 /\ n \in Nat
  BY DEF DocType
<1>2. /\ Len(w) = n /\ w[n] = x
      /\ \A i \in 2..Len(d) : w[i].tag = d[i].tag /\ w[i].obj = d[i].obj /\ w[i].kind = d[i].kind
      /\ \A i \in 1..Len(d), q \in Parts :
            Kids(w, i, q) = IF i = p /\ q = part THEN Append(Kids(d, i, q), n) ELSE Kids(d, i, q)
      /\ \A q \in Parts : Kids(w, n, q) = <<>>
  BY DEF Grown
<1>3. \A q \in 1..Len(d), r \in Parts : Kids(d, q, r) \in Seq(Nat)
  BY KidsType
<1>4. \A y \in 2..n : y = n \/ y \in 2..Len(d)
  BY <1>1
<1> HIDE DEF n
<1>5. ASSUME NEW y \in 2..n
      PROVE  /\ w[y].kind = h[w[y].obj].kind
             /\ w[y].tag = "S" <=> h[w[y].obj].kind = "string" /\ h[w[y].obj].props = <<>>
  <2>1. CASE y = n
    BY <1>2, <2>1
  <2>2. CASE y \in 2..Len(d)
    BY <1>2, <2>2 DEF Faithful
  <2> QED
    BY <1>4, <2>1, <2>2
<1>6. ASSUME NEW q \in 2..n, NEW r \in Parts, NEW i \in 1..Len(Kids(w, q, r))
      PROVE  /\ i \in 1..Len(h[w[q].obj][r])
             /\ w[Kids(w, q, r)[i]].obj = h[w[q].obj][r][i]
  <2>1. q \in 2..Len(d) /\ q \in 1..Len(d)
    BY <1>1, <1>2, <1>4
  <2>2. Kids(d, q, r) \in Seq(Nat) /\ w[q].obj = d[q].obj
    BY <1>2, <1>3, <2>1
  <2>3. CASE i \in 1..Len(Kids(d, q, r))
    <3>1. Kids(w, q, r)[i] = Kids(d, q, r)[i]
      <4>1. Kids(w, q, r) = Append(Kids(d, q, r), n) \/ Kids(w, q, r) = Kids(d, q, r)
        BY <1>2, <2>1
      <4>2. Append(Kids(d, q, r), n)[i] = Kids(d, q, r)[i]
        BY <1>1, <2>2, <2>3, AppendAt
      <4> QED
        BY <4>1, <4>2
    <3>2. Kids(d, q, r)[i] \in 2..Len(d)
      BY <2>1, <2>3 DEF Tree
    <3>3. i \in 1..Len(h[d[q].obj][r]) /\ d[Kids(d, q, r)[i]].obj = h[d[q].obj][r][i]
      BY <2>1, <2>3 DEF Faithful
    <3> QED
      BY <1>2, <2>2, <3>1, <3>2, <3>3
  <2>4. CASE i \notin 1..Len(Kids(d, q, r))
    <3>1. q = p /\ r = part /\ Kids(w, q, r) = Append(Kids(d, q, r), n)
      BY <1>2, <2>1, <2>4
    <3>2. i = Len(Kids(d, q, r)) + 1 /\ Kids(w, q, r)[i] = n
      BY <1>1, <2>2, <2>4, <3>1
    <3>3. p # 1
      BY <1>1, <3>1
    <3> QED
      BY <1>2, <2>2, <3>1, <3>2, <3>3
  <2> QED
    BY <2>3, <2>4
<1> QED
  BY <1>2, <1>5, <1>6 DEF Faithful

\* The slot that is written next is for the place after the members written so far.
LEMMA HeadPos ==
    ASSUME NEW d, NEW h, NEW par, NEW td, NEW pos, DocType(d), TodoOk(td, d, h, par, pos), td # <<>>
    PROVE  /\ 1 \in 1..Len(td) /\ Head(td) = td[1] /\ Head(td) \in SlotSet
           /\ Head(td).parent \in 1..Len(d) /\ Head(td).part \in Parts
           /\ pos[1] = Len(Kids(d, Head(td).parent, Head(td).part)) + 1
<1> DEFINE s == Head(td)
           kids == Kids(d, s.parent, s.part)
<1>1. td \in Seq(SlotSet) /\ 1 \in 1..Len(td) /\ s = td[1] /\ s \in SlotSet
  BY DEF TodoOk
<1>2. SlotOk(td, d, h, par, pos, 1)
  BY <1>1 DEF TodoOk
<1>3. Len(d) \in Nat /\ Len(d) # 0
  BY DEF DocType
<1>4. s.parent \in 1..Len(d) /\ s.part \in Parts
  BY <1>1, <1>2, <1>3 DEF SlotOk, IsObj, SlotSet, Parts
<1>5. kids \in Seq(Nat)
  BY <1>4, KidsType
<1>6. pos[1] \in Nat /\ Len(kids) < pos[1] /\ \A k \in (Len(kids) + 1)..pos[1] : \E u \in 1..Len(td) : SameSlot(td[u], s) /\ pos[u] = k
  BY <1>1, <1>2 DEF SlotOk
<1>7. PICK u \in 1..Len(td) : SameSlot(td[u], s) /\ pos[u] = Len(kids) + 1
  BY <1>5, <1>6
<1>8. u # 1 => pos[1] < pos[u]
  <2> SUFFICES ASSUME u # 1 PROVE pos[1] < pos[u]
    OBVIOUS
  <2>1. SlotOk(td, d, h, par, pos, u) /\ 1 \in 1..(u - 1)
    BY <1>1 DEF TodoOk
  <2>2. SameSlot(td[1], td[u])
    BY <1>1, <1>7 DEF SameSlot
  <2> QED
    BY <2>1, <2>2 DEF SlotOk
<1>9. pos[1] = Len(kids) + 1
  BY <1>5, <1>6, <1>7, <1>8
<1> QED
  BY <1>1, <1>4, <1>9

\* The places of the slots after the first.
PosTail(td, pos) == [t \in 1..(Len(td) - 1) |-> pos[t + 1]]

\* What Tail does to a sequence.
LEMMA TailAt ==
    ASSUME NEW S, NEW td \in Seq(S), td # <<>>
    PROVE  /\ Tail(td) \in Seq(S) /\ Len(Tail(td)) = Len(td) - 1 /\ Len(td) - 1 \in Nat
           /\ \A t \in 1..(Len(td) - 1) : Tail(td)[t] = td[t + 1] /\ t + 1 \in 2..Len(td)
           /\ \A t \in 2..Len(td) : t - 1 \in 1..(Len(td) - 1) /\ (t - 1) + 1 = t
OBVIOUS

\* When the first slot is written, the others are still for the places after it.
LEMMA TodoTail ==
    ASSUME NEW d, NEW w, NEW h, NEW par, NEW td, NEW pos, NEW x, td # <<>>,
           DocType(d), Grown(d, w, Head(td).parent, Head(td).part, x), TodoOk(td, d, h, par, pos)
    PROVE  TodoOk(Tail(td), w, h, WithParent(d, par, Head(td).parent), PosTail(td, pos))
<1> DEFINE n == Len(d) + 1
           hd == Head(td)
           wp == WithParent(d, par, hd.parent)
           rest == Tail(td)
           rp == PosTail(td, pos)
<1>1. Len(d) \in Nat /\ Len(d) # 0 /\ n \in Nat
  BY DEF DocType
<1>2. /\ Len(w) = n
      /\ \A i \in 2..Len(d) : w[i].tag = d[i].tag /\ w[i].obj = d[i].obj
      /\ \A i \in 1..Len(d), q \in Parts :
            Kids(w, i, q) = IF i = hd.parent /\ q = hd.part THEN Append(Kids(d, i, q), n) ELSE Kids(d, i, q)
  BY DEF Grown
<1>3. wp[n] = hd.parent /\ \A y \in 2..Len(d) : wp[y] = par[y]
  BY <1>1 DEF WithParent
<1>4. \A q \in 1..Len(d), r \in Parts : Kids(d, q, r) \in Seq(Nat)
  BY KidsType
<1>5. \A y \in 2..n : y = n \/ y \in 2..Len(d)
  BY <1>1
<1>6. td \in Seq(SlotSet) /\ 1 \in 1..Len(td) /\ hd = td[1]
  BY HeadPos DEF TodoOk
<1>7. hd.parent \in 1..Len(d) /\ hd.part \in Parts /\ pos[1] = Len(Kids(d, hd.parent, hd.part)) + 1
  BY HeadPos
<1>8. /\ rest \in Seq(SlotSet) /\ Len(rest) = Len(td) - 1 /\ Len(td) - 1 \in Nat
      /\ \A t \in 1..(Len(td) - 1) : rest[t] = td[t + 1] /\ t + 1 \in 2..Len(td)
      /\ \A t \in 2..Len(td) : t - 1 \in 1..(Len(td) - 1) /\ (t - 1) + 1 = t
  BY <1>6, TailAt
<1>9. DOMAIN rp = 1..(Len(td) - 1) /\ \A t \in 1..(Len(td) - 1) : rp[t] = pos[t + 1]
  BY DEF PosTail
<1>10. \A t \in 1..Len(td) : SlotOk(td, d, h, par, pos, t) /\ td[t] \in SlotSet
  BY <1>6 DEF TodoOk
<1>11. \A q \in 2..Len(d) : IsObj(d, q) => IsObj(w, q)
  BY <1>1, <1>2 DEF IsObj
<1> HIDE DEF n, hd, wp, rest, rp
<1>12. ASSUME NEW t \in 1..Len(rest)
       PROVE  SlotOk(rest, w, h, wp, rp, t)
  <2> DEFINE T == t + 1
             s == td[T]
             kids == Kids(d, s.parent, s.part)
             new == Kids(w, s.parent, s.part)
  <2>1. T \in 2..Len(td) /\ T \in 1..Len(td) /\ rest[t] = s /\ rp[t] = pos[T] /\ t \in 1..(Len(td) - 1)
    BY <1>6, <1>8, <1>9
  <2>2. SlotOk(td, d, h, par, pos, T) /\ s \in SlotSet
    BY <1>10, <2>1
  <2>3. /\ (s.parent = 1 /\ s.part = "items") \/ IsObj(d, s.parent)
        /\ \A u \in 1..(T - 1) : s.parent <= td[u].parent /\ (SameSlot(td[u], s) => pos[u] < pos[T])
        /\ \A y \in 2..Len(d) : s.parent < y => s.parent <= par[y]
        /\ pos[T] \in Nat /\ Len(kids) < pos[T]
        /\ s.parent # 1 => /\ pos[T] \in 1..Len(h[d[s.parent].obj][s.part])
                           /\ s.obj = h[d[s.parent].obj][s.part][pos[T]]
        /\ \A k \in (Len(kids) + 1)..pos[T] : \E u \in 1..Len(td) : SameSlot(td[u], s) /\ pos[u] = k
    BY <2>2 DEF SlotOk
  <2>4. s.parent \in 1..Len(d) /\ s.part \in Parts
    BY <1>1, <2>2, <2>3 DEF SlotSet, IsObj
  <2>5. kids \in Seq(Nat) /\ Len(kids) \in Nat
    BY <1>4, <2>4
  <2>6. IF SameSlot(hd, s) THEN Len(new) = Len(kids) + 1 /\ Len(new) = pos[1] ELSE new = kids
    <3>1. CASE SameSlot(hd, s)
      <4>1. new = Append(kids, n)
        BY <1>2, <2>4, <3>1 DEF SameSlot
      <4> QED
        BY <1>1, <1>7, <2>5, <3>1, <4>1, AppendAt DEF SameSlot
    <3>2. CASE ~SameSlot(hd, s)
      BY <1>2, <2>4, <3>2 DEF SameSlot
    <3> QED
      BY <3>1, <3>2
  <2> HIDE DEF s, kids, new
  <2>7. (s.parent = 1 /\ s.part = "items") \/ IsObj(w, s.parent)
    BY <1>11, <2>3 DEF IsObj
  <2>8. ASSUME NEW u \in 1..(t - 1)
        PROVE  s.parent <= rest[u].parent /\ (SameSlot(rest[u], s) => rp[u] < rp[t])
    <3>1. u \in 1..(Len(td) - 1) /\ u + 1 \in 1..(T - 1)
      BY <1>8, <2>1
    <3>2. rest[u] = td[u + 1] /\ rp[u] = pos[u + 1]
      BY <1>8, <1>9, <3>1
    <3> QED
      BY <2>1, <2>3, <3>1, <3>2
  <2>9. ASSUME NEW y \in 2..n, s.parent < y
        PROVE  s.parent <= wp[y]
    <3>1. s.parent <= hd.parent
      <4>1. 1 \in 1..(T - 1)
        BY <2>1
      <4> QED
        BY <1>6, <2>3, <4>1
    <3> QED
      BY <1>3, <1>5, <2>3, <2>9, <3>1
  <2>10. rp[t] \in Nat /\ Len(new) < rp[t]
    <3>1. CASE SameSlot(hd, s)
      <4>1. 1 \in 1..(T - 1) /\ SameSlot(td[1], s)
        BY <1>6, <2>1, <3>1
      <4> QED
        BY <2>1, <2>3, <2>6, <3>1, <4>1
    <3>2. CASE ~SameSlot(hd, s)
      BY <2>1, <2>3, <2>6, <3>2
    <3> QED
      BY <3>1, <3>2
  <2>11. s.parent # 1 => /\ rp[t] \in 1..Len(h[w[s.parent].obj][s.part])
                         /\ s.obj = h[w[s.parent].obj][s.part][rp[t]]
    <3>1. s.parent # 1 => w[s.parent].obj = d[s.parent].obj
      BY <1>1, <1>2, <2>4
    <3> QED
      BY <2>1, <2>3, <3>1
  <2>12. ASSUME NEW k \in (Len(new) + 1)..rp[t]
         PROVE  \E u \in 1..Len(rest) : SameSlot(rest[u], s) /\ rp[u] = k
    <3>1. k \in (Len(kids) + 1)..pos[T]
      BY <2>1, <2>3, <2>5, <2>6
    <3>2. PICK u \in 1..Len(td) : SameSlot(td[u], s) /\ pos[u] = k
      BY <2>3, <3>1
    <3>3. u # 1
      <4> SUFFICES ASSUME u = 1 PROVE FALSE
        OBVIOUS
      <4>1. SameSlot(hd, s) /\ pos[1] = k
        BY <1>6, <3>2
      <4>2. Len(new) = k
        BY <2>6, <4>1
      <4> QED
        BY <2>1, <2>3, <4>2
    <3>4. u \in 2..Len(td)
      BY <3>3
    <3>5. u - 1 \in 1..Len(rest) /\ rest[u - 1] = td[u] /\ rp[u - 1] = pos[u]
      BY <1>8, <1>9, <3>4
    <3> QED
      BY <3>2, <3>5
  <2> QED
    BY <1>2, <2>1, <2>7, <2>8, <2>9, <2>10, <2>11, <2>12 DEF SlotOk, new
<1>13. TodoOk(rest, w, h, wp, rp)
  BY <1>8, <1>9, <1>12 DEF TodoOk
<1> QED
  BY <1>13 DEF rest, wp, rp, hd

\* An entry of a dict that is written is no longer due, and no other is lost.
LEMMA DictsTail ==
    ASSUME NEW d, NEW w, NEW h, NEW par, NEW td, NEW pos, NEW x, td # <<>>,
           DocType(d), Grown(d, w, Head(td).parent, Head(td).part, x), TodoOk(td, d, h, par, pos),
           DictsOk(td, d, h, pos), NEW p \in 2..Len(d)
    PROVE  DictOk(Tail(td), w, h, PosTail(td, pos), p)
<1> DEFINE hd == Head(td)
           rest == Tail(td)
           rp == PosTail(td, pos)
           whole == h[d[p].obj].items
<1>1. Len(d) \in Nat /\ Len(d) # 0 /\ p \in 1..Len(d) /\ p # 1 /\ "items" \in Parts
  BY DEF DocType, Parts
<1>2. /\ w[p].tag = d[p].tag /\ w[p].kind = d[p].kind /\ w[p].obj = d[p].obj
      /\ Kids(w, p, "items") = IF p = hd.parent /\ "items" = hd.part THEN Append(Kids(d, p, "items"), Len(d) + 1)
                                                                    ELSE Kids(d, p, "items")
  BY <1>1 DEF Grown
<1>3. w[p].items = Kids(w, p, "items") /\ d[p].items = Kids(d, p, "items") /\ d[p].items \in Seq(Nat)
  BY <1>1, KidsType DEF Kids
<1>4. td \in Seq(SlotSet) /\ 1 \in 1..Len(td) /\ hd = td[1]
  BY HeadPos DEF TodoOk
<1>5. hd.parent \in 1..Len(d) /\ hd.part \in Parts /\ pos[1] = Len(Kids(d, hd.parent, hd.part)) + 1
  BY HeadPos
<1>6. /\ rest \in Seq(SlotSet) /\ Len(rest) = Len(td) - 1 /\ Len(td) - 1 \in Nat
      /\ \A t \in 1..(Len(td) - 1) : rest[t] = td[t + 1] /\ t + 1 \in 2..Len(td)
      /\ \A t \in 2..Len(td) : t - 1 \in 1..(Len(td) - 1) /\ (t - 1) + 1 = t
  BY <1>4, TailAt
<1>7. \A t \in 1..(Len(td) - 1) : rp[t] = pos[t + 1]
  BY DEF PosTail
<1>8. IsObj(w, p) => IsObj(d, p)
  BY <1>2 DEF IsObj
<1>9. p = hd.parent /\ "items" = hd.part => Len(w[p].items) = pos[1] /\ pos[1] \in 1..Len(whole)
  <2> SUFFICES ASSUME p = hd.parent, "items" = hd.part
               PROVE  Len(w[p].items) = pos[1] /\ pos[1] \in 1..Len(whole)
    OBVIOUS
  <2>1. SlotOk(td, d, h, par, pos, 1)
    BY <1>4 DEF TodoOk
  <2>2. pos[1] \in 1..Len(whole)
    BY <1>1, <1>4, <2>1 DEF SlotOk
  <2>3. w[p].items = Append(d[p].items, Len(d) + 1)
    BY <1>2, <1>3
  <2> QED
    BY <1>1, <1>3, <1>5, <2>2, <2>3, AppendAt
<1> HIDE DEF rest, rp, hd, whole
<1>10. ASSUME IsObj(w, p), w[p].kind = "dict", Len(w[p].items) # Len(whole)
       PROVE  \E t \in 1..Len(rest) : rest[t].parent = p /\ rest[t].part = "items" /\ rp[t] = Len(whole)
  <2>1. Len(d[p].items) # Len(whole)
    <3>1. CASE p = hd.parent /\ "items" = hd.part
      BY <1>3, <1>5, <1>9, <3>1
    <3>2. CASE ~(p = hd.parent /\ "items" = hd.part)
      BY <1>2, <1>3, <1>10, <3>2
    <3> QED
      BY <3>1, <3>2
  <2>2. PICK t \in 1..Len(td) : td[t].parent = p /\ td[t].part = "items" /\ pos[t] = Len(whole)
    BY <1>2, <1>8, <1>10, <2>1 DEF DictsOk, DictOk, whole
  <2>3. t # 1
    BY <1>4, <1>9, <1>10, <2>2
  <2>4. t - 1 \in 1..Len(rest) /\ rest[t - 1] = td[t] /\ rp[t - 1] = pos[t]
    BY <1>6, <1>7, <2>3
  <2> QED
    BY <2>2, <2>4
<1> QED
  BY <1>2, <1>10 DEF DictOk, rest, rp, whole

\* The places when the slots of objs come first.
PosFirst(objs, td, pos) == [t \in 1..(Len(objs) + Len(td)) |-> IF t <= Len(objs) THEN t ELSE pos[t - Len(objs)]]

\* The slots of an object are its members, in order.
LEMMA SlotsAt ==
    ASSUME NEW n \in Nat, NEW part \in Parts, NEW objs \in Seq(Objects)
    PROVE  /\ Slots(n, part, objs) \in Seq(SlotSet) /\ Len(Slots(n, part, objs)) = Len(objs)
           /\ \A i \in 1..Len(objs) : Slots(n, part, objs)[i] = [parent |-> n, part |-> part, obj |-> objs[i]]
           /\ objs = <<>> => Slots(n, part, objs) = <<>>
<1>1. \A i \in 1..Len(objs) : [parent |-> n, part |-> part, obj |-> objs[i]] \in SlotSet
  BY DEF SlotSet
<1>2. Slots(n, part, objs) = [i \in 1..Len(objs) |-> [parent |-> n, part |-> part, obj |-> objs[i]]]
  BY DEF Slots
<1> QED
  BY <1>1, <1>2

\* What is where in two sequences one after the other.
LEMMA ConcatAt ==
    ASSUME NEW S, NEW a \in Seq(S), NEW b \in Seq(S)
    PROVE  /\ a \o b \in Seq(S) /\ Len(a \o b) = Len(a) + Len(b)
           /\ \A i \in 1..Len(a) : (a \o b)[i] = a[i] /\ i \in 1..Len(a \o b)
           /\ \A i \in 1..Len(b) : (a \o b)[Len(a) + i] = b[i] /\ Len(a) + i \in 1..Len(a \o b)
           /\ \A i \in 1..Len(a \o b) : i \in 1..Len(a) \/ (i - Len(a) \in 1..Len(b) /\ (a \o b)[i] = b[i - Len(a)])
OBVIOUS

\* The slots of a part of the newest element may come before all others.
LEMMA TodoFirst ==
    ASSUME NEW d, NEW h, NEW par, NEW td, NEW pos, NEW part \in Parts, NEW objs \in Seq(Objects),
           DocType(d), TodoOk(td, d, h, par, pos), IsObj(d, Len(d)), Kids(d, Len(d), part) = <<>>,
           objs = h[d[Len(d)].obj][part], \A t \in 1..Len(td) : ~(td[t].parent = Len(d) /\ td[t].part = part)
    PROVE  TodoOk(Slots(Len(d), part, objs) \o td, d, h, par, PosFirst(objs, td, pos))
<1> DEFINE n == Len(d)
           first == Slots(n, part, objs)
           m == Len(objs)
           all == first \o td
           ap == PosFirst(objs, td, pos)
<1>1. n \in Nat /\ n # 0 /\ n # 1
  BY DEF DocType, IsObj
<1>2. /\ first \in Seq(SlotSet) /\ Len(first) = m /\ m \in Nat
      /\ \A i \in 1..m : first[i] = [parent |-> n, part |-> part, obj |-> objs[i]]
  BY <1>1, SlotsAt
<1>3. td \in Seq(SlotSet) /\ Len(td) \in Nat /\ \A t \in 1..Len(td) : SlotOk(td, d, h, par, pos, t) /\ td[t] \in SlotSet
  BY DEF TodoOk
<1> HIDE DEF first, m, n
<1>4. /\ all \in Seq(SlotSet) /\ Len(all) = m + Len(td)
      /\ \A i \in 1..m : all[i] = first[i] /\ i \in 1..Len(all)
      /\ \A i \in 1..Len(td) : all[m + i] = td[i] /\ m + i \in 1..Len(all)
      /\ \A i \in 1..Len(all) : i \in 1..m \/ (i - m \in 1..Len(td) /\ all[i] = td[i - m])
  <2>1. /\ all \in Seq(SlotSet) /\ Len(all) = Len(first) + Len(td)
        /\ \A i \in 1..Len(first) : all[i] = first[i] /\ i \in 1..Len(all)
        /\ \A i \in 1..Len(td) : all[Len(first) + i] = td[i] /\ Len(first) + i \in 1..Len(all)
        /\ \A i \in 1..Len(all) : i \in 1..Len(first) \/ (i - Len(first) \in 1..Len(td) /\ all[i] = td[i - Len(first)])
    <3>1. first \in Seq(SlotSet) /\ td \in Seq(SlotSet)
      BY <1>2, <1>3
    <3>2. all \in Seq(SlotSet) /\ Len(all) = Len(first) + Len(td)
      BY <3>1, ConcatAt
    <3>3. /\ \A i \in 1..Len(first) : all[i] = first[i] /\ i \in 1..Len(all)
          /\ \A i \in 1..Len(td) : all[Len(first) + i] = td[i] /\ Len(first) + i \in 1..Len(all)
      BY <3>1, ConcatAt
    <3>4. \A i \in 1..Len(all) : i \in 1..Len(first) \/ (i - Len(first) \in 1..Len(td) /\ all[i] = td[i - Len(first)])
      BY <3>1, ConcatAt
    <3> QED
      BY <3>2, <3>3, <3>4
  <2> HIDE DEF all
  <2> QED
    BY <1>2, <2>1
<1>5. /\ DOMAIN ap = 1..Len(all)
      /\ \A i \in 1..m : ap[i] = i
      /\ \A i \in 1..Len(td) : ap[m + i] = pos[i]
      /\ \A i \in 1..Len(all) : i - m \in 1..Len(td) => ap[i] = pos[i - m]
  <2>1. \A i \in 1..Len(td) : ~(m + i <= m) /\ (m + i) - m = i
    BY <1>2, <1>3
  <2>2. \A i \in 1..Len(all) : i - m \in 1..Len(td) => ~(i <= m)
    BY <1>2, <1>3, <1>4
  <2>3. DOMAIN ap = 1..Len(all) /\ \A i \in 1..Len(all) : ap[i] = IF i <= m THEN i ELSE pos[i - m]
    BY <1>4 DEF PosFirst, m
  <2> QED
    BY <1>2, <1>4, <2>1, <2>2, <2>3
<1>6. \A t \in 1..Len(td) : td[t].parent <= n
  <2> SUFFICES ASSUME NEW t \in 1..Len(td) PROVE td[t].parent <= n
    OBVIOUS
  <2>1. (td[t].parent = 1 /\ td[t].part = "items") \/ IsObj(d, td[t].parent)
    BY <1>3 DEF SlotOk
  <2> QED
    BY <1>1, <2>1 DEF IsObj, n
<1>7. ASSUME NEW t \in 1..Len(td)
      PROVE  ~SameSlot(td[t], [parent |-> n, part |-> part, obj |-> 1])
  BY DEF SameSlot, n
<1> HIDE DEF all, ap
<1>8. ASSUME NEW t \in 1..Len(all)
      PROVE  SlotOk(all, d, h, par, ap, t)
  <2>1. CASE t \in 1..m
    <3>1. all[t] = [parent |-> n, part |-> part, obj |-> objs[t]] /\ ap[t] = t
      BY <1>2, <1>4, <1>5, <2>1
    <3>2. all[t].parent = n /\ all[t].part = part /\ all[t].obj = objs[t]
      BY <3>1
    <3>3. Kids(d, n, part) = <<>> /\ Len(<<>>) = 0
      BY DEF n
    <3>4. IsObj(d, n)
      BY DEF n
    <3>5. ASSUME NEW u \in 1..(t - 1)
          PROVE  n <= all[u].parent /\ (SameSlot(all[u], all[t]) => ap[u] < ap[t])
      <4>1. u \in 1..m
        BY <1>2, <2>1
      <4> QED
        BY <1>1, <1>2, <1>4, <1>5, <3>1, <4>1
    <3>6. \A y \in 2..Len(d) : ~(n < y)
      BY <1>1 DEF n
    <3>7. t \in Nat /\ 0 < t /\ t \in 1..Len(h[d[n].obj][part]) /\ objs[t] = h[d[n].obj][part][t]
      BY <1>2, <2>1 DEF n, m
    <3>8. ASSUME NEW k \in (0 + 1)..t
          PROVE  \E u \in 1..Len(all) : SameSlot(all[u], all[t]) /\ ap[u] = k
      <4>1. k \in 1..m
        BY <1>2, <2>1
      <4>2. all[k] = [parent |-> n, part |-> part, obj |-> objs[k]] /\ ap[k] = k /\ k \in 1..Len(all)
        BY <1>2, <1>4, <1>5, <4>1
      <4>3. SameSlot(all[k], all[t])
        BY <3>1, <4>2 DEF SameSlot
      <4> QED
        BY <4>2, <4>3
    <3> QED
      BY <3>1, <3>2, <3>3, <3>4, <3>5, <3>6, <3>7, <3>8 DEF SlotOk
  <2>2. CASE t - m \in 1..Len(td) /\ all[t] = td[t - m]
    <3> DEFINE T == t - m
               s == td[T]
    <3>1. T \in 1..Len(td) /\ all[t] = s /\ ap[t] = pos[T] /\ m + T = t /\ s \in SlotSet
      BY <1>2, <1>3, <1>4, <1>5, <2>2
    <3>2. /\ (s.parent = 1 /\ s.part = "items") \/ IsObj(d, s.parent)
          /\ \A u \in 1..(T - 1) : s.parent <= td[u].parent /\ (SameSlot(td[u], s) => pos[u] < pos[T])
          /\ \A y \in 2..Len(d) : s.parent < y => s.parent <= par[y]
          /\ pos[T] \in Nat /\ Len(Kids(d, s.parent, s.part)) < pos[T]
          /\ s.parent # 1 => /\ pos[T] \in 1..Len(h[d[s.parent].obj][s.part])
                             /\ s.obj = h[d[s.parent].obj][s.part][pos[T]]
          /\ \A k \in (Len(Kids(d, s.parent, s.part)) + 1)..pos[T] : \E u \in 1..Len(td) : SameSlot(td[u], s) /\ pos[u] = k
      BY <1>3, <3>1 DEF SlotOk
    <3>3. s.parent <= n /\ ~(s.parent = n /\ s.part = part)
      BY <1>6, <3>1 DEF n
    <3> HIDE DEF T, s
    <3>4. ASSUME NEW u \in 1..(t - 1)
          PROVE  s.parent <= all[u].parent /\ (SameSlot(all[u], s) => ap[u] < ap[t])
      <4>1. u \in 1..Len(all)
        BY <1>2, <1>3, <1>4
      <4>2. CASE u \in 1..m
        <5>1. all[u].parent = n /\ all[u].part = part
          BY <1>2, <1>4, <4>2
        <5> QED
          BY <3>3, <5>1 DEF SameSlot
      <4>3. CASE u - m \in 1..Len(td) /\ all[u] = td[u - m]
        <5>1. u - m \in 1..(T - 1) /\ ap[u] = pos[u - m]
          BY <1>2, <1>3, <1>5, <3>1, <4>1, <4>3
        <5> QED
          BY <3>1, <3>2, <4>3, <5>1
      <4> QED
        BY <1>4, <4>1, <4>2, <4>3
    <3>5. ASSUME NEW k \in (Len(Kids(d, s.parent, s.part)) + 1)..pos[T]
          PROVE  \E u \in 1..Len(all) : SameSlot(all[u], s) /\ ap[u] = k
      <4>1. PICK u \in 1..Len(td) : SameSlot(td[u], s) /\ pos[u] = k
        BY <3>2
      <4>2. m + u \in 1..Len(all) /\ all[m + u] = td[u] /\ ap[m + u] = pos[u]
        BY <1>4, <1>5
      <4> QED
        BY <4>1, <4>2
    <3> QED
      BY <3>1, <3>2, <3>4, <3>5 DEF SlotOk
  <2> QED
    BY <1>4, <2>1, <2>2
<1>9. TodoOk(all, d, h, par, ap)
  BY <1>4, <1>5, <1>8 DEF TodoOk
<1> QED
  BY <1>9 DEF all, ap, first, n

\* The entries of a new dict are all due.
LEMMA DictFirst ==
    ASSUME NEW d, NEW h, NEW td \in Seq(SlotSet), NEW pos, NEW part \in Parts, NEW objs \in Seq(Objects),
           DocType(d), NEW p \in 2..Len(d),
           \/ DictOk(td, d, h, pos, p)
           \/ p = Len(d) /\ part = "items" /\ objs = h[d[p].obj].items /\ d[p].items = <<>>
    PROVE  DictOk(Slots(Len(d), part, objs) \o td, d, h, PosFirst(objs, td, pos), p)
<1> DEFINE n == Len(d)
           first == Slots(n, part, objs)
           m == Len(objs)
           all == first \o td
           ap == PosFirst(objs, td, pos)
<1>1. n \in Nat /\ n # 0
  BY DEF DocType
<1>2. /\ first \in Seq(SlotSet) /\ Len(first) = m /\ m \in Nat
      /\ \A i \in 1..m : first[i] = [parent |-> n, part |-> part, obj |-> objs[i]]
  BY <1>1, SlotsAt
<1> HIDE DEF first, m, n
<1>4. /\ Len(all) = m + Len(td) /\ Len(td) \in Nat
      /\ \A i \in 1..m : all[i] = first[i] /\ i \in 1..Len(all)
      /\ \A i \in 1..Len(td) : all[m + i] = td[i] /\ m + i \in 1..Len(all)
  BY <1>2, ConcatAt
<1>5. /\ \A i \in 1..m : ap[i] = i
      /\ \A i \in 1..Len(td) : ap[m + i] = pos[i]
  <2>1. \A i \in 1..Len(td) : ~(m + i <= m) /\ (m + i) - m = i
    BY <1>2, <1>4
  <2>2. \A i \in 1..Len(all) : ap[i] = IF i <= m THEN i ELSE pos[i - m]
    BY <1>4 DEF PosFirst, m
  <2> QED
    BY <1>2, <1>4, <2>1, <2>2
<1> HIDE DEF all, ap
<1>6. ASSUME IsObj(d, p), d[p].kind = "dict", Len(d[p].items) # Len(h[d[p].obj].items)
      PROVE  \E t \in 1..Len(all) : all[t].parent = p /\ all[t].part = "items" /\ ap[t] = Len(h[d[p].obj].items)
  <2>1. CASE DictOk(td, d, h, pos, p)
    <3>1. PICK t \in 1..Len(td) : td[t].parent = p /\ td[t].part = "items" /\ pos[t] = Len(h[d[p].obj].items)
      BY <1>6, <2>1 DEF DictOk
    <3> QED
      BY <1>4, <1>5, <3>1
  <2>2. CASE p = Len(d) /\ part = "items" /\ objs = h[d[p].obj].items /\ d[p].items = <<>>
    <3>1. m = Len(h[d[p].obj].items) /\ m # 0 /\ m \in 1..m
      BY <1>2, <1>6, <2>2 DEF m
    <3>2. all[m].parent = p /\ all[m].part = "items" /\ ap[m] = m /\ m \in 1..Len(all)
      <4>1. all[m] = first[m] /\ ap[m] = m /\ m \in 1..Len(all)
        BY <1>4, <1>5, <3>1
      <4>2. first[m] = [parent |-> n, part |-> part, obj |-> objs[m]]
        BY <1>2, <3>1
      <4>3. first[m].parent = n /\ first[m].part = part
        BY <4>2
      <4> QED
        BY <2>2, <4>1, <4>3 DEF n
    <3> QED
      BY <3>1, <3>2
  <2> QED
    BY <2>1, <2>2
<1> QED
  BY <1>6 DEF DictOk, all, ap, first, n

-----------------------------------------------------------------------------
(* What the writer does *)

\* The document with another element for the first slot, and the slots after that.
LEMMA NodeWritten ==
    ASSUME NEW par, NEW pos, Writing(par, pos), todo # <<>>,
           NEW x \in Nodes, x.props = <<>>, x.items = <<>>, x.obj = Head(todo).obj, x.kind = heap[x.obj].kind,
           x.tag = "S" <=> heap[x.obj].kind = "string" /\ heap[x.obj].props = <<>>
    PROVE  LET hd == Head(todo)
               w  == Written(hd, x)
               wp == WithParent(doc, par, hd.parent)
               rp == PosTail(todo, pos)
           IN  /\ hd \in SlotSet /\ Grown(doc, w, hd.parent, hd.part, x) /\ hd.parent \in 1..Len(doc)
               /\ Tree(w, wp) /\ Faithful(w, heap) /\ TodoOk(Tail(todo), w, heap, wp, rp)
               /\ \A p \in 2..Len(doc) : DictOk(Tail(todo), w, heap, rp, p)
<1> DEFINE hd == Head(todo)
           w  == Written(hd, x)
           wp == WithParent(doc, par, hd.parent)
           rp == PosTail(todo, pos)
<1>1. /\ DocType(doc) /\ Tree(doc, par) /\ Faithful(doc, heap)
      /\ TodoOk(todo, doc, heap, par, pos) /\ DictsOk(todo, doc, heap, pos)
  BY DEF Writing
<1>2. /\ 1 \in 1..Len(todo) /\ hd = todo[1] /\ hd \in SlotSet
      /\ hd.parent \in 1..Len(doc) /\ hd.part \in Parts
      /\ pos[1] = Len(Kids(doc, hd.parent, hd.part)) + 1
  BY <1>1, HeadPos
<1>3. SlotOk(todo, doc, heap, par, pos, 1)
  BY <1>1, <1>2 DEF TodoOk
<1>4. /\ (hd.parent = 1 /\ hd.part = "items") \/ IsObj(doc, hd.parent)
      /\ \A y \in 2..Len(doc) : hd.parent < y => hd.parent <= par[y]
      /\ hd.parent # 1 => /\ pos[1] \in 1..Len(heap[doc[hd.parent].obj][hd.part])
                          /\ hd.obj = heap[doc[hd.parent].obj][hd.part][pos[1]]
  BY <1>2, <1>3 DEF SlotOk
<1>5. hd.parent = 1 => hd.part = "items"
  BY <1>4 DEF IsObj
<1>6. w = WithNode(doc, hd.parent, hd.part, x)
  BY DEF Written, WithNode
<1> HIDE DEF w, wp, rp, hd
<1>7. Grown(doc, w, hd.parent, hd.part, x)
  BY <1>1, <1>2, <1>5, <1>6, WrittenNode
<1>8. Tree(w, wp)
  BY <1>1, <1>2, <1>4, <1>7, TreeGrows DEF wp
<1>9. Faithful(w, heap)
  <2>1. hd.parent # 1 => LET k == Len(Kids(doc, hd.parent, hd.part)) + 1
                         IN  k \in 1..Len(heap[doc[hd.parent].obj][hd.part]) /\ x.obj = heap[doc[hd.parent].obj][hd.part][k]
    BY <1>2, <1>4 DEF hd
  <2> QED
    BY <1>1, <1>2, <1>7, <2>1, FaithfulGrows
<1>10. TodoOk(Tail(todo), w, heap, wp, rp)
  BY <1>1, <1>7, TodoTail DEF hd, wp, rp
<1>11. ASSUME NEW p \in 2..Len(doc) PROVE DictOk(Tail(todo), w, heap, rp, p)
  BY <1>1, <1>7, DictsTail DEF hd, rp
<1> QED
  BY <1>2, <1>7, <1>8, <1>9, <1>10, <1>11 DEF w, wp, rp, hd

\* Who is plain.
LEMMA Plain ==
    ASSUME NEW o
    PROVE  IsPlain(o) <=> heap[o].kind = "string" /\ heap[o].props = <<>>
BY DEF IsPlain

TN == [tag : {"none", "TN", "TNRef"}, id : Nat, names : AllNames]

\* The fields of an element.
LEMMA ElementIs ==
    ASSUME WellShaped, NEW tag \in {"S", "Ref", "Obj"}, NEW o \in Objects, NEW ref \in Nat, NEW tn \in TN
    PROVE  LET x == Element(tag, o, ref, tn)
           IN  /\ x \in Nodes /\ x.props = <<>> /\ x.items = <<>> /\ x.obj = o /\ x.kind = heap[o].kind
               /\ x.tag = tag /\ x.ref = ref /\ x.tn = tn
<1> DEFINE x == Element(tag, o, ref, tn)
<1>1. /\ x.props = <<>> /\ x.items = <<>> /\ x.obj = o /\ x.kind = heap[o].kind
      /\ x.tag = tag /\ x.ref = ref /\ x.tn = tn
  BY DEF Element
<1>2. heap[o].kind \in Kinds
  BY HeapShapes
<1>3. <<>> \in Seq(Nat)
  OBVIOUS
<1>4. x \in Nodes
  BY <1>2, <1>3 DEF Element, Nodes, TN
<1> QED
  BY <1>1, <1>4

\* An element that has no members of its own leaves the rest of what is to be done.
LEMMA LeafWritten ==
    ASSUME NEW par, NEW pos, Writing(par, pos), todo # <<>>, Len(doc) < MaxElements,
           NEW tag \in {"S", "Ref"}, NEW ref \in Nat, NEW tn \in TN,
           tag = "S" <=> IsPlain(Head(todo).obj),
           doc' = Written(Head(todo), Element(tag, Head(todo).obj, ref, tn)),
           todo' = Tail(todo), heap' = heap, emptied' = emptied
    PROVE  /\ \E par2, pos2 : Writing(par2, pos2)'
           /\ Grown(doc, doc', Head(todo).parent, Head(todo).part, Element(tag, Head(todo).obj, ref, tn))
<1> DEFINE hd == Head(todo)
           x  == Element(tag, hd.obj, ref, tn)
           wp == WithParent(doc, par, hd.parent)
           rp == PosTail(todo, pos)
<1>1. WellShaped /\ DocType(doc) /\ TodoOk(todo, doc, heap, par, pos) /\ emptied \subseteq {o \in Objects : heap[o].kind = "queue"}
  BY DEF Writing
<1>2. hd \in SlotSet
  BY <1>1, HeadPos
<1>3. hd.obj \in Objects
  BY <1>2 DEF SlotSet
<1>4. /\ x \in Nodes /\ x.props = <<>> /\ x.items = <<>> /\ x.obj = hd.obj /\ x.kind = heap[hd.obj].kind
      /\ x.tag = tag
  <2>1. WellShaped /\ hd.obj \in Objects /\ tag \in {"S", "Ref", "Obj"} /\ ref \in Nat /\ tn \in TN
    BY <1>1, <1>3
  <2> HIDE DEF hd, x
  <2>2. LET y == Element(tag, hd.obj, ref, tn)
        IN  /\ y \in Nodes /\ y.props = <<>> /\ y.items = <<>> /\ y.obj = hd.obj /\ y.kind = heap[hd.obj].kind
            /\ y.tag = tag /\ y.ref = ref /\ y.tn = tn
    BY ONLY <2>1, ElementIs
  <2> QED
    BY <2>2 DEF x
<1>5. doc' = Written(hd, x)
  OBVIOUS
<1>6. x.tag = "S" <=> heap[x.obj].kind = "string" /\ heap[x.obj].props = <<>>
  BY <1>4, Plain
<1> HIDE DEF x
<1>7. /\ Grown(doc, doc', hd.parent, hd.part, x) /\ hd.parent \in 1..Len(doc)
      /\ Tree(doc', wp) /\ Faithful(doc', heap) /\ TodoOk(Tail(todo), doc', heap, wp, rp)
      /\ \A p \in 2..Len(doc) : DictOk(Tail(todo), doc', heap, rp, p)
  BY <1>4, <1>5, <1>6, NodeWritten
<1> HIDE DEF hd, wp, rp
<1>8. DocType(doc') /\ Len(doc') = Len(doc) + 1 /\ doc'[Len(doc) + 1] = x /\ Len(doc) \in Nat
  BY <1>1, <1>7 DEF Grown, DocType
<1>9. Len(doc') <= MaxElements
  BY <1>8, ClixmlReferencesAssumption
<1>10. DictsOk(Tail(todo), doc', heap, rp)
  <2> SUFFICES ASSUME NEW p \in 2..Len(doc') PROVE DictOk(Tail(todo), doc', heap, rp, p)
    BY DEF DictsOk
  <2>1. p \in 2..Len(doc) \/ p = Len(doc) + 1
    BY <1>8
  <2>2. p = Len(doc) + 1 => ~IsObj(doc', p)
    BY <1>4, <1>8 DEF IsObj
  <2> QED
    BY <1>7, <2>1, <2>2 DEF DictOk
<1>11. PICK a, b : a = wp /\ b = rp
  OBVIOUS
<1>12. Writing(a, b)'
  BY <1>1, <1>7, <1>8, <1>9, <1>10, <1>11 DEF Writing, WellShaped
<1> QED
  BY <1>7, <1>12 DEF hd, x

\* What is still to be done about an object that has just been begun: its properties and entries.
LEMMA ObjWritten ==
    ASSUME NEW par, NEW pos, Writing(par, pos), todo # <<>>, Len(doc) < MaxElements,
           NEW ref \in Nat, NEW tn \in TN, NEW o, o = Head(todo).obj, ~IsPlain(o),
           doc' = Written(Head(todo), Element("Obj", o, ref, tn)),
           todo' = Slots(Len(doc) + 1, "props", heap[o].props) \o Slots(Len(doc) + 1, "items", Entries(o)) \o Tail(todo),
           heap' = heap, emptied' = IF heap[o].kind = "queue" THEN emptied \union {o} ELSE emptied
    PROVE  /\ \E par2, pos2 : Writing(par2, pos2)'
           /\ Grown(doc, doc', Head(todo).parent, Head(todo).part, Element("Obj", o, ref, tn))
<1> DEFINE hd == Head(todo)
           x  == Element("Obj", o, ref, tn)
           wp == WithParent(doc, par, hd.parent)
           rp == PosTail(todo, pos)
           n  == Len(doc')
           rest == Tail(todo)
           objs == Entries(o)
           entries == Slots(n, "items", objs)
           props == Slots(n, "props", heap[o].props)
<1>1. WellShaped /\ DocType(doc) /\ TodoOk(todo, doc, heap, par, pos) /\ emptied \subseteq {q \in Objects : heap[q].kind = "queue"}
  BY DEF Writing
<1>2. hd \in SlotSet
  BY <1>1, HeadPos
<1>3. o \in Objects
  BY <1>2 DEF SlotSet
<1>4. /\ x \in Nodes /\ x.props = <<>> /\ x.items = <<>> /\ x.obj = o /\ x.kind = heap[o].kind
      /\ x.tag = "Obj"
  BY <1>1, <1>3, ElementIs
<1>5. doc' = Written(hd, x)
  OBVIOUS
<1>6. x.tag = "S" <=> heap[x.obj].kind = "string" /\ heap[x.obj].props = <<>>
  BY <1>4, Plain
<1> HIDE DEF x
<1>7. /\ Grown(doc, doc', hd.parent, hd.part, x) /\ hd.parent \in 1..Len(doc)
      /\ Tree(doc', wp) /\ Faithful(doc', heap) /\ TodoOk(rest, doc', heap, wp, rp)
      /\ \A p \in 2..Len(doc) : DictOk(rest, doc', heap, rp, p)
  BY <1>4, <1>5, <1>6, NodeWritten
<1>8. /\ DocType(doc') /\ n = Len(doc) + 1 /\ doc'[n] = x /\ Len(doc) \in Nat /\ Len(doc) # 0
      /\ Kids(doc', n, "props") = <<>> /\ Kids(doc', n, "items") = <<>>
  <2>1. DocType(doc') /\ Len(doc') = Len(doc) + 1 /\ doc'[Len(doc) + 1] = x /\ \A q \in Parts : Kids(doc', Len(doc) + 1, q) = <<>>
    BY <1>7 DEF Grown
  <2>2. Len(doc) \in Nat /\ Len(doc) # 0
    BY <1>1 DEF DocType
  <2>3. "props" \in Parts /\ "items" \in Parts
    BY DEF Parts
  <2> QED
    BY <2>1, <2>2, <2>3
<1>9. todo \in Seq(SlotSet) /\ rest \in Seq(SlotSet)
  BY <1>1, <1>7 DEF TodoOk
<1>10. \A t \in 1..Len(rest) : rest[t].parent # n
  <2> SUFFICES ASSUME NEW t \in 1..Len(rest) PROVE rest[t].parent # n
    OBVIOUS
  <2>1. t + 1 \in 1..Len(todo) /\ rest[t] = todo[t + 1]
    BY <1>9
  <2>2. SlotOk(todo, doc, heap, par, pos, t + 1)
    BY <1>1, <2>1 DEF TodoOk
  <2>3. rest[t].parent = 1 \/ IsObj(doc, rest[t].parent)
    BY <2>1, <2>2 DEF SlotOk
  <2> QED
    BY <1>8, <2>3 DEF IsObj
<1>11. todo' = props \o (entries \o rest) /\ props \in Seq(SlotSet) /\ entries \in Seq(SlotSet)
  <2>1. heap[o].props \in Seq(Objects) /\ heap[o].items \in Seq(Objects) /\ <<>> \in Seq(Objects)
    BY <1>1, <1>3, HeapShapes
  <2>2. objs \in Seq(Objects)
    BY <2>1 DEF Entries
  <2>3. n \in Nat /\ "props" \in Parts /\ "items" \in Parts
    BY <1>8 DEF Parts
  <2> HIDE DEF n, objs
  <2>4. entries \in Seq(SlotSet) /\ props \in Seq(SlotSet)
    BY <2>1, <2>2, <2>3, SlotsAt
  <2>5. todo' = (props \o entries) \o rest
    BY <1>8 DEF objs
  <2> HIDE DEF props, entries, rest
  <2>6. (props \o entries) \o rest = props \o (entries \o rest)
    <3> DEFINE S == SlotSet
    <3>1. props \in Seq(S) /\ entries \in Seq(S) /\ rest \in Seq(S)
      BY <1>9, <2>4
    <3> HIDE DEF S
    <3> QED
      <4>1. \A s, t, u \in Seq(S) : (s \o t) \o u = s \o (t \o u)
        BY ConcatAssociative
      <4> QED
        BY <3>1, <4>1
  <2> QED
    BY <2>4, <2>5, <2>6
<1>12. /\ "props" \in Parts /\ "items" \in Parts /\ heap[o].props \in Seq(Objects) /\ heap[o].items \in Seq(Objects)
       /\ n \in Nat
  BY <1>1, <1>3, <1>8, HeapShapes DEF Parts
<1>13. IsObj(doc', n) /\ doc'[n].obj = o /\ doc'[n].kind = heap[o].kind
  BY <1>4, <1>8 DEF IsObj
<1>14. doc'[n].items = <<>>
  BY <1>4, <1>8
<1>15. \A p \in 2..n : p \in 2..Len(doc) \/ p = n
  BY <1>8
<1> HIDE DEF hd, wp, rp, n, rest, objs, entries, props
<1>16. PICK pos1 : /\ TodoOk(entries \o rest, doc', heap, wp, pos1)
                   /\ \A p \in 2..n : DictOk(entries \o rest, doc', heap, pos1, p)
                   /\ \A t \in 1..Len(entries \o rest) :
                         ~((entries \o rest)[t].parent = n /\ (entries \o rest)[t].part = "props")
  <2>1. CASE o \in emptied
    <3>1. entries = <<>> /\ entries \o rest = rest
      <4>1. objs = <<>> /\ <<>> \in Seq(Objects)
        BY <2>1 DEF objs, Entries
      <4>2. entries = <<>>
        BY <1>12, <4>1, SlotsAt DEF entries
      <4> QED
        BY <1>9, <4>2
    <3>2. heap[o].kind # "dict"
      BY <1>1, <2>1
    <3>3. \A p \in 2..n : DictOk(rest, doc', heap, rp, p)
      BY <1>7, <1>13, <1>15, <3>2 DEF DictOk
    <3> QED
      BY <1>7, <1>10, <3>1, <3>3
  <2>2. CASE o \notin emptied
    <3> DEFINE ip == PosFirst(objs, rest, rp)
    <3>1. objs = heap[o].items /\ objs \in Seq(Objects)
      BY <1>12, <2>2 DEF objs, Entries
    <3>2. TodoOk(entries \o rest, doc', heap, wp, ip)
      <4>1. \A t \in 1..Len(rest) : ~(rest[t].parent = n /\ rest[t].part = "items")
        BY <1>10
      <4>2. objs = heap[doc'[n].obj]["items"]
        BY <1>13, <3>1
      <4> QED
        BY <1>7, <1>8, <1>12, <1>13, <3>1, <4>1, <4>2, TodoFirst DEF entries, n
    <3>3. ASSUME NEW p \in 2..n PROVE DictOk(entries \o rest, doc', heap, ip, p)
      <4>1. p \in 2..Len(doc')
        BY DEF n
      <4>2. \/ DictOk(rest, doc', heap, rp, p)
            \/ p = n /\ objs = heap[doc'[p].obj].items /\ doc'[p].items = <<>>
        BY <1>7, <1>13, <1>14, <1>15, <3>1
      <4> QED
        BY <1>8, <1>9, <1>12, <3>1, <4>1, <4>2, DictFirst DEF entries, n
    <3>4. \A t \in 1..Len(entries \o rest) :
             ~((entries \o rest)[t].parent = n /\ (entries \o rest)[t].part = "props")
      <4> SUFFICES ASSUME NEW t \in 1..Len(entries \o rest), (entries \o rest)[t].parent = n
                   PROVE  (entries \o rest)[t].part # "props"
        OBVIOUS
      <4>1. t \in 1..Len(entries) \/ (t - Len(entries) \in 1..Len(rest) /\ (entries \o rest)[t] = rest[t - Len(entries)])
        BY <1>9, <1>11, ConcatAt
      <4>2. t \in 1..Len(entries)
        BY <1>10, <4>1
      <4>3. (entries \o rest)[t] = entries[t]
        BY <1>9, <1>11, <4>2, ConcatAt
      <4>4. Len(entries) = Len(objs)
        <5>1. objs \in Seq(Objects) /\ n \in Nat /\ "items" \in Parts
          BY <1>12, <3>1
        <5> HIDE DEF objs, n
        <5>2. Len(Slots(n, "items", objs)) = Len(objs)
          BY ONLY <5>1, SlotsAt
        <5> QED
          BY <5>2 DEF entries
      <4>5. entries[t] = [parent |-> n, part |-> "items", obj |-> objs[t]]
        <5>1. t \in 1..Len(objs) /\ objs \in Seq(Objects) /\ n \in Nat /\ "items" \in Parts
          BY <1>12, <3>1, <4>2, <4>4
        <5>2. \A i \in 1..Len(objs) : Slots(n, "items", objs)[i] = [parent |-> n, part |-> "items", obj |-> objs[i]]
          BY <5>1, SlotsAt
        <5> QED
          BY <5>1, <5>2 DEF entries
      <4> QED
        BY <4>3, <4>5
    <3> QED
      BY <3>2, <3>3, <3>4
  <2> QED
    BY <2>1, <2>2
<1> DEFINE all == entries \o rest
           pp == PosFirst(heap[o].props, all, pos1)
<1>17. all \in Seq(SlotSet)
  BY <1>9, <1>11
<1> HIDE DEF all
<1>18. TodoOk(props \o all, doc', heap, wp, pp)
  <2>1. heap[o].props = heap[doc'[n].obj]["props"]
    BY <1>13
  <2>2. \A t \in 1..Len(all) : ~(all[t].parent = n /\ all[t].part = "props")
    BY <1>16 DEF all
  <2>3. TodoOk(all, doc', heap, wp, pos1)
    BY <1>16 DEF all
  <2> QED
    BY <1>8, <1>12, <1>13, <2>1, <2>2, <2>3, TodoFirst DEF props, n
<1>19. DictsOk(props \o all, doc', heap, pp)
  <2> SUFFICES ASSUME NEW p \in 2..Len(doc') PROVE DictOk(props \o all, doc', heap, pp, p)
    BY DEF DictsOk
  <2>1. DictOk(all, doc', heap, pos1, p)
    BY <1>16 DEF all, n
  <2> QED
    BY <1>8, <1>12, <1>17, <2>1, DictFirst DEF props, n
<1>20. todo' = props \o all
  BY <1>11 DEF all
<1>21. Len(doc') <= MaxElements
  BY <1>8, ClixmlReferencesAssumption DEF n
<1>22. emptied' \subseteq {q \in Objects : heap[q].kind = "queue"}
  BY <1>1, <1>3
<1>23. PICK a, b : a = wp /\ b = pp
  OBVIOUS
<1>24. Writing(a, b)'
  BY <1>1, <1>7, <1>8, <1>18, <1>19, <1>20, <1>21, <1>22, <1>23 DEF Writing, WellShaped
<1> QED
  BY <1>7, <1>24 DEF hd, x

\* Objects have one key at most, and the same one only if they are the same or equal strings.
LEMMA KeyIs ==
    ASSUME NEW o
    PROVE  /\ \A k, l \in Key(o) : k = l
           /\ \A q : Key(o) \intersect Key(q) # {} => o = q \/ EqualStrings(o, q)
           /\ heap[o].kind \in {"custom", "queue"} => Key(o) # {}
<1>1. \A k, l \in Key(o) : k = l
  BY DEF Key
<1>2. ASSUME NEW q, Key(o) \intersect Key(q) # {} PROVE o = q \/ EqualStrings(o, q)
  <2>1. PICK k : k \in Key(o) /\ k \in Key(q)
    BY <1>2
  <2>2. (heap[o].kind = "string" /\ k = <<"string", heap[o].text>>) \/ (k = <<"object", o>> /\ heap[o].kind # "string")
    BY <2>1 DEF Key
  <2>3. (heap[q].kind = "string" /\ k = <<"string", heap[q].text>>) \/ (k = <<"object", q>> /\ heap[q].kind # "string")
    BY <2>1 DEF Key
  <2> QED
    BY <2>2, <2>3 DEF EqualStrings
<1>3. heap[o].kind \in {"custom", "queue"} => Key(o) # {}
  BY DEF Key, Unhashable
<1> QED
  BY <1>1, <1>2, <1>3

\* References are to the one object of their key that was written before.
LEMMA RefsStep ==
    ASSUME DocType(doc), NEW p, NEW part, NEW x, Grown(doc, doc', p, part, x), heap' = heap, RefsOk,
           \/ x.tag = "S" /\ obj_ref' = obj_ref /\ obj_ref_id' = obj_ref_id
           \/ /\ x.tag = "Ref" /\ obj_ref' = obj_ref /\ obj_ref_id' = obj_ref_id
              /\ \E entry \in obj_ref : entry[1] \in Key(x.obj) /\ x.ref = entry[2]
           \/ /\ x.tag = "Obj" /\ x.ref = obj_ref_id /\ \A entry \in obj_ref : entry[1] \notin Key(x.obj)
              /\ obj_ref' = obj_ref \union {<<k, obj_ref_id>> : k \in Key(x.obj)}
              /\ obj_ref_id' = obj_ref_id + 1
    PROVE  RefsOk'
<1> DEFINE n == Len(doc) + 1
           new == {<<k, obj_ref_id>> : k \in Key(x.obj)}
<1>1. Len(doc) \in Nat /\ n \in 2..n /\ \A y \in 2..n : y = n \/ y \in 2..Len(doc)
  BY DEF DocType
<1>2. /\ Len(doc') = n /\ doc'[n] = x
      /\ \A y \in 2..Len(doc) : doc'[y].tag = doc[y].tag /\ doc'[y].obj = doc[y].obj /\ doc'[y].ref = doc[y].ref
  BY DEF Grown
<1>3. \A o : Key(o)' = Key(o)
  BY DEF Key
<1>4. \A y \in 2..Len(doc) : y \in 2..n /\ \A z \in 2..(y - 1) : z \in 2..Len(doc)
  BY <1>1
<1>5. \A z \in 2..Len(doc) : z \in 2..(n - 1)
  BY <1>1
<1>6. /\ obj_ref_id \in Nat
      /\ \A entry \in obj_ref : entry = <<entry[1], entry[2]>> /\ \E y \in 2..Len(doc) :
            doc[y].tag = "Obj" /\ doc[y].ref = entry[2] /\ entry[1] \in Key(doc[y].obj)
      /\ \A e1, e2 \in obj_ref : e1[1] = e2[1] => e1[2] = e2[2]
      /\ \A y \in 2..Len(doc) :
            /\ doc[y].tag = "Obj" => /\ doc[y].ref < obj_ref_id
                                     /\ \A z \in 2..Len(doc) : doc[z].tag = "Obj" /\ doc[z].ref = doc[y].ref => y = z
            /\ doc[y].tag # "S" => \A k \in Key(doc[y].obj) : <<k, doc[y].ref>> \in obj_ref
            /\ doc[y].tag = "Ref" => /\ Key(doc[y].obj) # {}
                                     /\ \E z \in 2..(y - 1) : doc[z].tag = "Obj" /\ doc[z].ref = doc[y].ref
  BY DEF RefsOk
<1> HIDE DEF n, new
<1>7. \A entry \in new : \E k \in Key(x.obj) : entry = <<k, obj_ref_id>>
  BY DEF new
<1>8. obj_ref \subseteq obj_ref' /\ (x.tag = "Obj" => obj_ref' = obj_ref \union new)
      /\ (x.tag # "Obj" => obj_ref' = obj_ref)
  BY DEF new
<1>9. obj_ref_id' \in Nat /\ obj_ref_id <= obj_ref_id'
  BY <1>6
<1>10. ASSUME NEW entry \in obj_ref'
       PROVE  entry = <<entry[1], entry[2]>> /\ \E y \in 2..n :
                doc'[y].tag = "Obj" /\ doc'[y].ref = entry[2] /\ entry[1] \in Key(doc'[y].obj)
  <2>1. CASE entry \in obj_ref
    BY <1>2, <1>4, <1>6, <2>1
  <2>2. CASE entry \in new /\ x.tag = "Obj"
    <3>1. PICK k \in Key(x.obj) : entry = <<k, obj_ref_id>>
      BY <1>7, <2>2
    <3> QED
      BY <1>1, <1>2, <2>2, <3>1
  <2> QED
    BY <1>8, <2>1, <2>2
<1>11. ASSUME NEW e1 \in obj_ref', NEW e2 \in obj_ref', e1[1] = e2[1] PROVE e1[2] = e2[2]
  <2>1. CASE x.tag # "Obj"
    BY <1>6, <1>8, <1>11, <2>1
  <2>2. CASE x.tag = "Obj"
    <3>1. \A e \in new : e[1] \in Key(x.obj) /\ e[2] = obj_ref_id
      BY <1>7
    <3>2. \A e \in obj_ref : e[1] \notin Key(x.obj)
      BY <2>2
    <3> QED
      BY <1>6, <1>8, <1>11, <2>2, <3>1, <3>2
  <2> QED
    BY <2>1, <2>2
<1>12. ASSUME NEW y \in 2..n, doc'[y].tag = "Obj"
       PROVE  /\ doc'[y].ref < obj_ref_id'
              /\ \A z \in 2..n : doc'[z].tag = "Obj" /\ doc'[z].ref = doc'[y].ref => y = z
  <2>1. x.tag = "Obj" => x.ref = obj_ref_id /\ obj_ref_id' = obj_ref_id + 1
    OBVIOUS
  <2>2. \A z \in 2..Len(doc) : doc[z].tag = "Obj" => doc[z].ref < obj_ref_id
    BY <1>6
  <2>3. CASE y = n
    <3>1. x.tag = "Obj" /\ doc'[y].ref = obj_ref_id
      BY <1>2, <1>12, <2>1, <2>3
    <3>2. \A z \in 2..n : doc'[z].tag = "Obj" /\ z # n => doc'[z].ref < obj_ref_id
      BY <1>1, <1>2, <2>2
    <3> QED
      BY <1>6, <2>1, <2>3, <3>1, <3>2
  <2>4. CASE y \in 2..Len(doc)
    <3>1. doc'[y].ref = doc[y].ref /\ doc[y].tag = "Obj" /\ doc[y].ref < obj_ref_id
      BY <1>2, <1>12, <2>2, <2>4
    <3>2. doc'[y].ref < obj_ref_id'
      <4>1. DocType(doc) /\ doc[y] \in Nodes
        BY <2>4 DEF DocType
      <4>2. doc[y].ref \in Nat
        BY <4>1 DEF Nodes
      <4> QED
        BY <1>6, <1>9, <3>1, <4>2
    <3>3. ASSUME NEW z \in 2..n, doc'[z].tag = "Obj", doc'[z].ref = doc'[y].ref PROVE y = z
      <4>1. CASE z = n
        <5>1. x.tag = "Obj" /\ x.ref = doc[y].ref
          BY <1>2, <3>1, <3>3, <4>1
        <5> QED
          BY <1>6, <2>1, <3>1, <5>1
      <4>2. CASE z \in 2..Len(doc)
        BY <1>2, <1>6, <2>4, <3>1, <3>3, <4>2
      <4> QED
        BY <1>1, <4>1, <4>2
    <3> QED
      BY <3>2, <3>3
  <2> QED
    BY <1>1, <2>3, <2>4
<1>13. ASSUME NEW y \in 2..n, doc'[y].tag # "S", NEW k \in Key(doc'[y].obj)
       PROVE  <<k, doc'[y].ref>> \in obj_ref'
  <2>1. CASE y \in 2..Len(doc)
    BY <1>2, <1>6, <1>8, <1>13, <2>1
  <2>2. CASE y = n /\ x.tag = "Ref"
    <3>1. PICK entry \in obj_ref : entry[1] \in Key(x.obj) /\ x.ref = entry[2]
      BY <2>2
    <3>2. k = entry[1]
      BY <1>2, <2>2, <3>1, KeyIs
    <3>3. entry = <<k, x.ref>>
      BY <1>6, <3>1, <3>2
    <3> QED
      BY <1>2, <1>8, <2>2, <3>3
  <2>3. CASE y = n /\ x.tag = "Obj"
    BY <1>2, <1>8, <2>3 DEF new
  <2> QED
    BY <1>1, <1>2, <1>13, <2>1, <2>2, <2>3
<1>14. ASSUME NEW y \in 2..n, doc'[y].tag = "Ref"
       PROVE  /\ Key(doc'[y].obj) # {}
              /\ \E z \in 2..(y - 1) : doc'[z].tag = "Obj" /\ doc'[z].ref = doc'[y].ref
  <2>1. CASE y \in 2..Len(doc)
    <3>1. doc[y].tag = "Ref" /\ doc'[y].obj = doc[y].obj /\ doc'[y].ref = doc[y].ref
      BY <1>2, <1>14, <2>1
    <3>2. Key(doc[y].obj) # {}
      BY <1>6, <2>1, <3>1
    <3>3. PICK z \in 2..(y - 1) : doc[z].tag = "Obj" /\ doc[z].ref = doc[y].ref
      BY <1>6, <2>1, <3>1
    <3>4. doc'[z].tag = "Obj" /\ doc'[z].ref = doc'[y].ref
      BY <1>2, <1>4, <2>1, <3>1, <3>3
    <3> QED
      BY <3>1, <3>2, <3>3, <3>4
  <2>2. CASE y = n
    <3>1. PICK entry \in obj_ref : entry[1] \in Key(x.obj) /\ x.ref = entry[2]
      BY <1>2, <1>14, <2>2
    <3>2. PICK z \in 2..Len(doc) : doc[z].tag = "Obj" /\ doc[z].ref = entry[2]
      BY <1>6
    <3>3. x.tag = "Ref" /\ doc'[y] = x /\ Key(x.obj) # {}
      BY <1>2, <1>14, <2>2, <3>1
    <3>4. z \in 2..(y - 1) /\ doc'[z].tag = "Obj" /\ doc'[z].ref = x.ref
      BY <1>2, <1>5, <2>2, <3>1, <3>2
    <3> QED
      BY <3>3, <3>4
  <2> QED
    BY <1>1, <2>1, <2>2
<1> QED
  BY <1>2, <1>3, <1>9, <1>10, <1>11, <1>12, <1>13, <1>14 DEF RefsOk

\* What _Serializer finds or makes for a list of type names.
LEMMA TypeNamesAre ==
    ASSUME WellShaped, NamesOk, NEW o \in Objects
    PROVE  LET tn == TypeNames(o)
           IN  /\ tn \in TN
               /\ heap[o].kind = "string" => tn.tag = "none"
               /\ heap[o].kind # "string" =>
                    \/ tn.tag = "TNRef" /\ tn.id \in 1..Len(tn_ref_list) /\ tn_ref_list[tn.id] = heap[o].names[1]
                    \/ tn.tag = "TN" /\ tn.id = Len(tn_ref_list) + 1 /\ tn.names = heap[o].names
<1> DEFINE known == {i \in DOMAIN tn_ref_list : tn_ref_list[i] = heap[o].names[1]}
           n == Len(tn_ref_list)
<1>1. n \in Nat /\ DOMAIN tn_ref_list = 1..n
  BY DEF NamesOk
<1>2. heap[o].names \in AllNames /\ <<>> \in AllNames
  BY HeapShapes DEF AllNames
<1> HIDE DEF n
<1>3. CASE heap[o].kind = "string"
  <2>1. TypeNames(o) = [tag |-> "none", id |-> 0, names |-> <<>>]
    BY <1>3 DEF TypeNames, NoNames
  <2> QED
    BY <1>2, <1>3, <2>1 DEF TN
<1>4. CASE heap[o].kind # "string" /\ known # {}
  <2> DEFINE id == CHOOSE i \in known : TRUE
  <2>1. id \in known
    BY <1>4
  <2>2. TypeNames(o) = [tag |-> "TNRef", id |-> id, names |-> <<>>]
    BY <1>4 DEF TypeNames
  <2> HIDE DEF id
  <2>3. id \in 1..n /\ tn_ref_list[id] = heap[o].names[1]
    BY <1>1, <2>1
  <2>4. id \in Nat
    BY <1>1, <2>3
  <2> QED
    BY <1>2, <1>4, <2>2, <2>3, <2>4 DEF TN, n
<1>5. CASE heap[o].kind # "string" /\ known = {}
  <2>1. TypeNames(o) = [tag |-> "TN", id |-> n + 1, names |-> heap[o].names]
    BY <1>5 DEF TypeNames, n
  <2>2. n + 1 \in Nat
    BY <1>1
  <2> QED
    BY <1>2, <1>5, <2>1, <2>2 DEF TN, n
<1> QED
  BY <1>3, <1>4, <1>5

\* References to type names are to a list with the same first name written before.
LEMMA NamesStep ==
    ASSUME WellShaped, DocType(doc), NEW p, NEW part, NEW x, Grown(doc, doc', p, part, x), heap' = heap, NamesOk,
           \/ x.tag # "Obj" /\ tn_ref_list' = tn_ref_list
           \/ /\ x.tag = "Obj" /\ x.obj \in Objects /\ x.tn = TypeNames(x.obj) /\ x.kind = heap[x.obj].kind
              /\ tn_ref_list' = IF x.tn.tag = "TN" THEN Append(tn_ref_list, heap[x.obj].names[1]) ELSE tn_ref_list
    PROVE  NamesOk'
<1> DEFINE n == Len(doc) + 1
           Firsts == {tn[1] : tn \in AllNames}
           m == Len(tn_ref_list)
<1>1. Len(doc) \in Nat /\ n \in 2..n /\ \A y \in 2..n : y = n \/ y \in 2..Len(doc)
  BY DEF DocType
<1>2. /\ Len(doc') = n /\ doc'[n] = x
      /\ \A y \in 2..Len(doc) : /\ doc'[y].tag = doc[y].tag /\ doc'[y].obj = doc[y].obj
                                /\ doc'[y].tn = doc[y].tn /\ doc'[y].kind = doc[y].kind
  BY DEF Grown
<1>3. \A y \in 2..Len(doc) : y \in 2..n /\ \A z \in 2..(y - 1) : z \in 2..Len(doc)
  BY <1>1
<1>4. \A z \in 2..Len(doc) : z \in 2..(n - 1)
  BY <1>1
<1>5. /\ tn_ref_list \in Seq(Firsts)
      /\ \A id \in 1..m : \E y \in 2..Len(doc) : NewNames(doc, y, id)
      /\ \A y \in 2..Len(doc) : doc[y].tag = "Obj" /\ doc[y].kind # "string" =>
            LET tn == doc[y].tn
            IN  /\ tn.tag \in {"TN", "TNRef"} /\ tn.id \in 1..m
                /\ tn_ref_list[tn.id] = heap[doc[y].obj].names[1]
                /\ tn.tag = "TN" => tn.names = heap[doc[y].obj].names
                /\ tn.tag = "TNRef" => \E z \in 2..(y - 1) : NewNames(doc, z, tn.id)
      /\ \A y \in 2..Len(doc) : doc[y].tag = "Obj" /\ doc[y].kind = "string" => doc[y].tn.tag = "none"
  BY DEF NamesOk
<1> HIDE DEF n
<1>6. m \in Nat /\ (x.tag = "Obj" => heap[x.obj].names[1] \in Firsts)
  <2>1. x.tag = "Obj" => heap[x.obj].names \in AllNames
    BY HeapShapes
  <2> QED
    BY <1>5, <2>1
<1> HIDE DEF Firsts, m
<1>7. /\ tn_ref_list' \in Seq(Firsts)
      /\ \A id \in 1..m : id \in 1..Len(tn_ref_list') /\ tn_ref_list'[id] = tn_ref_list[id]
      /\ \A id \in 1..Len(tn_ref_list') : id \in 1..m \/ (id = m + 1 /\ x.tag = "Obj" /\ x.tn.tag = "TN")
      /\ x.tag = "Obj" /\ x.tn.tag = "TN" => m + 1 \in 1..Len(tn_ref_list') /\ tn_ref_list'[m + 1] = heap[x.obj].names[1]
  <2>1. CASE x.tag = "Obj" /\ x.tn.tag = "TN"
    <3>1. tn_ref_list' = Append(tn_ref_list, heap[x.obj].names[1])
      BY <2>1
    <3> QED
      BY <1>5, <1>6, <2>1, <3>1 DEF m
  <2>2. CASE ~(x.tag = "Obj" /\ x.tn.tag = "TN")
    <3>1. tn_ref_list' = tn_ref_list
      BY <2>2
    <3> QED
      BY <1>5, <2>2, <3>1 DEF m
  <2> QED
    BY <2>1, <2>2
<1>8. \A y \in 2..Len(doc), id \in Nat : NewNames(doc, y, id) => NewNames(doc', y, id)
  BY <1>2 DEF NewNames
<1>9. x.tag = "Obj" =>
        LET tn == x.tn
        IN  /\ heap[x.obj].kind = "string" => tn.tag = "none"
            /\ heap[x.obj].kind # "string" =>
                 \/ tn.tag = "TNRef" /\ tn.id \in 1..m /\ tn_ref_list[tn.id] = heap[x.obj].names[1]
                 \/ tn.tag = "TN" /\ tn.id = m + 1 /\ tn.names = heap[x.obj].names
  BY TypeNamesAre DEF m
<1>10. x.tag = "Obj" /\ x.tn.tag = "TN" => NewNames(doc', n, m + 1)
  <2> SUFFICES ASSUME x.tag = "Obj", x.tn.tag = "TN" PROVE NewNames(doc', n, m + 1)
    OBVIOUS
  <2>1. x.tn.id = m + 1
    BY <1>9
  <2> QED
    BY <1>2, <2>1 DEF NewNames
<1>11. ASSUME NEW id \in 1..Len(tn_ref_list') PROVE \E y \in 2..n : NewNames(doc', y, id)
  <2>1. CASE id \in 1..m
    <3>1. PICK y \in 2..Len(doc) : NewNames(doc, y, id)
      BY <1>5, <2>1
    <3>2. id \in Nat
      BY <1>6, <2>1
    <3> QED
      BY <1>3, <1>8, <3>1, <3>2
  <2>2. CASE id = m + 1 /\ x.tag = "Obj" /\ x.tn.tag = "TN"
    BY <1>1, <1>10, <2>2
  <2> QED
    BY <1>7, <2>1, <2>2
<1>12. ASSUME NEW y \in 2..n, doc'[y].tag = "Obj", doc'[y].kind # "string"
       PROVE  LET tn == doc'[y].tn
              IN  /\ tn.tag \in {"TN", "TNRef"} /\ tn.id \in 1..Len(tn_ref_list')
                  /\ tn_ref_list'[tn.id] = heap[doc'[y].obj].names[1]
                  /\ tn.tag = "TN" => tn.names = heap[doc'[y].obj].names
                  /\ tn.tag = "TNRef" => \E z \in 2..(y - 1) : NewNames(doc', z, tn.id)
  <2> DEFINE tn == doc'[y].tn
  <2>1. CASE y \in 2..Len(doc)
    <3>1. /\ tn.tag \in {"TN", "TNRef"} /\ tn.id \in 1..m
          /\ tn_ref_list[tn.id] = heap[doc'[y].obj].names[1]
          /\ tn.tag = "TN" => tn.names = heap[doc'[y].obj].names
          /\ tn.tag = "TNRef" => \E z \in 2..(y - 1) : NewNames(doc, z, tn.id)
      <4>1. doc[y].tag = "Obj" /\ doc[y].kind # "string" /\ tn = doc[y].tn /\ doc'[y].obj = doc[y].obj
        BY <1>2, <1>12, <2>1
      <4>2. LET old == doc[y].tn
            IN  /\ old.tag \in {"TN", "TNRef"} /\ old.id \in 1..m
                /\ tn_ref_list[old.id] = heap[doc[y].obj].names[1]
                /\ old.tag = "TN" => old.names = heap[doc[y].obj].names
                /\ old.tag = "TNRef" => \E z \in 2..(y - 1) : NewNames(doc, z, old.id)
        BY <1>5, <2>1, <4>1
      <4> HIDE DEF tn
      <4> QED
        BY <4>1, <4>2
    <3>2. tn.tag = "TNRef" => \E z \in 2..(y - 1) : NewNames(doc', z, tn.id)
      BY <1>3, <1>6, <1>8, <2>1, <3>1
    <3> QED
      BY <1>7, <3>1, <3>2
  <2>2. CASE y = n
    <3>1. tn = x.tn /\ x.tag = "Obj" /\ doc'[y].obj = x.obj /\ heap[x.obj].kind # "string"
      BY <1>2, <1>12, <2>2
    <3>2. CASE tn.tag = "TNRef" /\ tn.id \in 1..m /\ tn_ref_list[tn.id] = heap[x.obj].names[1]
      <4>1. PICK z \in 2..Len(doc) : NewNames(doc, z, tn.id)
        BY <1>5, <3>2
      <4>2. z \in 2..(y - 1) /\ NewNames(doc', z, tn.id)
        BY <1>4, <1>6, <1>8, <2>2, <3>2, <4>1
      <4> QED
        BY <1>7, <3>1, <3>2, <4>2
    <3>3. CASE tn.tag = "TN" /\ tn.id = m + 1 /\ tn.names = heap[x.obj].names
      BY <1>7, <3>1, <3>3
    <3> QED
      BY <1>9, <3>1, <3>2, <3>3
  <2> QED
    BY <1>1, <2>1, <2>2
<1>13. ASSUME NEW y \in 2..n, doc'[y].tag = "Obj", doc'[y].kind = "string" PROVE doc'[y].tn.tag = "none"
  <2>1. CASE y \in 2..Len(doc)
    BY <1>2, <1>5, <1>13, <2>1
  <2>2. CASE y = n
    BY <1>2, <1>9, <1>13, <2>2
  <2> QED
    BY <1>1, <2>1, <2>2
<1> QED
  BY <1>2, <1>7, <1>11, <1>12, <1>13 DEF NamesOk, Firsts

\* As long as nothing is read there is nothing to say of the reader.
LEMMA StillNotRead ==
    ASSUME NotRead, UNCHANGED readerVars, DocType(doc'), Len(doc') <= MaxElements
    PROVE  NotRead' /\ ReadOk' /\ NamesRead' /\ \A par : InOrder(par)'
<1>1. /\ toread' = <<1>> /\ obj_ref_map' = <<>> /\ tn_ref_map' = <<>> /\ ~failed'
      /\ value' = [e \in ElementIds |-> 0] /\ names' = [e \in ElementIds |-> <<>>]
  BY DEF NotRead, readerVars
<1>2. Len(doc') \in Nat /\ Len(doc') # 0
  BY DEF DocType
<1>3. \A x \in 1..Len(doc') : x \in ElementIds /\ value'[x] = 0
  BY <1>1, <1>2, ClixmlReferencesAssumption DEF ElementIds
<1>4. NotRead'
  BY <1>1 DEF NotRead, ElementIds
<1>5. ReadOk'
  <2>1. 1 \in 1..Len(doc') /\ toread' \in Seq(1..Len(doc'))
    BY <1>1, <1>2
  <2>2. \A x \in 2..Len(doc') : x \in 1..Len(doc')
    BY <1>2
  <2>3. DOMAIN obj_ref_map' = {} /\ DOMAIN tn_ref_map' = {}
    BY <1>1
  <2>4. value' = [e \in ElementIds |-> value'[e]] /\ names' = [e \in ElementIds |-> names'[e]]
    BY <1>1
  <2> QED
    BY <1>3, <2>1, <2>2, <2>3, <2>4 DEF ReadOk, ElementIds
<1>6. NamesRead'
  <2>1. \A x \in 2..Len(doc') : x \in 1..Len(doc')
    BY <1>2
  <2> QED
    BY <1>3, <2>1 DEF NamesRead
<1>7. \A par : InOrder(par)'
  BY <1>1, <1>4 DEF InOrder
<1> QED
  BY <1>4, <1>5, <1>6, <1>7

\* The writer keeps the invariant: nothing is read before everything is written.
LEMMA WriteStep ==
    ASSUME CInv, Write
    PROVE  CInv'
<1>1. PICK par, pos : CInvFor(par, pos)
  BY DEF CInv
<1>2. Writing(par, pos) /\ RefsOk /\ NamesOk /\ NotRead
  <2>1. todo # <<>>
    BY DEF Write
  <2> QED
    BY <1>1, <2>1 DEF CInvFor
<1>3. WellShaped /\ DocType(doc) /\ TodoOk(todo, doc, heap, par, pos)
  BY <1>2 DEF Writing
<1>4. todo # <<>> /\ Len(doc) < MaxElements /\ UNCHANGED readerVars
  BY DEF Write
<1> DEFINE hd == Head(todo)
           o == hd.obj
<1>5. hd \in SlotSet
  BY <1>3, <1>4, HeadPos
<1>6. o \in Objects
  BY <1>5 DEF SlotSet
<1>7. NoNames \in TN
  <2>1. <<>> \in AllNames
    BY DEF AllNames
  <2> QED
    BY <2>1 DEF TN, NoNames
<1>8. obj_ref_id \in Nat
  BY <1>2 DEF RefsOk
<1>9. (\E par2, pos2 : Writing(par2, pos2)') /\ RefsOk' /\ NamesOk'
  <2>1. CASE WritePlain(hd)
    <3> DEFINE x == Element("S", o, 0, NoNames)
    <3>1. /\ IsPlain(o) /\ doc' = Written(hd, x) /\ todo' = Tail(todo) /\ heap' = heap /\ emptied' = emptied
          /\ obj_ref' = obj_ref /\ obj_ref_id' = obj_ref_id /\ tn_ref_list' = tn_ref_list
      BY <2>1 DEF WritePlain
    <3>2. (\E par2, pos2 : Writing(par2, pos2)') /\ Grown(doc, doc', hd.parent, hd.part, x)
      BY <1>2, <1>4, <1>7, <3>1, LeafWritten
    <3>3. x.tag = "S"
      BY <1>3, <1>6, <1>7, ElementIs
    <3> HIDE DEF x
    <3>4. RefsOk'
      BY <1>2, <1>3, <3>1, <3>2, <3>3, RefsStep
    <3>5. NamesOk'
      BY <1>2, <1>3, <3>1, <3>2, <3>3, NamesStep
    <3> QED
      BY <3>2, <3>4, <3>5
  <2>2. CASE WriteRef(hd)
    <3>1. ~IsPlain(o)
      BY <2>2 DEF WriteRef
    <3>2. PICK entry \in obj_ref : entry[1] \in Key(o) /\ doc' = Written(hd, Element("Ref", o, entry[2], NoNames))
      BY <2>2 DEF WriteRef
    <3> DEFINE x == Element("Ref", o, entry[2], NoNames)
    <3>3. /\ doc' = Written(hd, x) /\ todo' = Tail(todo) /\ heap' = heap /\ emptied' = emptied
          /\ obj_ref' = obj_ref /\ obj_ref_id' = obj_ref_id /\ tn_ref_list' = tn_ref_list
      BY <2>2, <3>2 DEF WriteRef
    <3>4. entry[2] \in Nat
      <4>1. PICK y \in 2..Len(doc) : doc[y].ref = entry[2]
        BY <1>2, <3>2 DEF RefsOk
      <4>2. doc[y] \in Nodes
        BY <1>3 DEF DocType
      <4> QED
        BY <4>1, <4>2 DEF Nodes
    <3>5. (\E par2, pos2 : Writing(par2, pos2)') /\ Grown(doc, doc', hd.parent, hd.part, x)
      BY <1>2, <1>4, <1>7, <3>1, <3>3, <3>4, LeafWritten
    <3>6. x.tag = "Ref" /\ x.obj = o /\ x.ref = entry[2]
      BY <1>3, <1>6, <1>7, <3>4, ElementIs
    <3> HIDE DEF x
    <3>7. RefsOk'
      BY <1>2, <1>3, <3>2, <3>3, <3>5, <3>6, RefsStep
    <3>8. NamesOk'
      BY <1>2, <1>3, <3>3, <3>5, <3>6, NamesStep
    <3> QED
      BY <3>5, <3>7, <3>8
  <2>3. CASE WriteObj(hd)
    <3> DEFINE tn == TypeNames(o)
               x == Element("Obj", o, obj_ref_id, tn)
    <3>1. /\ ~IsPlain(o) /\ \A entry \in obj_ref : entry[1] \notin Key(o)
          /\ doc' = Written(hd, x) /\ heap' = heap
          /\ todo' = Slots(Len(doc) + 1, "props", heap[o].props) \o Slots(Len(doc) + 1, "items", Entries(o)) \o Tail(todo)
          /\ emptied' = IF heap[o].kind = "queue" THEN emptied \union {o} ELSE emptied
          /\ obj_ref' = obj_ref \union {<<k, obj_ref_id>> : k \in Key(o)}
          /\ obj_ref_id' = obj_ref_id + 1
          /\ tn_ref_list' = IF tn.tag = "TN" THEN Append(tn_ref_list, heap[o].names[1]) ELSE tn_ref_list
      BY <2>3 DEF WriteObj
    <3>2. tn \in TN
      BY <1>2, <1>3, <1>6, TypeNamesAre
    <3>3. x.tag = "Obj" /\ x.obj = o /\ x.ref = obj_ref_id /\ x.tn = tn /\ x.kind = heap[o].kind
      BY <1>3, <1>6, <1>8, <3>2, ElementIs
    <3> HIDE DEF tn
    <3>4. (\E par2, pos2 : Writing(par2, pos2)') /\ Grown(doc, doc', hd.parent, hd.part, x)
      BY <1>2, <1>4, <1>8, <3>1, <3>2, ObjWritten
    <3> HIDE DEF x
    <3>5. RefsOk'
      <4> HIDE DEF o
      <4> QED
        BY <1>2, <1>3, <3>1, <3>3, <3>4, RefsStep
    <3>6. NamesOk'
      <4>1. x.tn = TypeNames(x.obj)
        BY <3>3 DEF tn
      <4> HIDE DEF o
      <4> QED
        BY <1>2, <1>3, <1>6, <3>1, <3>3, <3>4, <4>1, NamesStep
    <3> QED
      BY <3>4, <3>5, <3>6
  <2> QED
    BY <2>1, <2>2, <2>3 DEF Write
<1>10. PICK par2, pos2 : Writing(par2, pos2)'
  BY <1>9
<1>11. NotRead' /\ ReadOk' /\ NamesRead' /\ InOrder(par2)'
  <2>1. DocType(doc') /\ Len(doc') <= MaxElements
    BY <1>10 DEF Writing
  <2> QED
    BY <1>2, <1>4, <2>1, StillNotRead
<1>12. CInvFor(par2, pos2)'
  BY <1>9, <1>10, <1>11 DEF CInvFor
<1> QED
  BY <1>12 DEF CInv

\* The invariant holds of an empty document.
LEMMA InitInv ==
    ASSUME Init
    PROVE  CInv
<1> DEFINE par == [x \in 2..1 |-> 1]
           pos == [t \in 1..1 |-> 1]
<1>1. /\ heap \in [Objects -> Shapes] /\ WellFormed(heap) /\ emptied = {}
      /\ todo = Slots(1, "items", <<1>>)
      /\ doc = <<[tag |-> "Objs", kind |-> "Objs", items |-> <<>>]>>
      /\ obj_ref = {} /\ obj_ref_id = 0 /\ tn_ref_list = <<>>
      /\ toread = <<1>> /\ obj_ref_map = <<>> /\ tn_ref_map = <<>>
      /\ value = [e \in ElementIds |-> 0] /\ names = [e \in ElementIds |-> <<>>] /\ failed = FALSE
  BY DEF Init
<1>2. Len(doc) = 1 /\ doc[1] = [tag |-> "Objs", kind |-> "Objs", items |-> <<>>] /\ 2..Len(doc) = {} /\ 2..1 = {}
  BY <1>1
<1>3. doc[1] \in Roots /\ doc[1].items = <<>>
  BY <1>2 DEF Roots
<1>4. DocType(doc)
  BY <1>1, <1>2, <1>3 DEF DocType
<1>5. 1 \in Objects /\ Len(doc) <= MaxElements /\ 1 \in ElementIds
  BY <1>2, ClixmlReferencesAssumption DEF Objects, ElementIds
<1>6. \A part \in Parts : Kids(doc, 1, part) = <<>>
  BY <1>3 DEF Kids, Parts
<1>7. Tree(doc, par)
  <2>1. \A p \in 1..Len(doc), part \in Parts : 1..Len(Kids(doc, p, part)) = {}
    BY <1>2, <1>6
  <2> QED
    BY <1>2, <2>1 DEF Tree
<1>8. Faithful(doc, heap)
  BY <1>2 DEF Faithful
<1>9. todo \in Seq(SlotSet) /\ Len(todo) = 1 /\ todo[1] = [parent |-> 1, part |-> "items", obj |-> 1]
  <2>1. <<1>> \in Seq(Objects) /\ Len(<<1>>) = 1 /\ <<1>>[1] = 1 /\ "items" \in Parts
    BY <1>5 DEF Parts
  <2> DEFINE objs == <<1>>
  <2>2. objs \in Seq(Objects) /\ Len(objs) = 1 /\ objs[1] = 1
    BY <2>1
  <2> HIDE DEF objs
  <2>3. Slots(1, "items", objs) \in Seq(SlotSet) /\ Len(Slots(1, "items", objs)) = 1
    BY <2>1, <2>2, SlotsAt
  <2>4. Slots(1, "items", objs)[1] = [parent |-> 1, part |-> "items", obj |-> objs[1]]
    BY <2>1, <2>2, SlotsAt
  <2>5. todo = Slots(1, "items", objs)
    BY <1>1 DEF objs
  <2> QED
    BY <2>2, <2>3, <2>4, <2>5
<1>10. SlotOk(todo, doc, heap, par, pos, 1)
  <2> DEFINE s == todo[1]
             kids == Kids(doc, s.parent, s.part)
  <2>1. s.parent = 1 /\ s.part = "items" /\ s.obj = 1
    BY <1>9
  <2>2. kids = <<>> /\ Len(kids) = 0
    BY <1>6, <2>1 DEF Parts
  <2>3. pos[1] = 1 /\ SameSlot(todo[1], s)
    BY DEF SameSlot
  <2>4. \A k \in (0 + 1)..1 : \E u \in 1..Len(todo) : SameSlot(todo[u], s) /\ pos[u] = k
    BY <1>9, <2>3
  <2> HIDE DEF s, kids
  <2> QED
    BY <1>2, <2>1, <2>2, <2>3, <2>4 DEF SlotOk, s, kids
<1>11. TodoOk(todo, doc, heap, par, pos)
  BY <1>9, <1>10 DEF TodoOk
<1>12. DictsOk(todo, doc, heap, pos)
  BY <1>2 DEF DictsOk
<1>13. Writing(par, pos)
  BY <1>1, <1>4, <1>5, <1>7, <1>8, <1>11, <1>12 DEF Writing, WellShaped
<1>14. RefsOk
  BY <1>1, <1>2 DEF RefsOk
<1>15. NamesOk
  <2>1. Len(tn_ref_list) = 0 /\ tn_ref_list \in Seq({tn[1] : tn \in AllNames})
    BY <1>1
  <2> QED
    BY <1>2, <2>1 DEF NamesOk
<1>16. NotRead
  BY <1>1 DEF NotRead
<1>17. ReadOk
  <2>1. toread \in Seq(1..Len(doc)) /\ DOMAIN obj_ref_map = {} /\ DOMAIN tn_ref_map = {}
    BY <1>1, <1>2
  <2>2. value = [e \in ElementIds |-> value[e]] /\ names = [e \in ElementIds |-> names[e]] /\ value[1] = 0
    BY <1>1, <1>5
  <2> QED
    BY <1>2, <2>1, <2>2 DEF ReadOk
<1>18. NamesRead /\ InOrder(par)
  BY <1>1, <1>2, <1>16 DEF NamesRead, InOrder
<1>19. CInvFor(par, pos)
  BY <1>13, <1>14, <1>15, <1>16, <1>17, <1>18 DEF CInvFor
<1> QED
  BY <1>19 DEF CInv

-----------------------------------------------------------------------------
(* What the reader does *)

\* A sequence of members of T.
LEMMA SeqOf ==
    ASSUME NEW S, NEW T, NEW s \in Seq(S), \A i \in 1..Len(s) : s[i] \in T
    PROVE  s \in Seq(T)
OBVIOUS

\* The value of the entry of a dict, then its key.
LEMMA SwappedIs ==
    ASSUME NEW S, NEW s \in Seq(S), Len(s) \in {0, 2}
    PROVE  /\ Swapped(s) \in Seq(S) /\ Len(Swapped(s)) = Len(s)
           /\ Len(s) = 2 => Swapped(s)[1] = s[2] /\ Swapped(s)[2] = s[1]
<1>1. CASE Len(s) = 0
  BY <1>1 DEF Swapped
<1>2. CASE Len(s) = 2
  <2>1. DOMAIN s = 1..2 /\ s[1] \in S /\ s[2] \in S
    <3>1. DOMAIN s = 1..Len(s) /\ \A i \in 1..Len(s) : s[i] \in S
      OBVIOUS
    <3> QED
      BY <1>2, <3>1
  <2>2. DOMAIN Swapped(s) = 1..2 /\ Swapped(s) = [i \in 1..2 |-> IF i % 2 = 1 THEN s[i + 1] ELSE s[i - 1]]
    BY <2>1 DEF Swapped
  <2>3. Swapped(s)[1] = s[2] /\ Swapped(s)[2] = s[1]
    BY <2>2
  <2>4. \A i \in 1..2 : Swapped(s)[i] \in S
    BY <2>1, <2>3
  <2> QED
    BY <1>2, <2>2, <2>3, <2>4
<1> QED
  BY <1>1, <1>2

\* The reader goes into every member of an object, and of one that is straight in the
\* order of writing, but for what is plain.
LEMMA ChildrenAre ==
    ASSUME NEW par, NEW pos, Writing(par, pos), todo = <<>>, NEW e \in 2..Len(doc), doc[e].tag = "Obj"
    PROVE  LET c == Children(e)
           IN  /\ c \in Seq(2..Len(doc))
               /\ \A i \in 1..Len(c) : par[c[i]] = e
               /\ \A x \in 2..Len(doc) : par[x] = e => \E i \in 1..Len(c) : c[i] = x
               /\ Straight => \A i, j \in 1..Len(c) : i < j /\ NotPlain(doc, c[i]) /\ NotPlain(doc, c[j]) => c[i] < c[j]
<1> DEFINE items == doc[e].items
           props == doc[e].props
           first == IF doc[e].kind = "dict" THEN Swapped(items) ELSE items
           c == Children(e)
           o == doc[e].obj
<1>1. /\ WellShaped /\ DocType(doc) /\ Tree(doc, par) /\ Faithful(doc, heap) /\ DictsOk(todo, doc, heap, pos)
  BY DEF Writing
<1>2. /\ doc[e] \in Nodes /\ e # 1 /\ e \in 1..Len(doc) /\ "items" \in Parts /\ "props" \in Parts
      /\ Kids(doc, e, "items") = items /\ Kids(doc, e, "props") = props
  BY <1>1 DEF DocType, Kids, Parts
<1>3. /\ items \in Seq(2..Len(doc)) /\ \A i \in 1..Len(items) : par[items[i]] = e /\ \A j \in 1..(i - 1) : items[j] < items[i]
      /\ props \in Seq(2..Len(doc)) /\ \A i \in 1..Len(props) : par[props[i]] = e /\ \A j \in 1..(i - 1) : props[j] < props[i]
  <2>1. items \in Seq(Nat) /\ props \in Seq(Nat)
    BY <1>1, <1>2, KidsType
  <2>2. \A part \in Parts : \A i \in 1..Len(Kids(doc, e, part)) :
          /\ Kids(doc, e, part)[i] \in 2..Len(doc) /\ par[Kids(doc, e, part)[i]] = e
          /\ \A j \in 1..(i - 1) : Kids(doc, e, part)[j] < Kids(doc, e, part)[i]
    BY <1>1, <1>2 DEF Tree
  <2> HIDE DEF items, props
  <2>3. \A i \in 1..Len(items) : items[i] \in 2..Len(doc) /\ par[items[i]] = e /\ \A j \in 1..(i - 1) : items[j] < items[i]
    BY <1>2, <2>2
  <2>4. \A i \in 1..Len(props) : props[i] \in 2..Len(doc) /\ par[props[i]] = e /\ \A j \in 1..(i - 1) : props[j] < props[i]
    BY <1>2, <2>2
  <2>5. items \in Seq(2..Len(doc)) /\ props \in Seq(2..Len(doc))
    BY <2>1, <2>3, <2>4, SeqOf
  <2> QED
    BY <2>3, <2>4, <2>5
<1>4. doc[e].kind = heap[o].kind /\ o \in Objects
  BY <1>1, <1>2 DEF Faithful, Nodes
<1>5. doc[e].kind = "dict" => Len(items) \in {0, 2}
  <2>1. doc[e].kind = "dict" => Len(heap[o].items) \in {0, 2}
    BY <1>1, <1>4, HeapShapes
  <2>2. Len(todo) = 0
    OBVIOUS
  <2>3. doc[e].kind = "dict" => Len(items) = Len(heap[o].items)
    BY <1>1, <2>2 DEF DictsOk, DictOk, IsObj
  <2> QED
    BY <2>1, <2>3
<1>6. /\ \A i \in 1..Len(items) : i \in 1..Len(heap[o].items) /\ doc[items[i]].obj = heap[o].items[i]
      /\ \A i \in 1..Len(props) : i \in 1..Len(heap[o].props) /\ doc[props[i]].obj = heap[o].props[i]
  BY <1>1, <1>2 DEF Faithful
<1>7. heap[o].props \in Seq(Objects) /\ heap[o].items \in Seq(Objects)
  BY <1>1, <1>4, HeapShapes
<1>8. c = first \o props
  BY DEF Children
<1> HIDE DEF items, props, c, o
<1>9. /\ first \in Seq(2..Len(doc)) /\ Len(first) = Len(items)
      /\ \A i \in 1..Len(first) : \E j \in 1..Len(items) : first[i] = items[j]
      /\ \A j \in 1..Len(items) : \E i \in 1..Len(first) : first[i] = items[j]
  <2>1. CASE doc[e].kind # "dict"
    BY <1>3, <2>1
  <2>2. CASE doc[e].kind = "dict"
    <3>1. /\ first = Swapped(items) /\ first \in Seq(2..Len(doc)) /\ Len(first) = Len(items)
          /\ Len(items) = 2 => first[1] = items[2] /\ first[2] = items[1]
      BY <1>3, <1>5, <2>2, SwappedIs
    <3> HIDE DEF first
    <3>2. CASE Len(items) = 0
      BY <3>1, <3>2
    <3>3. CASE Len(items) = 2
      <4>1. 1..Len(items) = {1, 2}
        BY <3>3
      <4> QED
        BY <3>1, <3>3, <4>1
    <3> QED
      BY <1>5, <2>2, <3>2, <3>3
  <2> QED
    BY <2>1, <2>2
<1>10. Straight => \A i, j \in 1..Len(first) : i < j /\ NotPlain(doc, first[i]) /\ NotPlain(doc, first[j]) => first[i] < first[j]
  <2>1. CASE doc[e].kind # "dict"
    <3>1. \A i, j \in 1..Len(items) : i < j => i \in 1..(j - 1)
      OBVIOUS
    <3> QED
      BY <1>3, <2>1, <3>1
  <2>2. CASE doc[e].kind = "dict"
    <3> SUFFICES ASSUME Straight, NEW i \in 1..Len(first), NEW j \in 1..Len(first), i < j, NotPlain(doc, first[i]), NotPlain(doc, first[j])
                 PROVE  FALSE
      OBVIOUS
    <3>1. /\ first = Swapped(items) /\ Len(first) = Len(items)
          /\ Len(items) = 2 => first[1] = items[2] /\ first[2] = items[1]
      BY <1>3, <1>5, <2>2, SwappedIs
    <3> HIDE DEF first
    <3>2. Len(items) = 2 /\ j = 2
      BY <1>5, <2>2, <3>1
    <3>3. 1 \in 1..Len(items) /\ items[1] \in 2..Len(doc)
      <4>1. 1 \in 1..Len(items)
        BY <3>2
      <4> QED
        BY <1>3, <4>1
    <3>4. heap[o].items[1] \in Keys(heap[o])
      <4>1. 1 \in DOMAIN heap[o].items /\ 1 % 2 = 1
        BY <1>6, <1>7, <3>3
      <4> QED
        BY <4>1 DEF Keys
    <3>5. IsPlain(doc[items[1]].obj)
      BY <1>4, <1>6, <2>2, <3>3, <3>4 DEF Straight
    <3>6. doc[items[1]].tag = "S"
      BY <1>1, <3>3, <3>5, Plain DEF Faithful
    <3> QED
      BY <3>1, <3>2, <3>6 DEF NotPlain
  <2> QED
    BY <2>1, <2>2
<1>11. Straight /\ items # <<>> => \A i \in 1..Len(props) : ~NotPlain(doc, props[i])
  <2> SUFFICES ASSUME Straight, items # <<>>, NEW i \in 1..Len(props) PROVE ~NotPlain(doc, props[i])
    OBVIOUS
  <2>1. 1 \in 1..Len(items)
    BY <1>3
  <2>2. heap[o].items # <<>>
    BY <1>6, <1>7, <2>1
  <2>3. heap[o].props[i] \in Range(heap[o].props)
    BY <1>6, <1>7 DEF Range
  <2>4. IsPlain(doc[props[i]].obj)
    BY <1>4, <1>6, <2>2, <2>3 DEF Straight
  <2>5. props[i] \in 2..Len(doc)
    BY <1>3
  <2>6. doc[props[i]].tag = "S"
    BY <1>1, <2>4, <2>5, Plain DEF Faithful
  <2> QED
    BY <2>6 DEF NotPlain
<1> HIDE DEF first
<1>12. /\ c \in Seq(2..Len(doc))
       /\ \A i \in 1..Len(first) : c[i] = first[i] /\ i \in 1..Len(c)
       /\ \A i \in 1..Len(props) : c[Len(first) + i] = props[i] /\ Len(first) + i \in 1..Len(c)
       /\ \A i \in 1..Len(c) : i \in 1..Len(first) \/ (i - Len(first) \in 1..Len(props) /\ c[i] = props[i - Len(first)])
  <2> DEFINE S == 2..Len(doc)
  <2>1. first \in Seq(S) /\ props \in Seq(S)
    BY <1>3, <1>9
  <2> HIDE DEF S
  <2>2. first \o props \in Seq(S)
    BY <2>1, ConcatAt
  <2>3. /\ \A i \in 1..Len(first) : (first \o props)[i] = first[i] /\ i \in 1..Len(first \o props)
        /\ \A i \in 1..Len(props) : (first \o props)[Len(first) + i] = props[i] /\ Len(first) + i \in 1..Len(first \o props)
    BY <2>1, ConcatAt
  <2>4. \A i \in 1..Len(first \o props) :
          i \in 1..Len(first) \/ (i - Len(first) \in 1..Len(props) /\ (first \o props)[i] = props[i - Len(first)])
    BY <2>1, ConcatAt
  <2> QED
    BY <1>8, <2>2, <2>3, <2>4 DEF S
<1>13. ASSUME NEW i \in 1..Len(c) PROVE par[c[i]] = e
  <2>1. CASE i \in 1..Len(first)
    <3>1. c[i] = first[i]
      BY <1>12, <2>1
    <3>2. PICK j \in 1..Len(items) : first[i] = items[j]
      BY <1>9, <2>1
    <3> QED
      BY <1>3, <3>1, <3>2
  <2>2. CASE i - Len(first) \in 1..Len(props) /\ c[i] = props[i - Len(first)]
    BY <1>3, <2>2
  <2> QED
    BY <1>12, <2>1, <2>2
<1>14. ASSUME NEW x \in 2..Len(doc), par[x] = e PROVE \E i \in 1..Len(c) : c[i] = x
  <2>1. PICK part \in Parts : \E i \in 1..Len(Kids(doc, e, part)) : Kids(doc, e, part)[i] = x
    BY <1>1, <1>14 DEF Tree
  <2>2. CASE part = "items"
    <3>1. PICK j \in 1..Len(items) : items[j] = x
      BY <1>2, <2>1, <2>2
    <3>2. PICK i \in 1..Len(first) : first[i] = x
      BY <1>9, <3>1
    <3> QED
      BY <1>12, <3>2
  <2>3. CASE part = "props"
    <3>1. PICK i \in 1..Len(props) : props[i] = x
      BY <1>2, <2>1, <2>3
    <3> QED
      BY <1>12, <3>1
  <2> QED
    BY <2>2, <2>3 DEF Parts
<1>15. ASSUME Straight, NEW i \in 1..Len(c), NEW j \in 1..Len(c), i < j, NotPlain(doc, c[i]), NotPlain(doc, c[j]) PROVE c[i] < c[j]
  <2>1. \/ i \in 1..Len(first) /\ j \in 1..Len(first) /\ c[i] = first[i] /\ c[j] = first[j]
        \/ i \in 1..Len(first) /\ j - Len(first) \in 1..Len(props) /\ c[i] = first[i] /\ c[j] = props[j - Len(first)]
        \/ /\ i - Len(first) \in 1..Len(props) /\ j - Len(first) \in 1..Len(props) /\ i - Len(first) < j - Len(first)
           /\ c[i] = props[i - Len(first)] /\ c[j] = props[j - Len(first)]
    <3>1. \A k \in 1..Len(c) : \/ k \in 1..Len(first) /\ c[k] = first[k]
                               \/ k - Len(first) \in 1..Len(props) /\ c[k] = props[k - Len(first)]
      BY <1>12
    <3>2. Len(first) \in Nat /\ Len(props) \in Nat /\ i \in Nat /\ j \in Nat
      BY <1>3, <1>9
    <3>3. j \in 1..Len(first) => ~(i - Len(first) \in 1..Len(props))
      BY <1>15, <3>2
    <3>4. i - Len(first) < j - Len(first)
      BY <1>15, <3>2
    <3> QED
      BY <3>1, <3>3, <3>4
  <2>2. CASE i \in 1..Len(first) /\ j \in 1..Len(first) /\ c[i] = first[i] /\ c[j] = first[j]
    BY <1>10, <1>15, <2>2
  <2>3. CASE i \in 1..Len(first) /\ j - Len(first) \in 1..Len(props) /\ c[j] = props[j - Len(first)]
    <3>1. items # <<>>
      BY <1>9, <2>3
    <3> QED
      BY <1>11, <1>15, <2>3, <3>1
  <2>4. CASE /\ i - Len(first) \in 1..Len(props) /\ j - Len(first) \in 1..Len(props) /\ i - Len(first) < j - Len(first)
             /\ c[i] = props[i - Len(first)] /\ c[j] = props[j - Len(first)]
    <3>1. i - Len(first) \in 1..((j - Len(first)) - 1)
      BY <2>4
    <3> QED
      BY <1>3, <2>4, <3>1
  <2> QED
    BY <2>1, <2>2, <2>3, <2>4
<1> QED
  BY <1>12, <1>13, <1>14, <1>15 DEF c

\* What can be read next: Objs before anything else, and then never again.
LEMMA ReadNext ==
    ASSUME DocType(doc), NotRead \/ (todo = <<>> /\ toread \in Seq(2..Len(doc))), Read
    PROVE  \/ NotRead /\ toread' = doc[1].items /\ UNCHANGED <<obj_ref_map, tn_ref_map, value, names, failed>>
           \/ /\ ~NotRead /\ toread \in Seq(2..Len(doc)) /\ toread # <<>> /\ Head(toread) \in 2..Len(doc) /\ doc[Head(toread)] \in Nodes
              /\ Tail(toread) \in Seq(2..Len(doc))
              /\ ReadPlain(Head(toread)) \/ ReadRef(Head(toread)) \/ ReadObj(Head(toread))
<1>1. doc[1] \in Roots /\ \A x \in 2..Len(doc) : doc[x] \in Nodes
  BY DEF DocType
<1>2. toread # <<>> /\ (ReadPlain(Head(toread)) \/ ReadRef(Head(toread)) \/ ReadObj(Head(toread)) \/ ReadObjs)
  BY DEF Read
<1>3. CASE NotRead
  <2>1. Head(toread) = 1
    BY <1>3 DEF NotRead
  <2>2. doc[1].tag = "Objs"
    BY <1>1 DEF Roots
  <2>3. ReadObjs
    BY <1>2, <2>1, <2>2 DEF ReadPlain, ReadRef, ReadObj
  <2> QED
    BY <1>3, <2>1, <2>3 DEF ReadObjs
<1>4. CASE ~NotRead
  <2>1. toread \in Seq(2..Len(doc))
    BY <1>4
  <2>2. Head(toread) \in 2..Len(doc) /\ Tail(toread) \in Seq(2..Len(doc))
    BY <1>2, <2>1
  <2>3. doc[Head(toread)].tag # "Objs"
    BY <1>1, <2>2 DEF Nodes
  <2> QED
    BY <1>1, <1>2, <1>4, <2>1, <2>2, <2>3 DEF ReadObjs
<1> QED
  BY <1>3, <1>4

\* What keeps the reader's tables right.
LEMMA ReadOkValues ==
    ASSUME ReadOk, UNCHANGED <<doc, heap, tn_ref_list, obj_ref_map, tn_ref_map, names>>,
           toread' \in Seq(1..Len(doc)), value' = [x \in ElementIds |-> value'[x]], value'[1] = 0,
           \A x \in 2..Len(doc) : value'[x] # 0 =>
             /\ doc[x].tag # "Ref" => value'[x] = x
             /\ doc[x].tag = "Ref" => IsObj(doc, value'[x]) /\ doc[value'[x]].ref = doc[x].ref
             /\ doc[x].tag = "Obj" => /\ doc[x].ref \in DOMAIN obj_ref_map
                                      /\ doc[x].tn.tag = "TN" => doc[x].tn.id \in DOMAIN tn_ref_map
    PROVE  ReadOk'
<1>1. names' = [e \in ElementIds |-> names'[e]]
  BY DEF ReadOk
<1>2. \A id \in DOMAIN obj_ref_map : IsObj(doc, obj_ref_map[id]) /\ doc[obj_ref_map[id]].ref = id
  BY DEF ReadOk
<1>3. \A id \in DOMAIN tn_ref_map :
          /\ id \in 1..Len(tn_ref_list)
          /\ \E o \in Objects : /\ heap[o].kind # "string" /\ tn_ref_map[id] = heap[o].names
                                /\ tn_ref_list[id] = heap[o].names[1]
  BY DEF ReadOk
<1> QED
  BY <1>1, <1>2, <1>3 DEF ReadOk, IsObj, ElementIds

\* Nothing but the elements to be read next has changed.
LEMMA ReadOkAgain ==
    ASSUME ReadOk, UNCHANGED <<doc, heap, tn_ref_list, obj_ref_map, tn_ref_map, value, names>>,
           toread' \in Seq(1..Len(doc))
    PROVE  ReadOk'
<1>1. value' = value
  OBVIOUS
<1>2. value = [x \in ElementIds |-> value[x]] /\ value[1] = 0
  BY DEF ReadOk
<1>3. \A x \in 2..Len(doc) : value[x] # 0 =>
          /\ doc[x].tag # "Ref" => value[x] = x
          /\ doc[x].tag = "Ref" => IsObj(doc, value[x]) /\ doc[value[x]].ref = doc[x].ref
          /\ doc[x].tag = "Obj" => /\ doc[x].ref \in DOMAIN obj_ref_map
                                   /\ doc[x].tn.tag = "TN" => doc[x].tn.id \in DOMAIN tn_ref_map
  BY DEF ReadOk
<1> QED
  BY <1>1, <1>2, <1>3, ReadOkValues

\* A step of the reader keeps its tables right: an id stands for the object, or for
\* the list of type names, that the writer gave it to.
LEMMA ReadStep ==
    ASSUME NEW par, NEW pos, CInvFor(par, pos), Read
    PROVE  /\ toread' \in Seq(2..Len(doc)) /\ ReadOk'
           /\ NamesByFirst => NamesRead'
<1> DEFINE e == Head(toread)
<1>1. /\ Writing(par, pos) /\ RefsOk /\ NamesOk /\ ReadOk /\ (NamesByFirst => NamesRead)
      /\ NotRead \/ (todo = <<>> /\ toread \in Seq(2..Len(doc)))
  BY DEF CInvFor
<1>2. WellShaped /\ DocType(doc) /\ Len(doc) <= MaxElements /\ Tree(doc, par) /\ Faithful(doc, heap)
  BY <1>1 DEF Writing
<1>3. /\ todo = <<>> /\ heap' = heap /\ doc' = doc /\ tn_ref_list' = tn_ref_list
  BY DEF Read, writerVars
<1>4. \/ NotRead /\ toread' = doc[1].items /\ UNCHANGED <<obj_ref_map, tn_ref_map, value, names, failed>>
      \/ /\ ~NotRead /\ toread \in Seq(2..Len(doc)) /\ toread # <<>> /\ e \in 2..Len(doc) /\ doc[e] \in Nodes /\ Tail(toread) \in Seq(2..Len(doc))
         /\ ReadPlain(e) \/ ReadRef(e) \/ ReadObj(e)
  BY <1>1, <1>2, ReadNext
<1>5. /\ value = [x \in ElementIds |-> value[x]] /\ names = [x \in ElementIds |-> names[x]] /\ value[1] = 0
      /\ \A x \in 2..Len(doc) : value[x] # 0 =>
          /\ doc[x].tag # "Ref" => value[x] = x
          /\ doc[x].tag = "Ref" => IsObj(doc, value[x]) /\ doc[value[x]].ref = doc[x].ref
          /\ doc[x].tag = "Obj" => /\ doc[x].ref \in DOMAIN obj_ref_map
                                   /\ doc[x].tn.tag = "TN" => doc[x].tn.id \in DOMAIN tn_ref_map
      /\ \A id \in DOMAIN obj_ref_map : IsObj(doc, obj_ref_map[id]) /\ doc[obj_ref_map[id]].ref = id
      /\ \A id \in DOMAIN tn_ref_map :
            /\ id \in 1..Len(tn_ref_list)
            /\ \E o \in Objects : /\ heap[o].kind # "string" /\ tn_ref_map[id] = heap[o].names
                                  /\ tn_ref_list[id] = heap[o].names[1]
  BY <1>1 DEF ReadOk
<1>6. Len(doc) \in Nat /\ \A x \in 2..Len(doc) : x \in ElementIds /\ x # 1 /\ x # 0 /\ x \in 1..Len(doc)
  BY <1>2, ClixmlReferencesAssumption DEF DocType, ElementIds
<1> HIDE DEF e
<1>8. CASE NotRead /\ toread' = doc[1].items /\ UNCHANGED <<obj_ref_map, tn_ref_map, value, names, failed>>
  <2>1. doc[1].items = Kids(doc, 1, "items") /\ 1 \in 1..Len(doc) /\ "items" \in Parts
    BY <1>2 DEF Kids, Parts, DocType
  <2>2. doc[1].items \in Seq(Nat)
    BY <1>2, <2>1, KidsType
  <2>3. \A i \in 1..Len(doc[1].items) : doc[1].items[i] \in 2..Len(doc)
    BY <1>2, <2>1 DEF Tree
  <2>4. doc[1].items \in Seq(2..Len(doc))
    BY <2>2, <2>3, SeqOf
  <2>5. \A i \in 1..Len(doc[1].items) : doc[1].items[i] \in 1..Len(doc)
    BY <1>6, <2>3
  <2>6. toread' \in Seq(1..Len(doc))
    BY <1>8, <2>2, <2>5, SeqOf
  <2>7. ReadOk'
    BY <1>1, <1>3, <1>8, <2>6, ReadOkAgain
  <2>8. NamesByFirst => NamesRead'
    BY <1>1, <1>3, <1>8 DEF NamesRead
  <2> QED
    BY <1>8, <2>4, <2>7, <2>8
<1>9. CASE /\ ~NotRead /\ toread \in Seq(2..Len(doc)) /\ toread # <<>> /\ e \in 2..Len(doc) /\ doc[e] \in Nodes /\ Tail(toread) \in Seq(2..Len(doc))
           /\ ReadPlain(e) \/ ReadRef(e) \/ ReadObj(e)
  <2>1. /\ e \in 2..Len(doc) /\ e \in ElementIds /\ e # 1 /\ e # 0 /\ 1 # e /\ doc[e] \in Nodes /\ toread \in Seq(2..Len(doc))
        /\ Tail(toread) \in Seq(2..Len(doc)) /\ 2..Len(doc) \subseteq 1..Len(doc)
    BY <1>6, <1>9
  <2>2. \A s \in Seq(2..Len(doc)) : s \in Seq(1..Len(doc))
    BY <2>1
  <2>3. CASE ReadPlain(e)
    <3>1. /\ doc[e].tag = "S" /\ value' = [value EXCEPT ![e] = e] /\ toread' = Tail(toread)
          /\ obj_ref_map' = obj_ref_map /\ tn_ref_map' = tn_ref_map /\ names' = names
      BY <2>3 DEF ReadPlain, e
    <3>2. value'[e] = e /\ (\A x \in 2..Len(doc) : x # e => value'[x] = value[x]) /\ value'[1] = 0
      BY <1>5, <1>6, <2>1, <3>1
    <3>3. value' = [x \in ElementIds |-> value'[x]]
      BY <1>5, <3>1
    <3>4. ReadOk'
      <4>1. ASSUME NEW x \in 2..Len(doc), value'[x] # 0
            PROVE  /\ doc[x].tag # "Ref" => value'[x] = x
                   /\ doc[x].tag = "Ref" => IsObj(doc, value'[x]) /\ doc[value'[x]].ref = doc[x].ref
                   /\ doc[x].tag = "Obj" => /\ doc[x].ref \in DOMAIN obj_ref_map
                                            /\ doc[x].tn.tag = "TN" => doc[x].tn.id \in DOMAIN tn_ref_map
        <5>1. CASE x = e
          BY <3>1, <3>2, <5>1
        <5>2. CASE x # e
          BY <1>5, <3>2, <4>1, <5>2
        <5> QED
          BY <5>1, <5>2
      <4> QED
        BY <1>1, <1>3, <2>1, <2>2, <3>1, <3>2, <3>3, <4>1, ReadOkValues
    <3>5. NamesByFirst => NamesRead'
      BY <1>1, <1>3, <2>1, <3>1, <3>2 DEF NamesRead
    <3> QED
      BY <2>1, <3>1, <3>4, <3>5
  <2>4. CASE ReadRef(e)
    <3>1. /\ doc[e].tag = "Ref" /\ toread' = Tail(toread)
          /\ obj_ref_map' = obj_ref_map /\ tn_ref_map' = tn_ref_map /\ names' = names
          /\ \/ doc[e].ref \in DOMAIN obj_ref_map /\ value' = [value EXCEPT ![e] = obj_ref_map[doc[e].ref]]
             \/ value' = value
      BY <2>4 DEF ReadRef, e
    <3>2. /\ value'[e] = value[e] \/ (doc[e].ref \in DOMAIN obj_ref_map /\ value'[e] = obj_ref_map[doc[e].ref])
          /\ \A x \in 2..Len(doc) : x # e => value'[x] = value[x]
          /\ value'[1] = 0 /\ value' = [x \in ElementIds |-> value'[x]]
      <4>1. CASE value' = value
        BY <1>5, <4>1
      <4>2. CASE doc[e].ref \in DOMAIN obj_ref_map /\ value' = [value EXCEPT ![e] = obj_ref_map[doc[e].ref]]
        <5>1. value' = [x \in ElementIds |-> IF x = e THEN obj_ref_map[doc[e].ref] ELSE value[x]]
          BY <1>5, <4>2
        <5>2. 1 \in ElementIds
          BY ClixmlReferencesAssumption DEF ElementIds
        <5> QED
          BY <1>5, <1>6, <2>1, <4>2, <5>1, <5>2
      <4> QED
        BY <3>1, <4>1, <4>2
    <3>3. ReadOk'
      <4>1. ASSUME NEW x \in 2..Len(doc), value'[x] # 0
            PROVE  /\ doc[x].tag # "Ref" => value'[x] = x
                   /\ doc[x].tag = "Ref" => IsObj(doc, value'[x]) /\ doc[value'[x]].ref = doc[x].ref
                   /\ doc[x].tag = "Obj" => /\ doc[x].ref \in DOMAIN obj_ref_map
                                            /\ doc[x].tn.tag = "TN" => doc[x].tn.id \in DOMAIN tn_ref_map
        <5>1. CASE value'[x] = value[x]
          BY <1>5, <4>1, <5>1
        <5>2. CASE x = e /\ doc[e].ref \in DOMAIN obj_ref_map /\ value'[e] = obj_ref_map[doc[e].ref]
          BY <1>5, <3>1, <5>2
        <5> QED
          BY <3>2, <5>1, <5>2
      <4> QED
        BY <1>1, <1>3, <2>1, <2>2, <3>1, <3>2, <4>1, ReadOkValues
    <3>4. NamesByFirst => NamesRead'
      BY <1>1, <1>3, <2>1, <3>1, <3>2 DEF NamesRead
    <3> QED
      BY <2>1, <3>1, <3>3, <3>4
  <2>5. CASE ReadObj(e)
    <3> DEFINE tn == doc[e].tn
               id == doc[e].ref
    <3>1. CASE tn.tag = "TNRef" /\ tn.id \notin DOMAIN tn_ref_map
      <4>1. UNCHANGED <<toread, obj_ref_map, tn_ref_map, value, names>>
        BY <2>5, <3>1 DEF ReadObj
      <4>2. ReadOk'
        BY <1>1, <1>3, <2>1, <2>2, <4>1, ReadOkAgain
      <4>3. NamesByFirst => NamesRead'
        BY <1>1, <1>3, <4>1 DEF NamesRead
      <4> QED
        BY <2>1, <4>1, <4>2, <4>3
    <3>2. CASE ~(tn.tag = "TNRef" /\ tn.id \notin DOMAIN tn_ref_map)
      <4>1. /\ doc[e].tag = "Obj"
            /\ tn_ref_map' = IF tn.tag = "TN" THEN Put(tn_ref_map, tn.id, tn.names) ELSE tn_ref_map
            /\ names' = [names EXCEPT ![e] = IF tn.tag = "TNRef" THEN tn_ref_map[tn.id] ELSE tn.names]
            /\ value' = [value EXCEPT ![e] = e]
            /\ obj_ref_map' = Put(obj_ref_map, id, e)
            /\ toread' = Children(e) \o Tail(toread)
        BY <2>5, <3>2 DEF ReadObj, e
      <4>2. /\ value'[e] = e /\ names'[e] = (IF tn.tag = "TNRef" THEN tn_ref_map[tn.id] ELSE tn.names)
            /\ \A x \in 2..Len(doc) : x # e => value'[x] = value[x] /\ names'[x] = names[x]
            /\ value'[1] = 0
            /\ value' = [x \in ElementIds |-> value'[x]] /\ names' = [x \in ElementIds |-> names'[x]]
        <5>1. value' = [x \in ElementIds |-> IF x = e THEN e ELSE value[x]]
          BY <1>5, <4>1
        <5>2. names' = [x \in ElementIds |-> IF x = e THEN (IF tn.tag = "TNRef" THEN tn_ref_map[tn.id] ELSE tn.names) ELSE names[x]]
          BY <1>5, <4>1
        <5>3. 1 \in ElementIds
          BY ClixmlReferencesAssumption DEF ElementIds
        <5> QED
          BY <1>5, <1>6, <2>1, <5>1, <5>2, <5>3
      <4>3. /\ DOMAIN obj_ref_map' = DOMAIN obj_ref_map \union {id} /\ obj_ref_map'[id] = e
            /\ \A k \in DOMAIN obj_ref_map : k # id => obj_ref_map'[k] = obj_ref_map[k]
        BY <4>1 DEF Put
      <4>4. /\ DOMAIN tn_ref_map' = DOMAIN tn_ref_map \union (IF tn.tag = "TN" THEN {tn.id} ELSE {})
            /\ tn.tag = "TN" => tn_ref_map'[tn.id] = tn.names
            /\ \A k \in DOMAIN tn_ref_map : tn_ref_map'[k] = tn_ref_map[k] \/ (tn.tag = "TN" /\ k = tn.id)
        <5>1. CASE tn.tag = "TN"
          BY <4>1, <5>1 DEF Put
        <5>2. CASE tn.tag # "TN"
          BY <4>1, <5>2
        <5> QED
          BY <5>1, <5>2
      <4>5. /\ doc[e].kind = heap[doc[e].obj].kind /\ doc[e].obj \in Objects
        BY <1>2, <2>1 DEF Faithful, Nodes
      <4>6. doc[e].kind # "string" =>
               /\ tn.tag \in {"TN", "TNRef"} /\ tn.id \in 1..Len(tn_ref_list)
               /\ tn_ref_list[tn.id] = heap[doc[e].obj].names[1]
               /\ tn.tag = "TN" => tn.names = heap[doc[e].obj].names
        BY <1>1, <2>1, <4>1 DEF NamesOk
      <4>7. tn.tag = "TN" => doc[e].kind # "string"
        BY <1>1, <2>1, <4>1 DEF NamesOk
      <4>8. toread' \in Seq(2..Len(doc))
        <5>1. Children(e) \in Seq(2..Len(doc))
          BY <1>1, <1>3, <2>1, <4>1, ChildrenAre
        <5> QED
          BY <2>1, <4>1, <5>1, ConcatAt
      <4>9. IsObj(doc, e)
        BY <2>1, <4>1 DEF IsObj
      <4>10. ASSUME NEW x \in 2..Len(doc), value'[x] # 0
             PROVE  /\ doc[x].tag # "Ref" => value'[x] = x
                    /\ doc[x].tag = "Ref" => IsObj(doc, value'[x]) /\ doc[value'[x]].ref = doc[x].ref
                    /\ doc[x].tag = "Obj" => /\ doc[x].ref \in DOMAIN obj_ref_map'
                                             /\ doc[x].tn.tag = "TN" => doc[x].tn.id \in DOMAIN tn_ref_map'
        <5>1. CASE x = e
          BY <4>1, <4>2, <4>3, <4>4, <5>1
        <5>2. CASE x # e
          <6>1. value'[x] = value[x] /\ value[x] # 0
            BY <4>2, <4>10, <5>2
          <6>2. DOMAIN obj_ref_map \subseteq DOMAIN obj_ref_map' /\ DOMAIN tn_ref_map \subseteq DOMAIN tn_ref_map'
            BY <4>3, <4>4
          <6> QED
            BY <1>5, <6>1, <6>2
        <5> QED
          BY <5>1, <5>2
      <4>11. \A k \in DOMAIN obj_ref_map' : IsObj(doc, obj_ref_map'[k]) /\ doc[obj_ref_map'[k]].ref = k
        BY <1>5, <4>3, <4>9
      <4>12. ASSUME NEW k \in DOMAIN tn_ref_map'
             PROVE  /\ k \in 1..Len(tn_ref_list)
                    /\ \E o \in Objects : /\ heap[o].kind # "string" /\ tn_ref_map'[k] = heap[o].names
                                          /\ tn_ref_list[k] = heap[o].names[1]
        <5>1. CASE tn.tag = "TN" /\ k = tn.id
          BY <4>4, <4>5, <4>6, <4>7, <5>1
        <5>2. CASE ~(tn.tag = "TN" /\ k = tn.id)
          BY <1>5, <4>4, <5>2
        <5> QED
          BY <5>1, <5>2
      <4>13. ReadOk'
        BY <1>3, <2>1, <2>2, <4>2, <4>8, <4>10, <4>11, <4>12 DEF ReadOk, ElementIds, IsObj
      <4>14. NamesByFirst => NamesRead'
        <5> SUFFICES ASSUME NamesByFirst, NEW x \in 2..Len(doc), doc[x].tag = "Obj", doc[x].kind # "string", value'[x] # 0
                     PROVE  names'[x] = heap[doc[x].obj].names
          BY <1>3, <2>1 DEF NamesRead
        <5>1. CASE x # e
          BY <1>1, <2>1, <4>2, <5>1 DEF NamesRead
        <5>2. CASE x = e /\ tn.tag = "TN"
          BY <4>2, <4>6, <5>2
        <5>3. CASE x = e /\ tn.tag = "TNRef"
          <6>1. names'[x] = tn_ref_map[tn.id] /\ tn.id \in DOMAIN tn_ref_map
            BY <3>2, <4>2, <5>3
          <6>2. PICK o \in Objects : heap[o].kind # "string" /\ tn_ref_map[tn.id] = heap[o].names /\ tn_ref_list[tn.id] = heap[o].names[1]
            BY <1>5, <6>1
          <6>3. heap[o].names[1] = heap[doc[e].obj].names[1]
            BY <4>6, <5>3, <6>2
          <6>4. heap[o].names # <<>> /\ heap[doc[e].obj].names # <<>>
            BY <1>2, <4>5, <5>3, <6>2, HeapShapes
          <6>5. heap[o].names = heap[doc[e].obj].names
            BY <4>5, <6>3, <6>4 DEF NamesByFirst
          <6> QED
            BY <5>3, <6>1, <6>2, <6>5
        <5> QED
          BY <4>6, <5>1, <5>2, <5>3
      <4> QED
        BY <2>1, <4>8, <4>13, <4>14
    <3> QED
      BY <3>1, <3>2
  <2> QED
    BY <1>9, <2>3, <2>4, <2>5
<1> QED
  BY <1>4, <1>8, <1>9

-----------------------------------------------------------------------------
(* The order of reading *)

\* What the reader comes to has nothing unread before it, of what can be referred to.
LEMMA AllBefore ==
    ASSUME NEW d, NEW par, NEW tr \in Seq(2..Len(d)), NEW v, DocType(d), Tree(d, par), OrderOf(d, par, tr, v),
           tr # <<>>, NotPlain(d, tr[1]), NEW y \in 2..Len(d), NotPlain(d, y), y < tr[1]
    PROVE  v[y] # 0
<1> DEFINE Missed == {x \in 2..Len(d) : NotPlain(d, x) /\ x < tr[1] /\ v[x] = 0}
<1>1. Len(d) \in Nat /\ 1 \in 1..Len(tr)
  BY DEF DocType
<1>2. Missed = {}
  <2> SUFFICES ASSUME Missed # {} PROVE FALSE
    OBVIOUS
  <2>1. Missed \in SUBSET Nat
    BY <1>1
  <2>2. PICK x \in Missed : \A m \in Missed : x <= m
    BY <2>1, LeastOf
  <2>3. x \in 2..Len(d) /\ NotPlain(d, x) /\ x < tr[1] /\ v[x] = 0
    OBVIOUS
  <2>4. CASE \E i \in 1..Len(tr) : tr[i] = x
    <3>1. PICK i \in 1..Len(tr) : tr[i] = x
      BY <2>4
    <3>2. i # 1 /\ 1 < i
      BY <2>3, <3>1
    <3>3. tr[1] < tr[i]
      BY <1>1, <2>3, <3>1, <3>2 DEF OrderOf
    <3>4. tr[1] \in 2..Len(d)
      BY <1>1
    <3> QED
      BY <2>3, <3>1, <3>3, <3>4
  <2>5. CASE ~Ready(par, v, x)
    <3>1. par[x] # 1 /\ v[par[x]] = 0
      BY <2>5 DEF Ready
    <3>2. par[x] \in 1..(x - 1) /\ IsObj(d, par[x])
      BY <2>3, <3>1 DEF Tree
    <3>3. par[x] \in 2..Len(d) /\ NotPlain(d, par[x]) /\ par[x] < tr[1]
      <4>1. tr[1] \in 2..Len(d)
        BY <1>1
      <4> QED
        BY <1>1, <2>3, <3>2, <4>1 DEF IsObj, NotPlain
    <3>4. par[x] \in Missed
      BY <3>1, <3>3
    <3>5. x <= par[x]
      BY <2>2, <3>4
    <3> QED
      BY <2>3, <3>2, <3>5
  <2> QED
    BY <2>3, <2>4, <2>5 DEF OrderOf
<1> QED
  BY <1>2

\* What is left of a sequence, one place further on.
LEMMA RestAt ==
    ASSUME NEW S, NEW s \in Seq(S), s # <<>>, NEW i \in 1..Len(Tail(s))
    PROVE  /\ i + 1 \in 2..Len(s) /\ i + 1 \in 1..Len(s) /\ 1 < i + 1
           /\ Tail(s)[i] = s[i + 1] /\ Tail(s)[i] \in S
<1>1. Len(s) \in Nat /\ Len(s) # 0
  OBVIOUS
<1>2. Len(Tail(s)) = Len(s) - 1
  BY <1>1
<1>3. i \in 1..(Len(s) - 1)
  BY <1>2
<1>4. i + 1 \in 2..Len(s) /\ i + 1 \in 1..Len(s) /\ 1 < i + 1
  BY <1>1, <1>3
<1>5. Tail(s)[i] = s[i + 1]
  BY <1>3
<1> QED
  BY <1>4, <1>5

\* Without members, what is read leaves the rest in order.
LEMMA OrderTail ==
    ASSUME NEW d, NEW par, NEW tr \in Seq(2..Len(d)), NEW v, NEW v2, DocType(d), Tree(d, par), OrderOf(d, par, tr, v),
           tr # <<>>, ~IsObj(d, tr[1]), v2[tr[1]] # 0, \A x \in 1..Len(d) : x # tr[1] => v2[x] = v[x]
    PROVE  OrderOf(d, par, Tail(tr), v2)
<1> DEFINE e == tr[1]
           rest == Tail(tr)
<1>1. /\ Len(d) \in Nat /\ 1 \in 1..Len(tr) /\ e \in 2..Len(d)
      /\ rest \in Seq(2..Len(d)) /\ Len(rest) = Len(tr) - 1 /\ Len(tr) - 1 \in Nat
      /\ \A t \in 1..(Len(tr) - 1) : rest[t] = tr[t + 1] /\ t + 1 \in 2..Len(tr)
      /\ \A t \in 2..Len(tr) : t - 1 \in 1..(Len(tr) - 1) /\ (t - 1) + 1 = t
  BY TailAt DEF DocType
<1>13. \A t \in 1..Len(rest) : /\ t + 1 \in 2..Len(tr) /\ t + 1 \in 1..Len(tr) /\ 1 < t + 1
                               /\ rest[t] = tr[t + 1] /\ rest[t] \in 2..Len(d)
  <2> DEFINE S == 2..Len(d)
  <2> HIDE DEF S
  <2>1. tr \in Seq(S)
    BY DEF S
  <2>2. \A t \in 1..Len(Tail(tr)) : /\ t + 1 \in 2..Len(tr) /\ t + 1 \in 1..Len(tr) /\ 1 < t + 1
                                    /\ Tail(tr)[t] = tr[t + 1] /\ Tail(tr)[t] \in S
    BY <2>1, RestAt
  <2> QED
    BY <2>2 DEF S
<1>2. \A x \in 2..Len(d) : par[x] \in 1..Len(d) /\ par[x] # e
  <2> SUFFICES ASSUME NEW x \in 2..Len(d) PROVE par[x] \in 1..Len(d) /\ par[x] # e
    OBVIOUS
  <2>1. par[x] \in 1..(x - 1) /\ (par[x] = 1 \/ IsObj(d, par[x]))
    BY DEF Tree
  <2> QED
    BY <1>1, <2>1
<1>3. \A x \in 2..Len(d) : Ready(par, v2, x) <=> Ready(par, v, x)
  BY <1>2 DEF Ready
<1>4. /\ \A i \in 1..Len(tr) : Ready(par, v, tr[i]) /\ (NotPlain(d, tr[i]) => Later(d, v, tr[i]))
      /\ \A i, j \in 1..Len(tr) : i < j /\ NotPlain(d, tr[i]) /\ NotPlain(d, tr[j]) => tr[i] < tr[j]
      /\ \A x \in 2..Len(d) : IF v[x] # 0 THEN Ready(par, v, x)
                              ELSE (\E i \in 1..Len(tr) : tr[i] = x) \/ ~Ready(par, v, x)
  BY DEF OrderOf
<1> HIDE DEF rest, e
<1>5. \A x \in 2..Len(d) : x # e => v2[x] = v[x]
  BY <1>1 DEF e
<1>6. ASSUME NEW i \in 1..Len(rest)
      PROVE  Ready(par, v2, rest[i]) /\ (NotPlain(d, rest[i]) => Later(d, v2, rest[i]))
  <2>1. rest[i] = tr[i + 1] /\ i + 1 \in 2..Len(tr) /\ i + 1 \in 1..Len(tr) /\ rest[i] \in 2..Len(d)
    BY <1>13
  <2>2. Ready(par, v2, rest[i])
    BY <1>3, <1>4, <2>1
  <2>3. ASSUME NotPlain(d, rest[i]) PROVE Later(d, v2, rest[i])
    <3>1. Later(d, v, rest[i])
      BY <1>4, <2>1, <2>3
    <3>2. NotPlain(d, e) => e < rest[i]
      BY <1>1, <1>4, <2>1, <2>3 DEF e
    <3>3. rest[i] # e
      <4>1. ASSUME rest[i] = e PROVE FALSE
        <5>1. e < e
          BY <2>3, <3>2, <4>1
        <5> QED
          BY <1>1, <5>1
      <4> QED
        BY <4>1
    <3> QED
      BY <1>5, <2>1, <3>1, <3>2, <3>3 DEF Later
  <2> QED
    BY <2>2, <2>3
<1>7. ASSUME NEW i \in 1..Len(rest), NEW j \in 1..Len(rest), i < j, NotPlain(d, rest[i]), NotPlain(d, rest[j])
      PROVE  rest[i] < rest[j]
  <2>1. i + 1 \in 1..Len(tr) /\ j + 1 \in 1..Len(tr) /\ i + 1 < j + 1 /\ rest[i] = tr[i + 1] /\ rest[j] = tr[j + 1]
    BY <1>7, <1>13
  <2> QED
    BY <1>4, <1>7, <2>1
<1>8. ASSUME NEW x \in 2..Len(d)
      PROVE  IF v2[x] # 0 THEN Ready(par, v2, x) ELSE (\E i \in 1..Len(rest) : rest[i] = x) \/ ~Ready(par, v2, x)
  <2>1. CASE x = e
    BY <1>1, <1>3, <1>4, <2>1 DEF e
  <2>2. CASE x # e /\ v[x] # 0
    BY <1>3, <1>4, <1>5, <2>2
  <2>3. CASE x # e /\ v[x] = 0
    <3>1. CASE \E i \in 1..Len(tr) : tr[i] = x
      <4>1. PICK i \in 1..Len(tr) : tr[i] = x
        BY <3>1
      <4>2. i \in 2..Len(tr)
        BY <2>3, <4>1 DEF e
      <4>3. i - 1 \in 1..Len(rest) /\ rest[i - 1] = x
        BY <1>1, <4>1, <4>2
      <4> QED
        BY <1>5, <2>3, <4>3
    <3>2. CASE ~Ready(par, v, x)
      BY <1>3, <1>5, <2>3, <3>2
    <3> QED
      BY <1>4, <2>3, <3>1, <3>2
  <2> QED
    BY <2>1, <2>2, <2>3
<1> QED
  BY <1>6, <1>7, <1>8 DEF OrderOf, rest

\* The members of an object come before everything that was to be read after it.
LEMMA OrderObj ==
    ASSUME NEW d, NEW par, NEW tr \in Seq(2..Len(d)), NEW v, NEW v2, DocType(d), Tree(d, par), OrderOf(d, par, tr, v),
           tr # <<>>, IsObj(d, tr[1]), v2[tr[1]] # 0, \A x \in 1..Len(d) : x # tr[1] => v2[x] = v[x],
           NEW c \in Seq(2..Len(d)), \A i \in 1..Len(c) : par[c[i]] = tr[1],
           \A x \in 2..Len(d) : par[x] = tr[1] => \E i \in 1..Len(c) : c[i] = x,
           \A i, j \in 1..Len(c) : i < j /\ NotPlain(d, c[i]) /\ NotPlain(d, c[j]) => c[i] < c[j]
    PROVE  OrderOf(d, par, c \o Tail(tr), v2)
<1> DEFINE e == tr[1]
           rest == Tail(tr)
           all == c \o rest
<1>1. /\ Len(d) \in Nat /\ 1 \in 1..Len(tr) /\ e \in 2..Len(d)
      /\ rest \in Seq(2..Len(d)) /\ Len(rest) = Len(tr) - 1 /\ Len(tr) - 1 \in Nat
      /\ \A t \in 1..(Len(tr) - 1) : rest[t] = tr[t + 1] /\ t + 1 \in 2..Len(tr)
      /\ \A t \in 2..Len(tr) : t - 1 \in 1..(Len(tr) - 1) /\ (t - 1) + 1 = t
  BY TailAt DEF DocType
<1>13. \A t \in 1..Len(rest) : /\ t + 1 \in 2..Len(tr) /\ t + 1 \in 1..Len(tr) /\ 1 < t + 1
                               /\ rest[t] = tr[t + 1] /\ rest[t] \in 2..Len(d)
  <2> DEFINE S == 2..Len(d)
  <2> HIDE DEF S
  <2>1. tr \in Seq(S)
    BY DEF S
  <2>2. \A t \in 1..Len(Tail(tr)) : /\ t + 1 \in 2..Len(tr) /\ t + 1 \in 1..Len(tr) /\ 1 < t + 1
                                    /\ Tail(tr)[t] = tr[t + 1] /\ Tail(tr)[t] \in S
    BY <2>1, RestAt
  <2> QED
    BY <2>2 DEF S
<1>2. \A x \in 2..Len(d) : par[x] \in 1..Len(d) /\ par[x] < x /\ (par[x] = 1 \/ IsObj(d, par[x]))
  <2> SUFFICES ASSUME NEW x \in 2..Len(d) PROVE par[x] \in 1..Len(d) /\ par[x] < x /\ (par[x] = 1 \/ IsObj(d, par[x]))
    OBVIOUS
  <2>1. par[x] \in 1..(x - 1) /\ (par[x] = 1 \/ IsObj(d, par[x]))
    BY DEF Tree
  <2> QED
    BY <1>1, <2>1
<1>3. /\ \A i \in 1..Len(tr) : Ready(par, v, tr[i]) /\ (NotPlain(d, tr[i]) => Later(d, v, tr[i]))
      /\ \A i, j \in 1..Len(tr) : i < j /\ NotPlain(d, tr[i]) /\ NotPlain(d, tr[j]) => tr[i] < tr[j]
      /\ \A x \in 2..Len(d) : IF v[x] # 0 THEN Ready(par, v, x)
                              ELSE (\E i \in 1..Len(tr) : tr[i] = x) \/ ~Ready(par, v, x)
  BY DEF OrderOf
<1>4. NotPlain(d, e) /\ v[e] = 0 /\ Ready(par, v, e) /\ \A y \in 2..Len(d) : NotPlain(d, y) /\ v[y] # 0 => y < e
  <2>1. NotPlain(d, e)
    BY DEF IsObj, NotPlain
  <2> QED
    BY <1>1, <1>3, <2>1 DEF Later
<1>5. /\ \A i \in 1..Len(c) : all[i] = c[i] /\ i \in 1..Len(all)
      /\ \A i \in 1..Len(rest) : all[Len(c) + i] = rest[i] /\ Len(c) + i \in 1..Len(all)
      /\ \A i \in 1..Len(all) : i \in 1..Len(c) \/ (i - Len(c) \in 1..Len(rest) /\ all[i] = rest[i - Len(c)])
  <2> DEFINE S == 2..Len(d)
  <2>1. c \in Seq(S) /\ rest \in Seq(S)
    BY <1>1
  <2> HIDE DEF S, rest
  <2>2. /\ \A i \in 1..Len(c) : all[i] = c[i] /\ i \in 1..Len(all)
        /\ \A i \in 1..Len(rest) : all[Len(c) + i] = rest[i] /\ Len(c) + i \in 1..Len(all)
    BY <2>1, ConcatAt
  <2>3. \A i \in 1..Len(all) : i \in 1..Len(c) \/ (i - Len(c) \in 1..Len(rest) /\ all[i] = rest[i - Len(c)])
    BY <2>1, ConcatAt
  <2> QED
    BY <2>2, <2>3
<1>6. /\ v2[e] # 0 /\ \A x \in 2..Len(d) : x # e => v2[x] = v[x]
      /\ \A i \in 1..Len(c) : c[i] \in 2..Len(d) /\ par[c[i]] = e
  BY <1>1
<1>7. \A x \in 2..Len(d) : Ready(par, v, x) => Ready(par, v2, x) /\ par[x] # e
  <2> SUFFICES ASSUME NEW x \in 2..Len(d), Ready(par, v, x) PROVE Ready(par, v2, x) /\ par[x] # e
    OBVIOUS
  <2>1. par[x] # e
    BY <1>1, <1>4 DEF Ready
  <2> QED
    BY <1>1, <1>2, <1>6, <2>1 DEF Ready
<1> HIDE DEF rest, e, all
\* What follows the object, if it can be referred to, comes after its members.
<1>8. ASSUME NEW x \in 2..Len(d), Ready(par, v, x), e < x, NEW y \in 2..Len(d), par[y] = e
      PROVE  y < x
  <2> SUFFICES ASSUME x <= y PROVE FALSE
    BY <1>1
  <2>1. x # y
    BY <1>7, <1>8
  <2>2. x \in 2..(y - 1)
    BY <1>1, <2>1
  <2>3. par[y] <= par[x]
    BY <1>8, <2>2 DEF Tree
  <2>4. par[x] # e /\ par[x] \in 1..Len(d)
    BY <1>2, <1>7, <1>8
  <2>5. e < par[x] /\ par[x] # 1
    BY <1>1, <1>8, <2>3, <2>4
  <2>6. v[par[x]] # 0 /\ IsObj(d, par[x])
    BY <1>2, <1>8, <2>5 DEF Ready
  <2>7. par[x] \in 2..Len(d) /\ NotPlain(d, par[x])
    BY <2>6 DEF IsObj, NotPlain
  <2>8. par[x] < e
    BY <1>4, <2>6, <2>7
  <2> QED
    BY <1>1, <2>5, <2>7, <2>8
<1>9. ASSUME NEW i \in 1..Len(rest)
      PROVE  /\ rest[i] \in 2..Len(d) /\ Ready(par, v, rest[i])
             /\ NotPlain(d, rest[i]) => Later(d, v, rest[i]) /\ e < rest[i]
  <2>1. rest[i] = tr[i + 1] /\ i + 1 \in 2..Len(tr) /\ i + 1 \in 1..Len(tr) /\ rest[i] \in 2..Len(d) /\ 1 < i + 1
    BY <1>13
  <2> QED
    BY <1>1, <1>3, <1>4, <2>1 DEF e
<1>10. ASSUME NEW i \in 1..Len(all)
       PROVE  Ready(par, v2, all[i]) /\ (NotPlain(d, all[i]) => Later(d, v2, all[i]))
  <2>1. CASE i \in 1..Len(c)
    <3>1. all[i] = c[i] /\ c[i] \in 2..Len(d) /\ par[c[i]] = e
      BY <1>5, <1>6, <2>1
    <3>2. Ready(par, v2, all[i]) /\ e < c[i]
      BY <1>2, <1>6, <3>1 DEF Ready
    <3>3. c[i] # e
      BY <1>1, <3>1, <3>2
    <3>4. v[c[i]] = 0
      <4>1. ~Ready(par, v, c[i])
        BY <1>7, <3>1
      <4> QED
        BY <1>3, <3>1, <4>1
    <3>5. ASSUME NEW y \in 2..Len(d), NotPlain(d, y), v2[y] # 0 PROVE y < c[i]
      <4>1. y = e \/ y < e
        BY <1>4, <1>6, <3>5
      <4>2. y \in Nat /\ e \in Nat /\ c[i] \in Nat
        BY <1>1, <3>1
      <4>3. e < c[i]
        BY <3>2
      <4> QED
        BY <4>1, <4>2, <4>3
    <3> QED
      BY <1>6, <3>1, <3>2, <3>3, <3>4, <3>5 DEF Later
  <2>2. CASE i - Len(c) \in 1..Len(rest) /\ all[i] = rest[i - Len(c)]
    <3>1. /\ all[i] \in 2..Len(d) /\ Ready(par, v, all[i])
          /\ NotPlain(d, all[i]) => Later(d, v, all[i]) /\ e < all[i]
      BY <1>9, <2>2
    <3>2. ASSUME NotPlain(d, all[i]) PROVE Later(d, v2, all[i])
      <4>1. Later(d, v, all[i]) /\ e < all[i] /\ all[i] # e
        BY <1>1, <3>1, <3>2
      <4> QED
        BY <1>6, <3>1, <4>1 DEF Later
    <3> QED
      BY <1>7, <3>1, <3>2
  <2> QED
    BY <1>5, <2>1, <2>2
<1>11. ASSUME NEW i \in 1..Len(all), NEW j \in 1..Len(all), i < j, NotPlain(d, all[i]), NotPlain(d, all[j])
       PROVE  all[i] < all[j]
  <2>1. Len(c) \in Nat /\ Len(rest) \in Nat /\ i \in Nat /\ j \in Nat
    BY <1>1
  <2>2. CASE i \in 1..Len(c) /\ j \in 1..Len(c)
    BY <1>5, <1>11, <2>2
  <2>3. CASE i \in 1..Len(c) /\ j - Len(c) \in 1..Len(rest) /\ all[j] = rest[j - Len(c)]
    <3>1. all[j] \in 2..Len(d) /\ Ready(par, v, all[j]) /\ e < all[j]
      BY <1>9, <1>11, <2>3
    <3>2. all[i] \in 2..Len(d) /\ par[all[i]] = e
      BY <1>5, <1>6, <2>3
    <3> QED
      BY <1>8, <3>1, <3>2
  <2>4. CASE i - Len(c) \in 1..Len(rest) /\ all[i] = rest[i - Len(c)] /\ j - Len(c) \in 1..Len(rest) /\ all[j] = rest[j - Len(c)]
    <3> DEFINE k == i - Len(c)
               l == j - Len(c)
    <3>1. k \in 1..Len(rest) /\ l \in 1..Len(rest) /\ k < l
      BY <1>11, <2>1, <2>4
    <3> HIDE DEF k, l
    <3>2. k + 1 \in 1..Len(tr) /\ l + 1 \in 1..Len(tr) /\ k + 1 < l + 1 /\ rest[k] = tr[k + 1] /\ rest[l] = tr[l + 1]
      BY <1>13, <3>1
    <3>3. all[i] = tr[k + 1] /\ all[j] = tr[l + 1]
      BY <2>4, <3>2 DEF k, l
    <3> QED
      BY <1>3, <1>11, <3>2, <3>3
  <2>5. j \in 1..Len(c) => ~(i - Len(c) \in 1..Len(rest))
    BY <1>11, <2>1
  <2> QED
    BY <1>5, <2>2, <2>3, <2>4, <2>5
<1>12. ASSUME NEW x \in 2..Len(d)
       PROVE  IF v2[x] # 0 THEN Ready(par, v2, x) ELSE (\E i \in 1..Len(all) : all[i] = x) \/ ~Ready(par, v2, x)
  <2>1. CASE x = e
    BY <1>4, <1>6, <1>7, <2>1
  <2>2. CASE x # e /\ v[x] # 0
    BY <1>3, <1>6, <1>7, <2>2
  <2>3. CASE x # e /\ v[x] = 0
    <3>1. CASE \E i \in 1..Len(tr) : tr[i] = x
      <4>1. PICK i \in 1..Len(tr) : tr[i] = x
        BY <3>1
      <4>2. i \in 2..Len(tr)
        BY <2>3, <4>1 DEF e
      <4>3. i - 1 \in 1..Len(rest) /\ rest[i - 1] = x
        BY <1>1, <4>1, <4>2
      <4>4. all[Len(c) + (i - 1)] = x /\ Len(c) + (i - 1) \in 1..Len(all)
        BY <1>5, <4>3
      <4> QED
        BY <1>6, <2>3, <4>4
    <3>2. CASE par[x] = e
      <4>1. PICK i \in 1..Len(c) : c[i] = x
        BY <3>2 DEF e
      <4> QED
        BY <1>5, <1>6, <2>3, <4>1
    <3>3. CASE ~Ready(par, v, x) /\ par[x] # e
      <4>1. par[x] # 1 /\ v[par[x]] = 0 /\ par[x] \in 2..Len(d)
        BY <1>2, <3>3 DEF Ready, IsObj
      <4>2. ~Ready(par, v2, x)
        BY <1>6, <3>3, <4>1 DEF Ready
      <4> QED
        BY <1>6, <2>3, <4>2
    <3> QED
      BY <1>3, <2>3, <3>1, <3>2, <3>3
  <2> QED
    BY <2>1, <2>2, <2>3
<1> QED
  BY <1>10, <1>11, <1>12 DEF OrderOf, all, rest

\* What Objs contains is read first.
LEMMA OrderFirst ==
    ASSUME NEW d, NEW par, NEW v, DocType(d), Tree(d, par), \A x \in 1..Len(d) : v[x] = 0
    PROVE  OrderOf(d, par, d[1].items, v)
<1> DEFINE tr == d[1].items
<1>1. /\ Len(d) \in Nat /\ Len(d) # 0 /\ 1 \in 1..Len(d) /\ "items" \in Parts
      /\ \A x \in 2..Len(d) : x \in 1..Len(d) /\ x # 1
  BY DEF DocType, Parts
<1>2. tr = Kids(d, 1, "items")
  BY DEF Kids
<1>3. \A i \in 1..Len(tr) : tr[i] \in 2..Len(d) /\ par[tr[i]] = 1 /\ \A j \in 1..(i - 1) : tr[j] < tr[i]
  BY <1>1, <1>2 DEF Tree
<1>4. tr \in Seq(Nat)
  BY <1>1, <1>2, KidsType
<1> HIDE DEF tr
<1>5. ASSUME NEW i \in 1..Len(tr)
      PROVE  Ready(par, v, tr[i]) /\ (NotPlain(d, tr[i]) => Later(d, v, tr[i]))
  BY <1>1, <1>3 DEF Ready, Later
<1>6. ASSUME NEW i \in 1..Len(tr), NEW j \in 1..Len(tr), i < j PROVE tr[i] < tr[j]
  <2>1. i \in 1..(j - 1)
    BY <1>6
  <2> QED
    BY <1>3, <2>1
<1>7. ASSUME NEW x \in 2..Len(d) PROVE v[x] = 0 /\ ((\E i \in 1..Len(tr) : tr[i] = x) \/ ~Ready(par, v, x))
  <2>1. v[x] = 0
    BY <1>1
  <2>2. CASE par[x] = 1
    <3>1. PICK part \in Parts : \E i \in 1..Len(Kids(d, 1, part)) : Kids(d, 1, part)[i] = x
      BY <2>2 DEF Tree
    <3>2. PICK i \in 1..Len(Kids(d, 1, part)) : Kids(d, 1, part)[i] = x
      BY <3>1
    <3>3. part = "items"
      BY <3>2 DEF Kids
    <3> QED
      BY <1>2, <2>1, <3>2, <3>3
  <2>3. CASE par[x] # 1
    <3>1. par[x] \in 1..(x - 1)
      BY DEF Tree
    <3>2. v[par[x]] = 0
      BY <1>1, <3>1
    <3> QED
      BY <2>1, <2>3, <3>2 DEF Ready
  <2> QED
    BY <2>2, <2>3
<1> QED
  BY <1>5, <1>6, <1>7 DEF OrderOf, tr

\* Whoever is straight is read in the order it was written, which is the order
\* that the references were made for.
LEMMA OrderStep ==
    ASSUME NEW par, NEW pos, CInvFor(par, pos), Read, Straight
    PROVE  ~failed' /\ OrderOf(doc, par, toread', value')
<1> DEFINE e == Head(toread)
<1>1. /\ Writing(par, pos) /\ RefsOk /\ NamesOk /\ ReadOk /\ InOrder(par)
      /\ NotRead \/ (todo = <<>> /\ toread \in Seq(2..Len(doc)))
  BY DEF CInvFor
<1>2. WellShaped /\ DocType(doc) /\ Len(doc) <= MaxElements /\ Tree(doc, par) /\ Faithful(doc, heap)
  BY <1>1 DEF Writing
<1>3. todo = <<>> /\ ~failed /\ Len(doc) \in Nat
  BY <1>2 DEF Read, DocType
<1>4. \/ NotRead /\ toread' = doc[1].items /\ UNCHANGED <<obj_ref_map, tn_ref_map, value, names, failed>>
      \/ /\ ~NotRead /\ toread \in Seq(2..Len(doc)) /\ toread # <<>> /\ e \in 2..Len(doc) /\ doc[e] \in Nodes /\ Tail(toread) \in Seq(2..Len(doc))
         /\ ReadPlain(e) \/ ReadRef(e) \/ ReadObj(e)
  BY <1>1, <1>2, ReadNext
<1>5. /\ value = [x \in ElementIds |-> value[x]]
      /\ \A x \in 2..Len(doc) : value[x] # 0 /\ doc[x].tag = "Obj" =>
                                  /\ doc[x].ref \in DOMAIN obj_ref_map
                                  /\ doc[x].tn.tag = "TN" => doc[x].tn.id \in DOMAIN tn_ref_map
      /\ \A id \in DOMAIN obj_ref_map : IsObj(doc, obj_ref_map[id])
  BY <1>1 DEF ReadOk
<1>6. \A x \in 1..Len(doc) : x \in ElementIds
  BY <1>2, <1>3, ClixmlReferencesAssumption DEF ElementIds
<1>7. CASE NotRead /\ toread' = doc[1].items /\ UNCHANGED <<obj_ref_map, tn_ref_map, value, names, failed>>
  <2>1. \A x \in 1..Len(doc) : value[x] = 0
    BY <1>6, <1>7 DEF NotRead
  <2> QED
    BY <1>2, <1>3, <1>7, <2>1, OrderFirst
<1>8. CASE /\ ~NotRead /\ toread \in Seq(2..Len(doc)) /\ toread # <<>> /\ e \in 2..Len(doc) /\ doc[e] \in Nodes /\ Tail(toread) \in Seq(2..Len(doc))
           /\ ReadPlain(e) \/ ReadRef(e) \/ ReadObj(e)
  <2>1. /\ OrderOf(doc, par, toread, value) /\ toread \in Seq(2..Len(doc)) /\ toread # <<>> /\ e = toread[1]
        /\ e \in 2..Len(doc) /\ e \in ElementIds /\ e # 0
    BY <1>1, <1>3, <1>6, <1>8 DEF InOrder
  <2> HIDE DEF e
  <2>2. \A y \in 2..Len(doc) : NotPlain(doc, e) /\ NotPlain(doc, y) /\ y < e => value[y] # 0
    BY <1>2, <2>1, AllBefore
  <2>3. \A y \in 2..(e - 1) : y \in 2..Len(doc) /\ y < e
    BY <1>3, <2>1
  <2>4. \A z : value' = [value EXCEPT ![e] = z] =>
                 value'[e] = z /\ \A x \in 1..Len(doc) : x # e => value'[x] = value[x]
    BY <1>5, <1>6, <2>1
  <2>5. CASE ReadPlain(e)
    <3>1. doc[e].tag = "S" /\ value' = [value EXCEPT ![e] = e] /\ toread' = Tail(toread) /\ failed' = failed
      BY <2>5 DEF ReadPlain
    <3>2. value'[e] # 0 /\ (\A x \in 1..Len(doc) : x # e => value'[x] = value[x]) /\ ~IsObj(doc, e)
      BY <2>1, <2>4, <3>1 DEF IsObj
    <3> QED
      BY <1>2, <1>3, <2>1, <3>1, <3>2, OrderTail
  <2>6. CASE ReadRef(e)
    <3>1. doc[e].tag = "Ref" /\ toread' = Tail(toread)
      BY <2>6 DEF ReadRef
    <3>2. PICK y \in 2..(e - 1) : doc[y].tag = "Obj" /\ doc[y].ref = doc[e].ref
      BY <1>1, <2>1, <3>1 DEF RefsOk
    <3>3. value[y] # 0 /\ y \in 2..Len(doc)
      BY <2>2, <2>3, <3>1, <3>2 DEF NotPlain
    <3>4. doc[e].ref \in DOMAIN obj_ref_map
      BY <1>5, <3>2, <3>3
    <3>5. value' = [value EXCEPT ![e] = obj_ref_map[doc[e].ref]] /\ failed' = failed
      BY <2>6, <3>4 DEF ReadRef
    <3>6. obj_ref_map[doc[e].ref] # 0
      BY <1>3, <1>5, <3>4 DEF IsObj
    <3>7. value'[e] # 0 /\ (\A x \in 1..Len(doc) : x # e => value'[x] = value[x]) /\ ~IsObj(doc, e)
      BY <2>4, <3>1, <3>5, <3>6 DEF IsObj
    <3> QED
      BY <1>2, <1>3, <2>1, <3>1, <3>5, <3>7, OrderTail
  <2>7. CASE ReadObj(e)
    <3> DEFINE tn == doc[e].tn
               c == Children(e)
    <3>1. doc[e].tag = "Obj" /\ IsObj(doc, e) /\ NotPlain(doc, e)
      BY <2>1, <2>7 DEF ReadObj, IsObj, NotPlain
    <3>2. ~(tn.tag = "TNRef" /\ tn.id \notin DOMAIN tn_ref_map)
      <4> SUFFICES ASSUME tn.tag = "TNRef" PROVE tn.id \in DOMAIN tn_ref_map
        OBVIOUS
      <4>1. doc[e].kind # "string"
        BY <1>1, <2>1, <3>1 DEF NamesOk
      <4>2. PICK y \in 2..(e - 1) : NewNames(doc, y, tn.id)
        BY <1>1, <2>1, <3>1, <4>1 DEF NamesOk
      <4>3. doc[y].tag = "Obj" /\ doc[y].tn.tag = "TN" /\ doc[y].tn.id = tn.id
        BY <4>2 DEF NewNames
      <4>4. value[y] # 0 /\ y \in 2..Len(doc)
        BY <2>2, <2>3, <3>1, <4>3 DEF NotPlain
      <4> QED
        BY <1>5, <4>3, <4>4
    <3>3. value' = [value EXCEPT ![e] = e] /\ toread' = c \o Tail(toread) /\ failed' = failed
      BY <2>7, <3>2 DEF ReadObj
    <3>4. value'[e] # 0 /\ \A x \in 1..Len(doc) : x # e => value'[x] = value[x]
      BY <2>1, <2>4, <3>3
    <3>5. /\ c \in Seq(2..Len(doc))
          /\ \A i \in 1..Len(c) : par[c[i]] = e
          /\ \A x \in 2..Len(doc) : par[x] = e => \E i \in 1..Len(c) : c[i] = x
          /\ \A i, j \in 1..Len(c) : i < j /\ NotPlain(doc, c[i]) /\ NotPlain(doc, c[j]) => c[i] < c[j]
      <4>1. Writing(par, pos)
        BY <1>1
      <4>2. LET k == Children(e)
            IN  /\ k \in Seq(2..Len(doc))
                /\ \A i \in 1..Len(k) : par[k[i]] = e
                /\ \A x \in 2..Len(doc) : par[x] = e => \E i \in 1..Len(k) : k[i] = x
                /\ Straight => \A i, j \in 1..Len(k) : i < j /\ NotPlain(doc, k[i]) /\ NotPlain(doc, k[j]) => k[i] < k[j]
        <5>1. Writing(par, pos) /\ todo = <<>> /\ e \in 2..Len(doc) /\ doc[e].tag = "Obj"
          BY <1>3, <2>1, <3>1, <4>1
        <5> HIDE DEF tn, c
        <5> QED
          BY ONLY <5>1, ChildrenAre
      <4> HIDE DEF tn
      <4> QED
        BY <4>2
    <3> HIDE DEF c
    <3>6. OrderOf(doc, par, c \o Tail(toread), value')
      BY <1>2, <2>1, <3>1, <3>4, <3>5, OrderObj
    <3> QED
      BY <1>3, <3>3, <3>6
  <2> QED
    BY <1>8, <2>5, <2>6, <2>7
<1> QED
  BY <1>4, <1>7, <1>8

\* The reader keeps the invariant.
LEMMA ReadInv ==
    ASSUME CInv, Read
    PROVE  CInv'
<1>1. PICK par, pos : CInvFor(par, pos)
  BY DEF CInv
<1>2. toread' \in Seq(2..Len(doc)) /\ ReadOk' /\ (NamesByFirst => NamesRead')
  BY <1>1, ReadStep
<1>3. Straight => ~failed' /\ OrderOf(doc, par, toread', value')
  BY <1>1, OrderStep
<1>4. /\ heap' = heap /\ emptied' = emptied /\ doc' = doc /\ todo' = todo /\ obj_ref' = obj_ref
      /\ obj_ref_id' = obj_ref_id /\ tn_ref_list' = tn_ref_list /\ todo = <<>>
  BY DEF Read, writerVars
<1>5. Writing(par, pos) /\ RefsOk /\ NamesOk
  BY <1>1 DEF CInvFor
<1>6. Writing(par, pos)'
  BY <1>4, <1>5 DEF Writing, WellShaped
<1>7. RefsOk'
  <2>1. RefsOk
    BY <1>5
  <2>2. heap' = heap /\ doc' = doc /\ obj_ref' = obj_ref /\ obj_ref_id' = obj_ref_id
    BY <1>4
  <2>3. \A o : Key(o)' = Key(o)
    BY <2>2 DEF Key
  <2> QED
    BY <2>1, <2>2, <2>3 DEF RefsOk
<1>8. NamesOk'
  BY <1>4, <1>5 DEF NamesOk
<1>9. todo' = <<>> /\ (toread \in Seq(2..Len(doc)))'
  BY <1>2, <1>4
<1>10. (Straight => InOrder(par))'
  <2>1. Straight' => Straight
    BY <1>4 DEF Straight, IsPlain
  <2> QED
    BY <1>3, <1>4, <2>1 DEF InOrder
<1>11. (NamesByFirst => NamesRead)'
  <2>1. NamesByFirst' => NamesByFirst
    BY <1>4 DEF NamesByFirst
  <2> QED
    BY <1>2, <2>1
<1>12. CInvFor(par, pos)'
  BY <1>2, <1>6, <1>7, <1>8, <1>9, <1>10, <1>11 DEF CInvFor
<1> QED
  BY <1>12 DEF CInv

\* And so does a step that changes nothing.
LEMMA StutterInv ==
    ASSUME CInv, UNCHANGED vars
    PROVE  CInv'
<1>1. PICK par, pos : CInvFor(par, pos)
  BY DEF CInv
<1>2. /\ heap' = heap /\ emptied' = emptied /\ doc' = doc /\ todo' = todo /\ obj_ref' = obj_ref
      /\ obj_ref_id' = obj_ref_id /\ tn_ref_list' = tn_ref_list
      /\ toread' = toread /\ obj_ref_map' = obj_ref_map /\ tn_ref_map' = tn_ref_map
      /\ value' = value /\ names' = names /\ failed' = failed
  BY DEF vars, writerVars, readerVars
<1>3. Writing(par, pos) /\ RefsOk /\ NamesOk /\ ReadOk
  BY <1>1 DEF CInvFor
<1>4. Writing(par, pos)'
  BY <1>2, <1>3 DEF Writing, WellShaped
<1>5. RefsOk'
  <2>1. RefsOk
    BY <1>3
  <2>2. heap' = heap /\ doc' = doc /\ obj_ref' = obj_ref /\ obj_ref_id' = obj_ref_id
    BY <1>2
  <2>3. \A o : Key(o)' = Key(o)
    BY <2>2 DEF Key
  <2> QED
    BY <2>1, <2>2, <2>3 DEF RefsOk
<1>6. NamesOk'
  BY <1>2, <1>3 DEF NamesOk
<1>7. ReadOk'
  BY <1>2, <1>3, ReadOkAgain DEF ReadOk
<1>8. (NotRead \/ (todo = <<>> /\ toread \in Seq(2..Len(doc))))'
  BY <1>1, <1>2 DEF CInvFor, NotRead
<1>9. (Straight => InOrder(par))'
  <2>1. Straight' => Straight
    BY <1>2 DEF Straight, IsPlain
  <2>2. InOrder(par) => InOrder(par)'
    BY <1>2 DEF InOrder, NotRead
  <2> QED
    BY <1>1, <2>1, <2>2 DEF CInvFor
<1>10. (NamesByFirst => NamesRead)'
  <2>1. NamesByFirst' => NamesByFirst
    BY <1>2 DEF NamesByFirst
  <2>2. NamesRead => NamesRead'
    BY <1>2 DEF NamesRead
  <2> QED
    BY <1>1, <2>1, <2>2 DEF CInvFor
<1>11. CInvFor(par, pos)'
  BY <1>4, <1>5, <1>6, <1>7, <1>8, <1>9, <1>10 DEF CInvFor
<1> QED
  BY <1>11 DEF CInv

-----------------------------------------------------------------------------
(* What is read is what was written *)

\* The invariant is enough for each of the three properties.
LEMMA ReferencesKnownHolds ==
    ASSUME CInv
    PROVE  ReferencesKnown
BY DEF CInv, CInvFor, InOrder, ReferencesKnown

\* Who is read is an element after the first.
LEMMA ReadAre ==
    ASSUME DocType(doc), ReadOk, NEW e \in ReadElements
    PROVE  e \in 2..Len(doc) /\ value[e] # 0 /\ doc[e] \in Nodes
<1>1. doc \in Seq(Nodes \union Roots) /\ \A x \in 2..Len(doc) : doc[x] \in Nodes
  BY DEF DocType
<1>2. e \in 1..Len(doc) /\ value[e] # 0
  BY <1>1 DEF ReadElements
<1>3. e # 1
  BY <1>2 DEF ReadOk
<1> QED
  BY <1>1, <1>2, <1>3

\* Names that were read are the names written.
LEMMA NamesKeptHolds ==
    ASSUME CInv
    PROVE  NamesKept
<1>1. PICK par, pos : CInvFor(par, pos)
  BY DEF CInv
<1>2. DocType(doc) /\ ReadOk /\ (NamesByFirst => NamesRead)
  BY <1>1 DEF CInvFor, Writing
<1> QED
  BY <1>2, ReadAre DEF NamesKept, NamesRead

\* The value of what is not plain is the object with its reference.
LEMMA ValueIs ==
    ASSUME DocType(doc), ReadOk, NEW e \in ReadElements, NotPlain(doc, e)
    PROVE  IsObj(doc, value[e]) /\ doc[value[e]].ref = doc[e].ref
<1>1. e \in 2..Len(doc) /\ value[e] # 0 /\ doc[e] \in Nodes
  BY ReadAre
<1>2. doc[e].tag = "Obj" \/ doc[e].tag = "Ref"
  BY <1>1 DEF Nodes, NotPlain
<1> QED
  BY <1>1, <1>2 DEF ReadOk, IsObj

\* Whoever is looked up is looked up by what the object with the reference is.
LEMMA KeyOfValue ==
    ASSUME DocType(doc), RefsOk, NEW e \in 2..Len(doc), NotPlain(doc, e), NEW y, IsObj(doc, y), doc[y].ref = doc[e].ref
    PROVE  Key(doc[e].obj) \subseteq Key(doc[y].obj)
<1> SUFFICES ASSUME NEW k \in Key(doc[e].obj) PROVE k \in Key(doc[y].obj)
  OBVIOUS
<1>1. <<k, doc[e].ref>> \in obj_ref
  BY DEF RefsOk, NotPlain
<1>2. PICK x \in 2..Len(doc) : doc[x].tag = "Obj" /\ doc[x].ref = doc[e].ref /\ k \in Key(doc[x].obj)
  <2> DEFINE entry == <<k, doc[e].ref>>
  <2>1. entry[1] = k /\ entry[2] = doc[e].ref
    OBVIOUS
  <2>2. \E x \in 2..Len(doc) : doc[x].tag = "Obj" /\ doc[x].ref = entry[2] /\ entry[1] \in Key(doc[x].obj)
    BY <1>1 DEF RefsOk
  <2> QED
    BY <2>1, <2>2
<1>3. x = y
  BY <1>2 DEF RefsOk, IsObj
<1> QED
  BY <1>2, <1>3

\* Values are the same for the same object, and only for it.
LEMMA GraphKeptHolds ==
    ASSUME CInv
    PROVE  GraphKept
<1>1. PICK par, pos : CInvFor(par, pos)
  BY DEF CInv
<1>2. WellShaped /\ DocType(doc) /\ Faithful(doc, heap) /\ RefsOk /\ ReadOk
  BY <1>1 DEF CInvFor, Writing
<1> SUFFICES ASSUME NEW e \in ReadElements, NEW f \in ReadElements
             PROVE  LET o == doc[e].obj
                        q == doc[f].obj
                    IN  /\ o = q /\ heap[o].kind \in {"custom", "queue"} => value[e] = value[f]
                        /\ value[e] = value[f] => o = q \/ EqualStrings(o, q)
  BY DEF GraphKept
<1> DEFINE o == doc[e].obj
           q == doc[f].obj
<1>3. /\ e \in 2..Len(doc) /\ value[e] # 0 /\ doc[e] \in Nodes
      /\ f \in 2..Len(doc) /\ value[f] # 0 /\ doc[f] \in Nodes
  BY <1>2, ReadAre
<1>4. \A x, y : IsObj(doc, x) /\ IsObj(doc, y) /\ doc[x].ref = doc[y].ref => x = y
  BY <1>2 DEF RefsOk, IsObj
<1>5. ASSUME o = q, heap[o].kind \in {"custom", "queue"} PROVE value[e] = value[f]
  <2>1. NotPlain(doc, e) /\ NotPlain(doc, f)
    BY <1>2, <1>3, <1>5 DEF Faithful, NotPlain
  <2>2. PICK k : k \in Key(o)
    BY <1>5, KeyIs
  <2>3. <<k, doc[e].ref>> \in obj_ref /\ <<k, doc[f].ref>> \in obj_ref
    BY <1>2, <1>3, <1>5, <2>1, <2>2 DEF RefsOk, NotPlain
  <2>4. doc[e].ref = doc[f].ref
    <3> DEFINE e1 == <<k, doc[e].ref>>
               e2 == <<k, doc[f].ref>>
    <3>1. e1[1] = e2[1] => e1[2] = e2[2]
      BY <1>2, <2>3 DEF RefsOk
    <3> QED
      BY <3>1
  <2> QED
    BY <1>2, <1>4, <2>1, <2>4, ValueIs
<1>6. ASSUME value[e] = value[f] PROVE o = q \/ EqualStrings(o, q)
  <2>1. CASE ~NotPlain(doc, e) \/ ~NotPlain(doc, f)
    <3>1. \A x \in ReadElements : ~NotPlain(doc, x) => value[x] = x /\ ~IsObj(doc, value[x])
      <4> SUFFICES ASSUME NEW x \in ReadElements, ~NotPlain(doc, x) PROVE value[x] = x /\ ~IsObj(doc, value[x])
        OBVIOUS
      <4>1. x \in 2..Len(doc) /\ value[x] # 0
        BY <1>2, ReadAre
      <4>2. doc[x].tag = "S"
        BY DEF NotPlain
      <4> QED
        BY <1>2, <4>1, <4>2 DEF ReadOk, IsObj
    <3>2. \A x \in ReadElements : NotPlain(doc, x) => IsObj(doc, value[x])
      BY <1>2, ValueIs
    <3>3. value[e] = e /\ value[f] = f
      BY <1>6, <2>1, <3>1, <3>2
    <3> QED
      BY <1>6, <3>3
  <2>2. CASE NotPlain(doc, e) /\ NotPlain(doc, f)
    <3> DEFINE y == value[e]
    <3>1. IsObj(doc, y) /\ doc[y].ref = doc[e].ref /\ doc[y].ref = doc[f].ref
      BY <1>2, <1>6, <2>2, ValueIs
    <3>2. Key(o) \subseteq Key(doc[y].obj) /\ Key(q) \subseteq Key(doc[y].obj)
      BY <1>2, <1>3, <2>2, <3>1, KeyOfValue
    <3>3. \A x \in {e, f} : x = y \/ Key(doc[x].obj) # {}
      <4> SUFFICES ASSUME NEW x \in {e, f}, x # y PROVE Key(doc[x].obj) # {}
        OBVIOUS
      <4>1. x \in 2..Len(doc) /\ doc[x] \in Nodes /\ NotPlain(doc, x) /\ doc[x].ref = doc[y].ref
        BY <1>3, <2>2, <3>1
      <4>2. ~IsObj(doc, x)
        BY <1>4, <3>1, <4>1
      <4>3. doc[x].tag = "Ref"
        BY <4>1, <4>2 DEF IsObj, NotPlain, Nodes
      <4> QED
        BY <1>2, <4>1, <4>3 DEF RefsOk
    <3>4. e = f \/ Key(o) \intersect Key(q) # {}
      <4>1. CASE Key(o) # {} /\ Key(q) # {}
        <5>1. PICK k, l : k \in Key(o) /\ l \in Key(q)
          BY <4>1
        <5>2. k = l
          BY <3>2, <5>1, KeyIs
        <5> QED
          BY <5>1, <5>2
      <4>2. CASE Key(o) = {}
        <5>1. e = y
          BY <3>3, <4>2
        <5>2. f = y \/ Key(q) # {}
          BY <3>3
        <5>3. Key(q) \subseteq {}
          BY <3>2, <4>2, <5>1
        <5> QED
          BY <5>1, <5>2, <5>3
      <4>3. CASE Key(q) = {}
        <5>1. f = y
          BY <3>3, <4>3
        <5>2. e = y \/ Key(o) # {}
          BY <3>3
        <5>3. Key(o) \subseteq {}
          BY <3>2, <4>3, <5>1
        <5> QED
          BY <5>1, <5>2, <5>3
      <4> QED
        BY <4>1, <4>2, <4>3
    <3> QED
      BY <3>4, KeyIs
  <2> QED
    BY <2>1, <2>2
<1> QED
  BY <1>5, <1>6
-----------------------------------------------------------------------------
(* The theorems *)

\* What the writer and the reader keep, whatever the graph is.
THEOREM TablesAgree == Spec => []CInv
<1>1. Init => CInv
  BY InitInv
<1>2. CInv /\ [Next]_vars => CInv'
  BY WriteStep, ReadInv, StutterInv DEF Next
<1> QED
  BY <1>1, <1>2, PTL DEF Spec

\* deserialize() finds every object and every list of type names that serialize()
\* refers it to, though it reads entries before properties and the value of a
\* dict entry before its key, if whoever has entries has only plain properties
\* and keys are plain.
THEOREM ReferencesAreKnown == Spec => []ReferencesKnown
<1>1. CInv => ReferencesKnown
  BY ReferencesKnownHolds
<1> QED
  BY <1>1, TablesAgree, PTL

\* Two places of a document have the same value after reading if they had the
\* same object, and only then, but for equal strings: _get_ref_id() and
\* obj_ref_map make the same graph.
THEOREM GraphIsKept == Spec => []GraphKept
<1>1. CInv => GraphKept
  BY GraphKeptHolds
<1> QED
  BY <1>1, TablesAgree, PTL

\* Every object read has the type names of the object written, though a list is
\* written once for each first name.
THEOREM NamesAreKept == Spec => []NamesKept
<1>1. CInv => NamesKept
  BY NamesKeptHolds
<1> QED
  BY <1>1, TablesAgree, PTL
=============================================================================
