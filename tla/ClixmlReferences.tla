-------------------------- MODULE ClixmlReferences --------------------------
(***************************************************************************)
(* psrpcore.types._serializer: how the objects of one CLIXML document      *)
(* refer to each other.  A writer and a reader go through the same tree,   *)
(* the writer in the order of the document, the reader in the order of     *)
(* deserialize(): the entries of a container before its properties, and    *)
(* the value of a dict entry before its key.  What a reference means is    *)
(* kept in tables that both build as they go.                              *)
(*                                                                         *)
(* A value is one of five kinds, told apart by what the code does: a       *)
(* "string", which is written as it is when it has no properties; an       *)
(* object ("custom"); and three containers, "list", "dict" and "queue".    *)
(* Its text, type names and properties are its content.                    *)
(***************************************************************************)
EXTENDS Naturals, Sequences, Functions

CONSTANTS
    Texts,          \* contents of strings
    FirstNames,     \* the first .NET type name of a custom object,
    Rests,          \* and what its list of type names has after it
    MaxObjects,     \* bound: objects a document is made of
    MaxMembers,     \* bound: properties and entries of one object
    MaxElements     \* bound: elements of a document

ASSUME ClixmlReferencesAssumption ==
    /\ MaxObjects \in Nat \ {0} /\ MaxMembers \in Nat /\ MaxElements \in Nat \ {0}

VARIABLES
    heap,           \* the objects the caller serializes
    emptied,        \* the queues that serialize() has taken the entries from
    doc,            \* the elements of the document, in order; the first is Objs
    todo,           \* what the writer has yet to write, next first
    obj_ref,        \* _obj_ref: <<key, id>> of every object that can be looked up
    obj_ref_id,     \* the next reference id
    tn_ref_list,    \* the first type name of every list of type names written
    toread,         \* the elements the reader has yet to read, next first
    obj_ref_map,    \* the element that gave each reference id its value
    tn_ref_map,     \* the type names of each id
    value,          \* for each element, the element its value was made for
    names,          \* for each Obj element, the type names of its value
    failed          \* the reader met a reference it does not know

writerVars == <<heap, emptied, doc, todo, obj_ref, obj_ref_id, tn_ref_list>>
readerVars == <<toread, obj_ref_map, tn_ref_map, value, names, failed>>
vars == <<writerVars, readerVars>>

Objects == 1..MaxObjects
NameLists == FirstNames \X Rests
Members == UNION {[1..n -> Objects] : n \in 0..MaxMembers}

\* The type names of the containers' classes.
KindNames == [list |-> <<"System.Collections.ArrayList", "System.Object">>,
              dict |-> <<"System.Collections.Hashtable", "System.Object">>,
              queue |-> <<"System.Collections.Queue", "System.Object">>]

Object(kind, text, tn, props, items) ==
    [kind |-> kind, text |-> text, names |-> tn, props |-> props, items |-> items]

String(text, props)           == Object("string", text, <<>>, props, <<>>)
Custom(tn, props)             == Object("custom", "", tn, props, <<>>)
Container(kind, props, items) == Object(kind, "", KindNames[kind], props, items)

\* Bounds: a string and a list or dict have one property at most, a queue has
\* none; a dict and a queue have one entry at most.
Strings == {String(t, p) : t \in Texts, p \in {m \in Members : Len(m) <= 1}}
Customs == {Custom(n, p) : n \in NameLists, p \in Members}
Containers ==
    {s \in {Container(k, p, i) : k \in DOMAIN KindNames, p \in Members, i \in Members} :
       /\ Len(s.props) <= 1 /\ Len(s.props) + Len(s.items) <= MaxMembers
       /\ s.kind = "dict" => Len(s.items) \in {0, 2}
       /\ s.kind = "queue" => s.props = <<>> /\ Len(s.items) <= 1}
Shapes == Strings \union Customs \union Containers

\* An entry of a dict is its key followed by its value, and what Python cannot
\* hash is never a key.
Keys(o)      == {o.items[i] : i \in {j \in DOMAIN o.items : j % 2 = 1}}
Unhashable   == {"list", "dict"}
WellFormed(h) ==
    \A o \in Objects : h[o].kind = "dict" => \A k \in Keys(h[o]) : h[k].kind \notin Unhashable

\* The objects are numbered as they are first mentioned, which leaves out what
\* only differs in the numbers: o in the members of a smaller number, before any
\* greater one.
Numbered(h) ==
    LET Mentions(q) == h[q].props \o h[q].items
    IN  \A o \in Objects \ {1} : \E q \in 1..(o - 1) : \E i \in DOMAIN Mentions(q) :
            /\ Mentions(q)[i] = o
            /\ \A j \in 1..(i - 1) : Mentions(q)[j] < o
            /\ \A p \in 1..(q - 1) : \A j \in DOMAIN Mentions(p) : Mentions(p)[j] < o
-----------------------------------------------------------------------------
(* The writer *)

\* Mutant: an object is not looked up either.
Key_Strings(o) == IF heap[o].kind = "string" THEN {<<"string", heap[o].text>>} ELSE {}

\* What _get_ref_id() looks an object up by: a WeakKeyDictionary compares with
\* ==, so equal strings are one key; what is not hashable is not looked up.
Key(o) ==
    IF heap[o].kind \in Unhashable THEN {}
    ELSE IF heap[o].kind = "string" THEN {<<"string", heap[o].text>>}
    ELSE {<<"object", o>>}

\* A primitive without properties has no Obj around it and no reference.
IsPlain(o) == heap[o].kind = "string" /\ heap[o].props = <<>>

NoNames == [tag |-> "none", id |-> 0, names |-> <<>>]

\* Mutant: an id for the list is the number of lists written before it.
TypeNames_Before(o) ==
    IF heap[o].kind = "string" THEN NoNames
    ELSE IF \E i \in DOMAIN tn_ref_list : tn_ref_list[i] = heap[o].names[1]
      THEN [tag |-> "TNRef", id |-> Len(tn_ref_list), names |-> <<>>]
    ELSE [tag |-> "TN", id |-> Len(tn_ref_list) + 1, names |-> heap[o].names]

\* The type names of an object: none for a primitive, a reference when the
\* first name has been written before, else the list with the next id.
TypeNames(o) ==
    LET known == {i \in DOMAIN tn_ref_list : tn_ref_list[i] = heap[o].names[1]}
    IN  IF heap[o].kind = "string" THEN NoNames
        ELSE IF known # {}
          THEN [tag |-> "TNRef", id |-> CHOOSE i \in known : TRUE, names |-> <<>>]
        ELSE [tag |-> "TN", id |-> Len(tn_ref_list) + 1, names |-> heap[o].names]

\* An element of the document; obj, the object it was written for, is history.
Element(tag, o, ref, tn) ==
    [tag |-> tag, obj |-> o, kind |-> heap[o].kind, ref |-> ref, tn |-> tn,
     props |-> <<>>, items |-> <<>>]

\* The new element joins the part of its parent it is for.
Written(slot, element) ==
    Append([doc EXCEPT ![slot.parent][slot.part] = Append(@, Len(doc) + 1)], element)

Slots(e, part, objs) == [i \in DOMAIN objs |-> [parent |-> e, part |-> part, obj |-> objs[i]]]

WritePlain(slot) ==
    /\ IsPlain(slot.obj)
    /\ doc' = Written(slot, Element("S", slot.obj, 0, NoNames))
    /\ todo' = Tail(todo)
    /\ UNCHANGED <<heap, emptied, obj_ref, obj_ref_id, tn_ref_list>>

WriteRef(slot) ==
    /\ ~IsPlain(slot.obj)
    /\ \E entry \in obj_ref :
         /\ entry[1] \in Key(slot.obj)
         /\ doc' = Written(slot, Element("Ref", slot.obj, entry[2], NoNames))
    /\ todo' = Tail(todo)
    /\ UNCHANGED <<heap, emptied, obj_ref, obj_ref_id, tn_ref_list>>

Entries(o) == IF o \in emptied THEN <<>> ELSE heap[o].items

\* Properties first, then the entries; a queue is emptied on the way.
WriteObj(slot) ==
    LET o  == slot.obj
        e  == Len(doc) + 1
        tn == TypeNames(o)
    IN  /\ ~IsPlain(o)
        /\ \A entry \in obj_ref : entry[1] \notin Key(o)
        /\ doc' = Written(slot, Element("Obj", o, obj_ref_id, tn))
        /\ obj_ref' = obj_ref \union {<<k, obj_ref_id>> : k \in Key(o)}
        /\ obj_ref_id' = obj_ref_id + 1
        /\ tn_ref_list' = IF tn.tag = "TN" THEN Append(tn_ref_list, heap[o].names[1])
                                           ELSE tn_ref_list
        /\ todo' = Slots(e, "props", heap[o].props)
                     \o Slots(e, "items", Entries(o)) \o Tail(todo)
        /\ emptied' = IF heap[o].kind = "queue" THEN emptied \union {o} ELSE emptied
        /\ UNCHANGED heap

Write ==
    /\ todo # <<>> /\ Len(doc) < MaxElements
    /\ LET slot == Head(todo) IN WritePlain(slot) \/ WriteRef(slot) \/ WriteObj(slot)
    /\ UNCHANGED readerVars
-----------------------------------------------------------------------------
(* The reader *)

\* Mutant: properties are left out.
Children_NoProps(e) == doc[e].items

\* The entries of a dict, two elements each, the value before the key.
Swapped(items) ==
    [i \in DOMAIN items |-> IF i % 2 = 1 THEN items[i + 1] ELSE items[i - 1]]

Children(e) ==
    (IF doc[e].kind = "dict" THEN Swapped(doc[e].items) ELSE doc[e].items) \o doc[e].props

ReadPlain(e) ==
    /\ doc[e].tag = "S"
    /\ value' = [value EXCEPT ![e] = e]
    /\ toread' = Tail(toread)
    /\ UNCHANGED <<obj_ref_map, tn_ref_map, names, failed>>

ReadRef(e) ==
    /\ doc[e].tag = "Ref"
    /\ toread' = Tail(toread)
    /\ IF doc[e].ref \in DOMAIN obj_ref_map
         THEN value' = [value EXCEPT ![e] = obj_ref_map[doc[e].ref]] /\ UNCHANGED failed
         ELSE failed' = TRUE /\ UNCHANGED value
    /\ UNCHANGED <<obj_ref_map, tn_ref_map, names>>

\* table with a new entry, or another one in its place.
Put(table, id, entry) ==
    [i \in DOMAIN table \union {id} |-> IF i = id THEN entry ELSE table[i]]

\* The names come first, and with them the object, which can be referred to
\* before its entries and properties are read.
ReadObj(e) ==
    LET tn == doc[e].tn
    IN  /\ doc[e].tag = "Obj"
        /\ IF tn.tag = "TNRef" /\ tn.id \notin DOMAIN tn_ref_map
             THEN /\ failed' = TRUE
                  /\ UNCHANGED <<toread, obj_ref_map, tn_ref_map, value, names>>
             ELSE /\ tn_ref_map' = IF tn.tag = "TN" THEN Put(tn_ref_map, tn.id, tn.names)
                                                    ELSE tn_ref_map
                  /\ names' = [names EXCEPT ![e] =
                                 IF tn.tag = "TNRef" THEN tn_ref_map[tn.id] ELSE tn.names]
                  /\ value' = [value EXCEPT ![e] = e]
                  /\ obj_ref_map' = Put(obj_ref_map, doc[e].ref, e)
                  /\ toread' = Children(e) \o Tail(toread)
                  /\ UNCHANGED failed

\* deserialize_clixml() takes the elements out of Objs.
ReadObjs ==
    /\ doc[Head(toread)].tag = "Objs"
    /\ toread' = doc[Head(toread)].items
    /\ UNCHANGED <<obj_ref_map, tn_ref_map, value, names, failed>>

\* A KeyError ends the reading.
Read ==
    /\ todo = <<>> /\ toread # <<>> /\ ~failed
    /\ LET e == Head(toread) IN ReadPlain(e) \/ ReadRef(e) \/ ReadObj(e) \/ ReadObjs
    /\ UNCHANGED writerVars
-----------------------------------------------------------------------------
ElementIds == 1..MaxElements

\* serialize() of the first object.
Init ==
    /\ heap \in {h \in [Objects -> Shapes] : WellFormed(h) /\ Numbered(h)}
    /\ emptied = {}
    /\ todo = Slots(1, "items", <<1>>)
    /\ doc = <<[tag |-> "Objs", kind |-> "Objs", items |-> <<>>]>>
    /\ obj_ref = {} /\ obj_ref_id = 0 /\ tn_ref_list = <<>>
    /\ toread = <<1>>
    /\ obj_ref_map = <<>> /\ tn_ref_map = <<>>
    /\ value = [e \in ElementIds |-> 0]
    /\ names = [e \in ElementIds |-> <<>>]
    /\ failed = FALSE

Next == Write \/ Read

Spec == Init /\ [][Next]_vars

FairSpec == Spec /\ WF_vars(Next)
-----------------------------------------------------------------------------
(* What may be asked of the caller's objects *)

\* Whoever has entries has only plain properties, and keys are plain.
Straight ==
    \A o \in Objects :
        /\ heap[o].items # <<>> => \A p \in Range(heap[o].props) : IsPlain(p)
        /\ heap[o].kind = "dict" => \A k \in Keys(heap[o]) : IsPlain(k)

\* Objects of the same first type name have the same type names.
NamesByFirst ==
    \A o, q \in Objects :
        heap[o].names # <<>> /\ heap[q].names # <<>> /\ heap[o].names[1] = heap[q].names[1]
            => heap[o].names = heap[q].names

EqualStrings(o, q) ==
    heap[o].kind = "string" /\ heap[q].kind = "string" /\ heap[o].text = heap[q].text

\* Every cycle goes through an object that can be looked up.
Referable ==
    \A cycle \in SUBSET {o \in Objects : heap[o].kind \in Unhashable} :
        cycle # {} =>
          \E o \in cycle : (Range(heap[o].props) \union Range(heap[o].items)) \intersect cycle = {}
-----------------------------------------------------------------------------
ReadElements == {e \in DOMAIN doc : value[e] # 0}

\* ReferencesKnown: the reader has every object and every list of type names it
\* is referred to, although it reads in another order than the writer wrote:
\* true as long as only entries of containers bring new ones.
ReferencesKnown == Straight => ~failed

\* GraphKept: two places of the document that had the same object have the same
\* value after reading, and only they do, if strings are not told apart by
\* identity; lists and dicts are written once for each place.
GraphKept ==
    \A e, f \in ReadElements :
        LET o == doc[e].obj
            q == doc[f].obj
        IN  /\ o = q /\ heap[o].kind \in {"custom", "queue"} => value[e] = value[f]
            /\ value[e] = value[f] => o = q \/ EqualStrings(o, q)

\* NamesKept: an object that is read has the type names of the one written.
NamesKept ==
    NamesByFirst =>
      \A e \in ReadElements :
          doc[e].tag = "Obj" /\ doc[e].kind # "string" => names[e] = heap[doc[e].obj].names

\* DocumentEnds: an object that refers to itself does not make the two go on
\* for ever, unless it does so through lists and dicts alone.
DocumentEnds == Referable => <>(todo = <<>> /\ (toread = <<>> \/ failed))
=============================================================================
