------------------------------ MODULE PSObjects ------------------------------
(***************************************************************************)
(* psrpcore.types._base: the properties of PowerShell objects.  Every      *)
(* class decorated with PSType has lists of properties that its decorated  *)
(* subclasses take over and every new instance gets copies of; properties  *)
(* can be added to a class or to one object, they are read and set like    *)
(* Python attributes, and another object is made of them when the object   *)
(* is serialized and read again.                                           *)
(*                                                                         *)
(* A property (PSPropertyInfo) is a Python object, which lists refer to:   *)
(* the lists have indices of props.  A value has no type here (ps_type).   *)
(***************************************************************************)
EXTENDS Naturals, Sequences, FiniteSets, Functions

CONSTANTS
    Names,          \* names of properties and attributes
    TypeNames,      \* names of .NET types
    Values,
    Declarations,   \* what classes are declared with: arguments of PSType
    Members,        \* what is added to classes and objects: properties
    MaxClasses,     \* bound: classes, PSObject included
    MaxObjects,     \* bound: instances
    MaxAdded        \* bound: properties added with add_member

\* An alias reads the property or attribute that is its target; a script property
\* here reads and sets its target.
Note(n, v)   == [name |-> n, kind |-> "note", value |-> v]
Alias(n, t)  == [name |-> n, kind |-> "alias", target |-> t]
Script(n, t) == [name |-> n, kind |-> "script", target |-> t]

Properties ==
    {Note(n, v) : n \in Names, v \in Values}
        \union {Alias(n, t) : n, t \in Names} \union {Script(n, t) : n, t \in Names}

\* A type name is one of .NET with the number of times "Deserialized." is before it.
SystemObject == <<0, "System.Object">>
Deserialized(names) == [i \in DOMAIN names |-> <<names[i][1] + 1, names[i][2]>>]

ASSUME PSObjectsAssumption ==
    /\ {"missing", "endless"} \intersect Values = {}
    /\ Members \subseteq Properties
    /\ "System.Object" \notin TypeNames
    /\ IsFiniteSet(Names)
    /\ \A d \in Declarations :
          /\ d.names \in Seq(Nat \X TypeNames)
          /\ d.adapted \in Seq(Properties) /\ d.extended \in Seq(Properties)
          /\ d.skip_inheritance \in BOOLEAN /\ d.rehydrate \in BOOLEAN
    /\ MaxClasses \in Nat \ {0} /\ MaxObjects \in Nat /\ MaxAdded \in Nat

VARIABLES
    props,          \* every PSPropertyInfo
    classes,        \* every class; the first is PSObject
    type_registry,  \* TypeRegistry: the class of a type name
    objects,        \* every instance
    added           \* counts add_member, for its bound

vars == <<props, classes, type_registry, objects, added>>
-----------------------------------------------------------------------------
(* Reading and setting.  ps are the properties there are, h is the meta      *)
(* (PSObject) of a class or an object.                                       *)

Listed(h) == h.adapted \o h.extended

\* A list has properties of name n, the first and the last of them.
Has(ps, list, n) == \E i \in DOMAIN list : ps[list[i]].name = n

FirstAt(ps, list, n) ==
    CHOOSE i \in DOMAIN list :
        ps[list[i]].name = n /\ \A j \in DOMAIN list : ps[list[j]].name = n => i <= j

LastAt(ps, list, n) ==
    CHOOSE i \in DOMAIN list :
        ps[list[i]].name = n /\ \A j \in DOMAIN list : ps[list[j]].name = n => j <= i

IsProperty(ps, h, n) == Has(ps, h.adapted, n) \/ Has(ps, h.extended, n)

\* __getattribute__ makes a dict of adapted, then extended properties: the last
\* one of a name is kept.
Seen(ps, h, n) ==
    IF Has(ps, h.extended, n) THEN h.extended[LastAt(ps, h.extended, n)]
                              ELSE h.adapted[LastAt(ps, h.adapted, n)]

\* Mutant: adapted properties are looked at first.
Chosen_Adapted(ps, h, n) ==
    IF Has(ps, h.adapted, n) THEN h.adapted[FirstAt(ps, h.adapted, n)]
                             ELSE h.extended[FirstAt(ps, h.extended, n)]

\* __setattr__ takes the first one, of the extended properties if there are any.
Chosen(ps, h, n) ==
    IF Has(ps, h.extended, n) THEN h.extended[FirstAt(ps, h.extended, n)]
                              ELSE h.adapted[FirstAt(ps, h.adapted, n)]

\* A lookup of a name ends with something, or goes on with another name.
GoesOn(m) == [is |-> "name", name |-> m]
Found(v)  == [is |-> "value", value |-> v]

\* getattr(h, n): an attribute hides a property, an alias is looked up like any name.
Lookup(ps, h) ==
    [n \in Names |->
        IF n \in DOMAIN h.attrs THEN Found(h.attrs[n])
        ELSE IF ~IsProperty(ps, h, n) THEN Found("missing")
        ELSE LET p == ps[Seen(ps, h, n)]
             IN  IF p.kind = "note" THEN Found(p.value) ELSE GoesOn(p.target)]

\* Where setattr(h, n, v) puts v: a property, an attribute, or nowhere, since an
\* alias has no setter.
AnAttribute(n) == [is |-> "attribute", at |-> n]
AProperty(i)   == [is |-> "property", at |-> i]
Nowhere        == [is |-> "nowhere"]

Setting(ps, h) ==
    [n \in Names |->
        IF n \in DOMAIN h.attrs \/ ~IsProperty(ps, h, n) THEN AnAttribute(n)
        ELSE LET i == Chosen(ps, h, n)
             IN  CASE ps[i].kind = "note"   -> AProperty(i)
                   [] ps[i].kind = "alias"  -> Nowhere
                   [] ps[i].kind = "script" -> GoesOn(ps[i].target)]

\* What a lookup of n ends with after going on k times at most, none if it does not
\* end by then: a name it comes back to is one that it comes back to for ever.
Depth == Cardinality(Names)
Follow(look, n, k, none) ==
    LET end[j \in 0..Depth] ==
            [m \in Names |-> IF look[m].is # "name" THEN look[m]
                             ELSE IF j = 0 THEN none ELSE end[j - 1][look[m].name]]
    IN  end[k][n]

Get(o, n) == Follow(Lookup(props, objects[o]), n, Depth, Found("endless")).value

Place(o, n) == Follow(Setting(props, objects[o]), n, Depth, Nowhere)

\* get_value() of one property
GetValue(o, i) ==
    IF props[i].kind = "note" THEN props[i].value
    ELSE Follow(Lookup(props, objects[o]), props[i].target, Depth - 1, Found("endless")).value

\* A dict with an entry more, or with another value for key.
With(dict, key, v) == [k \in DOMAIN dict \union {key} |-> IF k = key THEN v ELSE dict[k]]

SetAttr(o, n, v) ==
    LET p == Place(o, n)
    IN  /\ UNCHANGED <<classes, type_registry, added>>
        /\ \/ /\ UNCHANGED props
              /\ p.is = "attribute"
              /\ objects' = [objects EXCEPT ![o].attrs = With(@, p.at, v)]
           \/ /\ UNCHANGED objects
              /\ p.is = "property"
              /\ props' = [props EXCEPT ![p.at].value = v]
-----------------------------------------------------------------------------
(* Classes and instances *)

\* PSType: the lists of a class are new, the properties that it takes over are
\* those of its base.
Meta(base, d) ==
    LET adapted  == [i \in DOMAIN d.adapted |-> Len(props) + i]
        extended == [i \in DOMAIN d.extended |-> Len(props) + Len(d.adapted) + i]
    IN  IF d.skip_inheritance
        THEN [names |-> d.names, adapted |-> adapted, extended |-> extended]
        ELSE [names    |-> d.names \o classes[base].names,
              adapted  |-> adapted \o classes[base].adapted,
              extended |-> extended \o classes[base].extended]

\* Mutant: the last class that declares a type name is made for it.
Registered_Last(c, names, rehydrate) ==
    IF rehydrate /\ names # <<>> THEN With(type_registry, names[1], c) ELSE type_registry

\* A type name keeps the first class that has it first.
Registered(c, names, rehydrate) ==
    IF rehydrate /\ names # <<>> /\ names[1] \notin DOMAIN type_registry
    THEN With(type_registry, names[1], c)
    ELSE type_registry

\* Bound: classes are declared before the first object is made.
Declare(base, d) ==
    /\ Len(classes) < MaxClasses /\ objects = <<>>
    /\ props' = props \o d.adapted \o d.extended
    /\ classes' = Append(classes, Meta(base, d))
    /\ type_registry' = Registered(Len(classes) + 1, Meta(base, d).names, d.rehydrate)
    /\ UNCHANGED <<objects, added>>

\* set_instance: a new object has copies of the properties of its class, k of the
\* others being there already.
Copies(list) == [i \in DOMAIN list |-> props[list[i]]]

\* Mutant: the lists are copied, the properties in them are not.
Instance_Shared(c, k) ==
    LET h == classes[c]
    IN  [class |-> c, names |-> h.names, adapted |-> h.adapted, extended |-> h.extended,
         attrs |-> <<>>]

Instance(c, k) ==
    LET h == classes[c]
    IN  [class    |-> c,
         names    |-> h.names,
         adapted  |-> [i \in DOMAIN h.adapted |-> k + i],
         extended |-> [i \in DOMAIN h.extended |-> k + Len(h.adapted) + i],
         attrs    |-> <<>>]

New(c) ==
    /\ Len(objects) < MaxObjects
    /\ props' = props \o Copies(Listed(classes[c]))
    /\ objects' = Append(objects, Instance(c, Len(props)))
    /\ UNCHANGED <<classes, type_registry, added>>

\* Mutant: a property that is there already is left alone.
Inserted_IfNew(ps, list, i) ==
    IF Has(ps, list, ps[i].name) THEN list ELSE Append(list, i)

\* The list with property i in the place of the last one with its name.
Inserted(ps, list, i) ==
    LET n == ps[i].name
    IN  IF Has(ps, list, n) THEN [list EXCEPT ![LastAt(ps, list, n)] = i] ELSE Append(list, i)

\* add_member to h
CanAdd(h, p, force) == force \/ ~IsProperty(props, h, p.name)
Add(h, p, force) ==
    /\ CanAdd(h, p, force) /\ added < MaxAdded
    /\ added' = added + 1
    /\ props' = Append(props, p)
    /\ UNCHANGED type_registry

AddToClass(c, p, force) ==
    /\ Add(classes[c], p, force)
    /\ classes' = [classes EXCEPT ![c].extended = Inserted(props', @, Len(props'))]
    /\ UNCHANGED objects

AddToObject(o, p, force) ==
    /\ Add(objects[o], p, force)
    /\ objects' = [objects EXCEPT ![o].extended = Inserted(props', @, Len(props'))]
    /\ UNCHANGED classes
-----------------------------------------------------------------------------
(* The object that is made when o is serialized and read again, by a reader  *)
(* with the same classes                                                     *)

IsRead(x) == x \notin {"missing", "endless"}

\* What the element of o has for the properties of a list
Sent(o, list) == [i \in DOMAIN list |-> Note(props[list[i]].name, GetValue(o, list[i]))]

\* rehydrate: a blank object of the class of the first type name
Blank(names) ==
    IF names # <<>> /\ names[1] \in DOMAIN type_registry
    THEN Instance(type_registry[names[1]], Len(props))
    ELSE [Instance(1, Len(props)) EXCEPT !.names = Deserialized(names)]

\* l properties, those after the first k, are put into a list one after the other.
Merged(ps, list, k, l) ==
    LET merged[x \in 0..l] == IF x = 0 THEN list ELSE Inserted(ps, merged[x - 1], k + x)
    IN  merged[l]

Remote(o) ==
    LET h     == objects[o]
        blank == Blank(h.names)
        k     == Len(props) + Len(Listed(blank))
        a     == Len(h.adapted)
        e     == Len(h.extended)
    IN  /\ Len(objects) < MaxObjects
        /\ \A i \in Range(Listed(h)) : IsRead(GetValue(o, i))
        /\ props' = props \o Copies(Listed(classes[blank.class]))
                          \o Sent(o, h.adapted) \o Sent(o, h.extended)
        /\ objects' = Append(objects, [blank EXCEPT
                         !.adapted  = Merged(props', @, k, a),
                         !.extended = Merged(props', @, k + a, e)])
        /\ UNCHANGED <<classes, type_registry, added>>
-----------------------------------------------------------------------------
Init ==
    /\ props = <<>>
    /\ classes = <<[names |-> <<SystemObject>>, adapted |-> <<>>, extended |-> <<>>]>>
    /\ type_registry = <<>>
    /\ objects = <<>>
    /\ added = 0

Next ==
    \/ \E base \in DOMAIN classes, d \in Declarations : Declare(base, d)
    \/ \E c \in DOMAIN classes : New(c)
    \/ \E c \in DOMAIN classes, p \in Members, force \in BOOLEAN : AddToClass(c, p, force)
    \/ \E o \in DOMAIN objects, p \in Members, force \in BOOLEAN : AddToObject(o, p, force)
    \/ \E o \in DOMAIN objects, n \in Names, v \in Values : SetAttr(o, n, v)
    \/ \E o \in DOMAIN objects : Remote(o)

Spec == Init /\ [][Next]_vars
-----------------------------------------------------------------------------
(* Properties *)

\* A list that names a property twice: a class that takes over a property and
\* declares it again has one.
Doubled(h) ==
    \E list \in {h.adapted, h.extended} : \E i, j \in DOMAIN list :
        i # j /\ props[list[i]].name = props[list[j]].name

\* What a step sets or adds to o is read after it.
SetReads(o) ==
    /\ \A n \in Names, v \in Values : SetAttr(o, n, v) => Get(o, n)' = v
    /\ \A p \in Members :
          /\ AddToObject(o, p, TRUE)
          /\ p.kind = "note" /\ p.name \notin DOMAIN objects[o].attrs
          => Get(o, p.name)' = p.value

\* What is set, or added to an object, is what is read next, through script
\* properties too, although __setattr__ takes the first property of a name and
\* __getattribute__ the last, as long as no list of the object names a property
\* twice; an attribute of the name hides what is added.
SetIsRead == [][\A o \in DOMAIN objects : ~Doubled(objects[o]) => SetReads(o)]_vars

\* The same of every object, which the docs promise of a property that "has been
\* defined on the object".
DefinedIsRead == [][\A o \in DOMAIN objects : SetReads(o)]_vars

\* No step on an object or a class changes what names lead to in another object, or
\* what new objects of another class have: a class shares the properties of its
\* base, every object has its own.
Reading(o) == Lookup(props, objects[o])
Definition(c) == <<Copies(classes[c].adapted), Copies(classes[c].extended)>>
OneChanges ==
    [][Cardinality({<<"object", o>> : o \in {x \in DOMAIN objects : Reading(x)' # Reading(x)}}
        \union {<<"class", c>> : c \in {x \in DOMAIN classes : Definition(x)' # Definition(x)}}) <= 1]_vars

\* A property is read of the copy as it was of the object, be it a note, an alias
\* or a script, and whatever properties the reader gives a new object of that
\* type; an attribute is not sent, and an extended property that only the
\* reader's class has hides an adapted one.
Hidden(h, n) ==
    \/ n \in DOMAIN h.attrs
    \/ /\ ~Has(props, h.extended, n)
       /\ Has(props, classes[Blank(h.names).class].extended, n)
ReadAsSent ==
    [][\A o \in DOMAIN objects, copy \in DOMAIN objects' \ DOMAIN objects : Remote(o) =>
        \A n \in Names : IsProperty(props, objects[o], n) /\ ~Hidden(objects[o], n)
                             => Get(copy, n)' = Get(o, n)]_vars

\* The class that is made for a type name stays the same, whatever is declared
\* later, so that an object of that class is read as one, with its type names;
\* any other object is read as a PSObject with the Deserialized names of its own.
\* An adapted property is read as an adapted one, an extended one as extended.
Groups(o) == [g \in {"adapted", "extended"} |->
                {props[objects[o][g][i]].name : i \in DOMAIN objects[o][g]}]
KindKept ==
    [][/\ \A t \in DOMAIN type_registry : type_registry'[t] = type_registry[t]
       /\ \A o \in DOMAIN objects, copy \in DOMAIN objects' \ DOMAIN objects : Remote(o) =>
            LET h == objects[o]
                c == objects'[copy]
            IN  /\ \/ c.class = h.class /\ c.names = h.names
                   \/ c.class = 1 /\ c.names = Deserialized(h.names)
                   \/ h.class \notin Range(type_registry)
                /\ \A g \in {"adapted", "extended"} : Groups(o)[g] \subseteq Groups(copy)'[g]]_vars
=============================================================================
