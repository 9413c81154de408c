----------------------------- MODULE MCPSObjects -----------------------------
(* A small instance of PSObjects: classes that declare the same name as        *)
(* adapted, as extended, or as both, with a type name of their own or not, and *)
(* the same name added as a note and as an alias of another.                   *)
EXTENDS PSObjects

CONSTANTS v1, v2

MCNames == {"a", "b"}

Declaration(names, adapted, extended, skip_inheritance, rehydrate) ==
    [names |-> names, adapted |-> adapted, extended |-> extended,
     skip_inheritance |-> skip_inheritance, rehydrate |-> rehydrate]

MCDeclarations ==
    {Declaration(<<<<0, "T">>>>, <<Note("a", v1)>>, <<>>, FALSE, TRUE),
     Declaration(<<<<0, "U">>>>, <<Note("a", v1)>>, <<Note("a", v2)>>, TRUE, FALSE),
     Declaration(<<>>, <<Note("a", v2)>>, <<Script("b", "a")>>, FALSE, TRUE)}

MCMembers == {Note("a", v1), Alias("a", "b")}
=============================================================================
