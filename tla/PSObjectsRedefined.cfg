SPECIFICATION Spec
CONSTANTS
    v1 = v1
    v2 = v2
    Names <- MCNames
    TypeNames = {"T", "U"}
    Values = {v1, v2}
    Declarations <- MCDeclarations
    Members <- MCMembers
    MaxClasses = 3
    MaxObjects = 2
    MaxAdded = 1
PROPERTY DefinedIsRead
CHECK_DEADLOCK FALSE
