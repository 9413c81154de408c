SPECIFICATION FairSpec
CONSTANTS
    Texts = {"t"}
    FirstNames = {"A"}
    Rests = {"B"}
    MaxObjects = 3
    MaxMembers = 2
    MaxElements = 22
CHECK_DEADLOCK FALSE
INVARIANTS ReferencesKnown GraphKept NamesKept
PROPERTIES DocumentEnds
