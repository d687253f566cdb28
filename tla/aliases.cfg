SPECIFICATION Spec
CONSTANTS
    Chars = {"a", "b"}
    SizeOf = 4
    MaxAlias = 3
    MaxGlob = 3
    Listings <- TwoLines
    Globs <- SmallGlobs
    Leftovers <- Stack
INVARIANTS
    TypeOK
    PrefixGlobsAreExact
    WrittenIsStored
PROPERTIES
    StrglobMatches
    StarGlobsFindAll
CHECK_DEADLOCK FALSE
