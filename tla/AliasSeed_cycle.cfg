SPECIFICATION Spec
CONSTANTS
    Allocators = {1, 2}
    IdSets <- NearIds
    Taken = {7, 100}
    MaxDraws <- OneRound
INVARIANTS
    NoEarlyRepeat
PROPERTIES
    DifferentAfterConflict
\* A bounded number of aliases is tried.
CHECK_DEADLOCK FALSE
