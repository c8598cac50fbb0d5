SPECIFICATION Spec
CONSTANTS
    Elements <- MCElements
    Lists <- MCLists
    PageSize = 2
    MaxChanges = 3
INVARIANTS
    StillListIsReadExactly
    DriftBounded
    TypeOK
PROPERTIES
    ReadsEnd
