SPECIFICATION Spec
CONSTANTS
    f1 = f1
    f2 = f2
    None = None
    Empty = Empty
    Slugs <- MCSlugs
    Realms <- MCRealms
    Commands <- MCCommands
    Rows <- MCRows
    MaxChanges = 1
INVARIANTS
    TypeOK
    NoSurprise
    WritesAreVetted
PROPERTIES
    ImplementsVerdict
