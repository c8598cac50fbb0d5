SPECIFICATION Spec
CONSTANT MaxAttempts = 3
INVARIANTS
    TypeOK
    EffectsBounded
    GivesUpLast
PROPERTIES
    ImplementsCall
