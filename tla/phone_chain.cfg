SPECIFICATION PhoneSpec
CONSTANTS
    Generation = {g1, g2, g3}
    None = None
SYMMETRY Symmetry
CONSTRAINT UnlockedBeforeTheThird
INVARIANTS
    ReferencedIntact
    NoForgottenShare
    PhoneInvariant
PROPERTIES
    PendingSurvives
    HandoverIsCommitted
CHECK_DEADLOCK FALSE
