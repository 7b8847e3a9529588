SPECIFICATION Spec
CONSTANTS
    Generation = {g1}
    None = None
INVARIANTS
    PendingIsResumable
CHECK_DEADLOCK FALSE
