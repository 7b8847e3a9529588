SPECIFICATION Spec
CONSTANTS
    Generation = {g1, g2}
    None = None
SYMMETRY Symmetry
PROPERTIES
    AbortedPairingIsUndone
CHECK_DEADLOCK FALSE
