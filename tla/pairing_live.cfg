SPECIFICATION LiveSpec
CONSTANTS
    Generation = {g1, g2}
    None = None
    old = g1
PROPERTIES
    TransactionResolves
CHECK_DEADLOCK FALSE
