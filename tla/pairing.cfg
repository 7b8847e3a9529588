SPECIFICATION Spec
CONSTANTS
    Generation = {g1, g2}
    None = None
SYMMETRY Symmetry
INVARIANTS
    TypeOK
    VaultOpenable
    TransactionResumable
    PromotionNeverStuck
    FilesAgree
PROPERTIES
    CurrentRemainsActive
    ImplementsHandover
CHECK_DEADLOCK FALSE
