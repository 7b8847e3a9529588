SPECIFICATION Spec
CONSTANTS
    Request = {r1, r2}
    Task = {t1, t2}
    None = None
    MaxRecent = 2
    MaxCommands = 5
SYMMETRY Symmetry
INVARIANTS
    TypeOK
    BackgroundIsLocked
    WaitingIsHeld
PROPERTIES
    ApprovalIsCurrent
    NoRevival
    AnsweredOnce
CHECK_DEADLOCK FALSE
