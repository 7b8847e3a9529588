SPECIFICATION FairSpec
CONSTANTS
    Request = {r1}
    Task = {t1, t2}
    None = None
    MaxRecent = 2
    MaxCommands = 4
PROPERTIES
    RequestEnds
CHECK_DEADLOCK FALSE
