SPECIFICATION Spec
CONSTANTS
    Proc = {p1, p2}
    Title = {t1, t2}
    None = None
    MaxVersion = 2
    MaxPassword = 1
    MaxCommands = 4
    User = {p1, p2}
    Password = {1, 2}
    Target = {g1, g2}
    Helper = {h1, h2}
    MaxConfigs = 1
INVARIANTS
    TypeOK
    SessionKeyCurrent
    NothingLost
    PromisesAreWatched
PROPERTIES
    SavesWhatWasApproved
    CopiesWhatIsSaved
SYMMETRY Symmetry
CHECK_DEADLOCK FALSE
