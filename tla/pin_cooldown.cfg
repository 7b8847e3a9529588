SPECIFICATION Spec
CONSTANTS
    Task = {t1, t2}
    None = None
    Failures = 3
    Base = 1
    Longest = 3
    ShiftBits = 2
    MaxLevel = 4
    MaxElapsed = 9
    MaxBoot = 1
SYMMETRY Symmetry
INVARIANTS
    TypeOK
    NoVerdictWhileCooling
    GuessesAreCounted
    CooldownsEscalate
PROPERTIES
    RetryAfterIsHonest
