\* Two handlers of one account in flight, with failures.
CONSTANTS
    Tokens = {t1, t2, t3}
    Providers = {"google", "apple"}
    Calls = {p1, p2}
    None = none
    MaxCodes = 1
    MaxTries = 2
SPECIFICATION Spec
SYMMETRY Symmetry
INVARIANTS TypeOK OneLivePerSession EndedStaysEnded CodeServesOnce
PROPERTIES LoginMethodRemains
CHECK_DEADLOCK FALSE
