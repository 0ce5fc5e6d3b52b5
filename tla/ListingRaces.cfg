\* Two rows, one of which may be public, two handlers in flight, one failure.
CONSTANTS
    Items = {l1, l2}
    Opened = {l1}
    Calls = {p1, p2}
    None = none
    Texts = {t1, t2}
    MaxActive = 1
    MaxVersion = 2
    MaxFaults = 1
SPECIFICATION FairSpec
INVARIANTS TypeOK WithinLimit CopiesAreCurrent
PROPERTIES EditsAreNotLost StaleCopiesGo
CHECK_DEADLOCK FALSE
