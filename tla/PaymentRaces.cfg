\* Two payments of one target; buyer, webhook and crons race, with failures.
CONSTANTS
    Payments = {x1, x2}
    Targets = {t1}
    Users = {u1, u2}
    Jobs = {j1, j2}
    Reconciler = reconciler
    Cleaner = cleaner
    None = none
    Batch = 1
    MaxAttempts = 2
    MaxFaults = 2
SPECIFICATION Spec
SYMMETRY Symmetry
INVARIANTS TypeOK
PROPERTIES KeepsContract
CHECK_DEADLOCK FALSE
