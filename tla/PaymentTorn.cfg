\* A failure between PAID and the activation.
CONSTANTS
    Payments = {x1, x2}
    Targets = {t1}
    Users = {u1}
    Jobs = {j1}
    Reconciler = reconciler
    Cleaner = cleaner
    None = none
    Batch = 1
    MaxAttempts = 3
    MaxFaults = 1
SPECIFICATION Spec
INVARIANTS PaidIsGranted
CHECK_DEADLOCK FALSE
