\* Liveness with failures; webhooks may be lost, reconciliations take one row.
CONSTANTS
    Payments = {x1, x2}
    Targets = {t1, t2}
    Users = {u1}
    Jobs = {}
    Reconciler = reconciler
    Cleaner = cleaner
    None = none
    Batch = 1
    MaxAttempts = 2
    MaxFaults = 1
SPECIFICATION FairSpec
PROPERTIES PaidIsSettled PendingIsResolved
CHECK_DEADLOCK FALSE
