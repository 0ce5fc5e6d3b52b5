\* One replica; the account changes while rows are written; with failures.
CONSTANTS
    Listings = {l1}
    Events = {e1, e2}
    Replicas = {r1}
    Sweeps = {s1}
    None = none
    Moves = {"STATUS"}
    MaxText = 1
    MaxAttempts = 2
    MaxTries = 2
    MaxQueue = 2
    MaxFaults = 2
SPECIFICATION Spec
SYMMETRY Symmetry
INVARIANTS TypeOK
PROPERTIES FollowsRows UpdatesArrive
CHECK_DEADLOCK FALSE
