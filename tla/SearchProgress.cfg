\* A deletion is scheduled and cancelled; two verticals; a relay, a worker or a sweep
\* may fail.  Only sweeps take such a listing out: the worker looks at status alone.
CONSTANTS
    Listings = {l1, l2}
    Events = {e1}
    Replicas = {r1}
    Sweeps = {s1}
    None = none
    Moves = {"DELETION"}
    MaxText = 0
    MaxAttempts = 2
    MaxTries = 1
    MaxQueue = 1
    MaxFaults = 1
SPECIFICATION FairSpec
PROPERTIES BlockedIsUnlisted ReinstatedIsShown
CHECK_DEADLOCK FALSE
