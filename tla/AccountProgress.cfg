\* Liveness, with a process that dies: one handler at a time.
CONSTANTS
    Users = {u1, u2}
    Leavers = {u2}
    Calls = {p1}
    Fills = {f1}
    None = none
    MaxFaults = 1
SPECIFICATION FairSpec
PROPERTIES RefusedInTheEnd DeletionIsDone
CHECK_DEADLOCK FALSE
