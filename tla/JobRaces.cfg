\* One posting, two applicants, two handlers in flight, one failure.
CONSTANTS
    Jobs = {j1}
    Applicants = {a1, a2}
    Calls = {p1, p2}
    None = none
    MaxOpenings = 2
    MaxFaults = 1
SPECIFICATION FairSpec
INVARIANTS TypeOK NoLimbo ToldOnce
PROPERTIES AcceptedStands OldOnesExpire
CHECK_DEADLOCK FALSE
