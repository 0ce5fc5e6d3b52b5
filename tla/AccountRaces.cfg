\* An administrator and a user who may leave; two handlers, one validation, one failure.
CONSTANTS
    Users = {u1, u2}
    Leavers = {u2}
    Calls = {p1, p2}
    Fills = {f1}
    None = none
    MaxFaults = 1
SPECIFICATION Spec
SYMMETRY Symmetry
INVARIANTS TypeOK LastAdminRemains BlockReachesGate
PROPERTIES ErasedForGood BlockHolds ErasedOwesNothing
CHECK_DEADLOCK FALSE
