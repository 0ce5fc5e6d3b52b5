\* One handler at a time: the life of a request after its booking is cancelled.
CONSTANTS
    Requests = {r1}
    Carriers = {c1, c2}
    Calls = {p1}
    Nobody = nobody
    Outside = {}
    MaxTrips = 1
SPECIFICATION Spec
SYMMETRY Symmetry
INVARIANTS LiveOfferIsBookable
CHECK_DEADLOCK FALSE
