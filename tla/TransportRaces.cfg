\* Two handlers in flight, failures, account deletions and administrators.
CONSTANTS
    Requests = {r1}
    Carriers = {c1, c2}
    Calls = {p1, p2}
    Nobody = nobody
    Outside = {"ADMIN", "ERASURE"}
    MaxTrips = 2
SPECIFICATION Spec
SYMMETRY Symmetry
INVARIANTS TypeOK AcceptedIsBooked CompletedIsCredited
    BookingAgrees CreditIsExact QuotedHasOffer
PROPERTIES BookingPinned EngagedByBooking
CHECK_DEADLOCK FALSE
