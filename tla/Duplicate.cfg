\* A ticket written by confirm is cancelled.
\* Nothing here runs in the background: with no request left the system rests.
CHECK_DEADLOCK FALSE
SPECIFICATION DisciplineSpec
CONSTANTS
    Total = 3
    Bookings = {b1, b2}
    Requests = {r1, r2}
    Calls = {"confirm", "cansel"}
    MaxRequests = 2
SYMMETRY Interchangeable
INVARIANTS NoDuplicate
