\* Confirm, checkout, repeated deliveries, cancellations, the page, a crash.
\* Clients may do nothing more: the system may rest.
CHECK_DEADLOCK FALSE
SPECIFICATION FairSpec
CONSTANTS
    Bookings = {b1, b2}
    Fare = 1
    Requests = {r1, r2}
    MaxRequests = 3
    MaxCrashes = 1
INVARIANTS BookedIsPaid
PROPERTIES PaidIsBooked
