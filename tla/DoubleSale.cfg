\* Two overlapping confirm requests of one user.
SPECIFICATION Spec
CONSTANTS
    Users = {u1, u2}
    Seats = {s1, s2}
    Capacity = {s1, s2}
    None = None
    Requests = {r1, r2}
    Calls = {"reserve", "confirm"}
    Updates = {"Cancelled", "Booked"}
    Limit = 2
    HoldTime = 1
    MaxTime = 2
    MaxRequests = 3
INVARIANTS SeatExclusive
