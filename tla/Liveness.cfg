\* Fair cron job, clock and event loop; no symmetry.
SPECIFICATION FairSpec
CONSTANTS
    Users = {u1, u2}
    Seats = {s1}
    Capacity = {s1}
    None = None
    Requests = {r1, r2}
    Calls = {"reserve", "cancel", "cancelAll", "confirm", "view", "list", "select", "update", "remove"}
    Updates = {"Cancelled", "Booked"}
    Limit = 1
    HoldTime = 1
    MaxTime = 2
    MaxRequests = 3
PROPERTIES HoldReleased Answered
