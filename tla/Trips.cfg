\* Two overlapping clicks of the driver or the office, with crashes.
\* Nothing here runs in the background: with no click left the system rests.
CHECK_DEADLOCK FALSE
SPECIFICATION DisciplineSpec
CONSTANTS
    TripIds = {1, 2}
    Routes = {2}
    LastStop = 1
    Users = {u1}
    Linked = {u1}
    Bookings = {b1, b2}
    Buses = {bus1, bus2}
    Drivers = {d1, d2}
    Me = d1
    None = None
    Requests = {r1, r2}
    Calls = {"open", "arrive", "present", "delay", "call", "driver", "assign", "replace", "remove", "uncall", "book", "update"}
    MaxRequests = 3
SYMMETRY Interchangeable
INVARIANTS NoStopTwice Saved NotUndercounted CountExact Crewed
PROPERTIES StopsKept
