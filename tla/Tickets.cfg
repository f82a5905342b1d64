\* Any overlap of create, cansel, confirm and resize, with crashes;
\* while the calls are orderly, the atomic seat pool.
\* Nothing here runs in the background: with no request left the system rests.
CHECK_DEADLOCK FALSE
SPECIFICATION DisciplineSpec
CONSTANTS
    Total = 3
    Bookings = {b1, b2}
    Requests = {r1, r2}
    Calls = {"create", "cansel", "confirm", "resize"}
    MaxRequests = 5
SYMMETRY Interchangeable
INVARIANTS Sorted
PROPERTIES ImplementsPool
