\* Two overlapping requests of any kind, expiry, the cron job and crashes;
\* some properties only while their disciplines are kept.
SPECIFICATION DisciplineSpec
CONSTANTS
    Users = {u1, u2}
    Seats = {s1, s2}
    Capacity = {s1, s2}
    None = None
    Requests = {r1, r2}
    Calls = {"reserve", "cancel", "cancelAll", "confirm", "view", "list", "select", "update", "remove"}
    Updates = {"Cancelled", "Booked"}
    Limit = 1
    HoldTime = 1
    MaxTime = 2
    MaxRequests = 4
SYMMETRY Interchangeable
INVARIANTS ConfirmedHasTicket SoldOnce TicketLimit OneSelected HoldExclusive SeatLimit
PROPERTIES HoldKept
