\* One tab of the office, with two requests at a time.
\* Nothing here runs in the background: with no click left the system rests.
CHECK_DEADLOCK FALSE
SPECIFICATION DisciplineSpec
CONSTANTS
    MaxId = 3
    Values = {2}
    Unavailable = {2}
    MaxSeat = 1
    Requests = {r1, r2}
    MaxClicks = 3
    MaxShows = 1
SYMMETRY Interchangeable
INVARIANTS ListTrue
PROPERTIES EditsClicked ClosesOwn
