\* Two overlapping clicks, lost and late answers, expiry, another user.
\* The clock and the clicks are bounded: the page rests in the end.
CHECK_DEADLOCK FALSE
SPECIFICATION DisciplineSpec
CONSTANTS
    Seats = {1, 2}
    Limit = 2
    HoldTime = 2
    Clicks = {c1, c2}
    Timer = Timer
    Offsets = {0, 1}
    MaxTime = 2
    MaxClicks = 2
INVARIANTS ShownIsHeld CountdownHonest
PROPERTIES SoldAsShown Usable
