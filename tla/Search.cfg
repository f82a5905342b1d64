SPECIFICATION DisciplineSpec
CONSTANTS
    Lines <- MCLines
    Dates <- MCDates
    Today = "today"
    Trips = {t1}
    None = None
    MaxClicks = 3
INVARIANTS LineFits MarkersTrue TripsShown
CHECK_DEADLOCK FALSE
