\* Two overlapping requests of two tabs and the office, with crashes, reloads
\* and lost socket messages.
\* Nothing here runs in the background: with no request left the system rests.
CHECK_DEADLOCK FALSE
SPECIFICATION DisciplineSpec
CONSTANTS
    Emails = {e1, e2}
    Passwords = {p, q}
    Unset = Unset
    Tabs = {t1, t2}
    None = None
    Requests = {r1, r2}
    Calls = {"login", "register", "logout", "edit", "block", "other"}
    MaxRequests = 2
INVARIANTS TypeOK LoggedOut NoBlockedSession
PROPERTIES NothingLost SessionKept RequestEnds
