-------------------------- MODULE TripDisciplines --------------------------
(***************************************************************************)
(* What the running of trips promises.  Most of it holds only while some   *)
(* clicks do not overlap, which nothing in the code sees to: a history     *)
(* variable records the disciplines a behaviour has broken, and a property *)
(* names those it relies on.                                               *)
(***************************************************************************)
EXTENDS Trips

VARIABLE broken     \* the disciplines broken so far

Completing(t) == {r \in Requests : req[r].pc \in {"CompleteCount", "CompleteWrite"} /\ req[r].trip = t}
Visiting(t) == {r \in Requests : At(r, "VisitWrite") /\ req[r].trip = t}
Moving(d) == {r \in Requests : req[r].pc \in {"DriverWrite", "DriverMove"} /\ req[r].who = d}

\* Two stops of one trip are not saved at the same time.
OneVisit == \A t \in TripIds : Cardinality(Visiting(t)) <= 1
\* The second fetch of a page does not show another trip between a click and its effect.
SamePage == \A r \in Requests : ArriveShow(r) /\ req[r].here => page.trip = req[r].trip
\* A trip is completed once: not twice at the same time, ...
OneCompletion == \A t \in TripIds : Cardinality(Completing(t)) <= 1
\* ... and not again after it was.
NoRepeat == \A r \in Requests : CompleteFind(r) =>
                \A b \in BookingsOf(req[r].trip) : bookings[b].status # "Completed"
\* No seat is booked on a trip that is being completed.
NoLateBooking == \A b \in Bookings : bookings[b].status # bookings'[b].status =>
                    bookings[b].status # "Absent" \/ Completing(bookings[b].trip) = {}
\* The office neither expires a booking (the trigger counts it) nor reopens one.
NoOfficeStatus == \A b \in Bookings : bookings[b].status # bookings'[b].status =>
                    bookings[b].status # "Completed" /\ bookings'[b].status # "Expired"
\* A driver is not moved twice at the same time.
OneMove == \A d \in Drivers : Cardinality(Moving(d)) <= 1
\* A trip is given a bus only if somebody drives it.
CrewedAssign == \A r \in Requests : AssignWrite(r) => req[r].bus \in ToSet(drivers)

Breaks ==
    {d \in {"visit", "page", "complete", "late", "status", "move", "assign", "crash"} :
        \/ d = "visit" /\ ~OneVisit'
        \/ d = "page" /\ ~SamePage
        \/ d = "complete" /\ (~OneCompletion' \/ ~NoRepeat)
        \/ d = "late" /\ ~NoLateBooking
        \/ d = "status" /\ ~NoOfficeStatus
        \/ d = "move" /\ ~OneMove'
        \/ d = "assign" /\ ~CrewedAssign
        \/ d = "crash" /\ Crash}

Kept(disciplines) == broken \cap disciplines = {}

DisciplineInit == Init /\ broken = {}

DisciplineSpec ==
    /\ DisciplineInit
    /\ [][Next /\ broken' = broken \cup Breaks]_<<vars, broken>>

-----------------------------------------------------------------------------

\* No stop is in visited_stops twice ('if (!visited.includes(stopId))'), however
\* the calls of addVisitedStop overlap.
NoStopTwice == \A t \in DOMAIN trips : IsInjective(trips[t].visited)

\* A stop once reached stays reached, and in its place, while no two stops are
\* saved at the same time.
StopsKept == [][Kept({"visit"})' =>
    \A t \in DOMAIN trips \cap DOMAIN trips' : IsPrefix(trips[t].visited, trips'[t].visited)]_vars

\* Passengers are told of a stop only once it is saved, and a stop the page shows
\* as reached is saved or about to be, while no two stops are saved at the same
\* time, no request is lost in a crash and the page does not change its trip in between.
Saved == Kept({"visit", "page", "crash"}) =>
    /\ \A m \in told : m[2] \in DOMAIN trips => m[3] \in ToSet(trips[m[2]].visited)
    /\ page.trip \in DOMAIN trips =>
          page.arrived \subseteq ToSet(trips[page.trip].visited)
              \cup {req[r].stop : r \in {q \in Requests : req[q].pc \in {"VisitRead", "VisitWrite"}}}

\* Nobody's trips are undercounted: the bookings of a user that are completed
\* were all counted first, through crashes and repeated completions, while
\* nothing is booked on a trip that is being completed.
NotUndercounted == Kept({"late"}) => \A u \in Users :
    Cardinality({b \in Bookings : bookings[b].user = u /\ bookings[b].status = "Completed"}) <= counts[u]

\* Between completions count_trips is the number of the user's completed bookings,
\* while each trip is completed once, by a completion that did not crash and
\* met no new booking, and the office leaves the statuses alone.
CountExact ==
    Kept({"complete", "late", "status", "crash"}) /\ (\A t \in TripIds : Completing(t) = {}) =>
        \A u \in Users : counts[u] =
            Cardinality({b \in Bookings : bookings[b].user = u /\ bookings[b].status = "Completed"})

\* When no driver is being moved every trip has a bus that somebody drives:
\* drivers.update takes the trips along to the new bus.
Crewed == Kept({"move", "assign", "crash"}) /\ (\A d \in Drivers : Moving(d) = {}) =>
    \A t \in DOMAIN trips : trips[t].bus \in ToSet(drivers)
=============================================================================
