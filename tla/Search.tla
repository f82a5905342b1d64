------------------------------- MODULE Search -------------------------------
(***************************************************************************)
(* Looking for a trip, in one tab: two stops are chosen on the map, which  *)
(* hands them to the home page, whose list leads to the booking page.      *)
(*   frontend/.../Map/context/MapContext.tsx, Map/components/MapPage.tsx   *)
(*   frontend/.../Home/context/HomeContext.tsx, Home/components/*.tsx      *)
(* A marker on the map keeps the click handler of the render that drew it, *)
(* and with it the choice of then.                                         *)
(***************************************************************************)
EXTENDS Integers, FiniteSets, SequencesExt

CONSTANTS
    Lines,          \* the routes in the order of GET /routes, each a sequence of stops
    Trips,          \* rows of the timetable: ids
    Dates, Today,
    None,
    MaxClicks       \* bound: clicks, and changes by the office, in a behaviour

ASSUME SearchAssumption ==
    /\ Lines \in Seq({Lines[i] : i \in DOMAIN Lines})
    /\ \A i \in DOMAIN Lines : Lines[i] # <<>> /\ None \notin ToSet(Lines[i])
    /\ Today \in Dates /\ MaxClicks \in Nat

VARIABLES
    screen,     \* "map", "home" or "booking"
    map,        \* "loading"; "loaded": the routes are there; "ready": the map too; "error"
    chosen,     \* departure and arrival
    matched,    \* matchedRoute: its number, or 0
    modal,      \* the question whether to go on to book
    drawn,      \* lastStopsKeyRef: the stops whose markers were asked for last
    markers,    \* on the map: stop, drawing, and the choice its handler has seen
    drawings,   \* calls of updateArrayMarkers so far
    cache,      \* coordsCacheRef
    done,       \* geocodingDoneRef
    geocodes,   \* drawings that wait for the geocoder
    trips,      \* the timetable on the server: trip, line and date
    home,       \* the state of HomeProvider
    fetches,    \* requests for the trips of a date
    clicks

mapVars == <<map, chosen, matched, modal, drawn, markers, drawings, cache, done, geocodes>>
homeVars == <<home, fetches>>
vars == <<screen, mapVars, trips, homeVars, clicks>>

\* getCityFromRoute
StopsOf(i) == ToSet(Lines[i])
Stops == UNION {StopsOf(i) : i \in DOMAIN Lines}

Nowhere == [from |-> None, to |-> None]

\* The stops on the routes through the stop that was chosen last.
Filtered(choice) ==
    LET city == IF choice.to # None THEN choice.to ELSE choice.from IN
    IF city = None THEN Stops
    ELSE UNION {StopsOf(i) : i \in {j \in DOMAIN Lines : city \in StopsOf(j)}}

\* The first route with both stops, in whichever direction.
Found(a, b) ==
    LET both == {i \in DOMAIN Lines : {a, b} \subseteq StopsOf(i)} IN
    IF both = {} THEN 0 ELSE CHOOSE i \in both : \A j \in both : i <= j

Count == clicks < MaxClicks /\ clicks' = clicks + 1

-----------------------------------------------------------------------------
(* The map *)

Load ==
    /\ screen = "map" /\ map = "loading"
    /\ map' = "loaded" /\ drawn' = Stops
    /\ UNCHANGED <<screen, chosen, matched, modal, markers, drawings, cache, done, geocodes,
                   trips, homeVars, clicks>>

LoadFail ==
    /\ screen = "map" /\ map = "loading" /\ map' = "error"
    /\ UNCHANGED <<screen, chosen, matched, modal, drawn, markers, drawings, cache, done,
                   geocodes, trips, homeVars, clicks>>

\* Mutant: the old markers stay.
DrawOver(choice) ==
    LET names == Filtered(choice)
        marker(s) == [stop |-> s, drawing |-> drawings + 1, seen |-> choice] IN
    /\ drawings' = drawings + 1
    /\ markers' = markers \cup (IF done THEN {marker(s) : s \in names \cap cache} ELSE {})
    /\ geocodes' = IF done THEN geocodes
                   ELSE geocodes \cup {[drawing |-> drawings + 1, left |-> names, seen |-> choice]}

\* updateArrayMarkers: all markers are removed and, from the cache or once the geocoder
\* has answered, set anew.
Draw(choice) ==
    LET names == Filtered(choice)
        marker(s) == [stop |-> s, drawing |-> drawings + 1, seen |-> choice] IN
    /\ drawings' = drawings + 1
    /\ markers' = IF done THEN {marker(s) : s \in names \cap cache} ELSE {}
    /\ geocodes' = IF done THEN geocodes
                   ELSE geocodes \cup {[drawing |-> drawings + 1, left |-> names, seen |-> choice]}

MapReady ==
    /\ screen = "map" /\ map = "loaded" /\ map' = "ready"
    /\ Draw(chosen)
    /\ UNCHANGED <<screen, chosen, matched, modal, drawn, cache, done, trips, homeVars, clicks>>

\* An answer for one stop; the last one of a drawing ends the geocoding for good.
Geocoded(g, s) ==
    LET left == g.left \ {s} IN
    /\ screen = "map" /\ g \in geocodes /\ s \in g.left
    /\ \/ /\ cache' = cache \cup {s}
          /\ markers' = markers \cup {[stop |-> s, drawing |-> g.drawing, seen |-> g.seen]}
       \/ UNCHANGED <<cache, markers>>      \* the geocoder does not know the stop
    /\ geocodes' = (geocodes \ {g}) \cup (IF left = {} THEN {} ELSE {[g EXCEPT !.left = left]})
    /\ done' = (done \/ left = {})
    /\ UNCHANGED <<screen, map, chosen, matched, modal, drawn, drawings, trips, homeVars, clicks>>

\* What follows a choice: a route that was not matched before asks whether to book,
\* and the markers are drawn again if the stops to show are others than before.
Choose(choice, route) ==
    /\ screen = "map" /\ map = "ready" /\ ~modal /\ Count
    /\ chosen' = choice /\ matched' = route
    /\ modal' = (route \notin {0, matched})
    /\ drawn' = Filtered(choice)
    /\ IF drawn' = drawn THEN UNCHANGED <<markers, drawings, geocodes>> ELSE Draw(choice)
    /\ UNCHANGED <<screen, map, cache, done, trips, homeVars>>

Starts(m) == m.seen.from = None \/ m.seen.to # None \/ m.stop = m.seen.from

\* handleStopClick, as the marker has it.
ClickFirst(m) == Starts(m) /\ Choose([from |-> m.stop, to |-> None], 0)

\* Mutant: a route through the arrival alone will do.
ClickSecondEither(m) ==
    ~Starts(m) /\ Choose([chosen EXCEPT !.to = m.stop], Found(m.stop, m.stop))

ClickSecond(m) == ~Starts(m) /\ Choose([chosen EXCEPT !.to = m.stop], Found(m.seen.from, m.stop))

\* A click beside the markers.
Reset == Choose(Nowhere, 0)

Decline ==
    /\ screen = "map" /\ modal /\ modal' = FALSE
    /\ UNCHANGED <<screen, map, chosen, matched, drawn, markers, drawings, cache, done, geocodes,
                   trips, homeVars, clicks>>

-----------------------------------------------------------------------------
(* The home page *)

\* fetchBusSchedule; both HomeContext and Schedule call it when the date changes.
Gets(date, at) ==
    {[date |-> date, twin |-> n, at |-> at, read |-> FALSE, rows |-> {}] : n \in 1 .. 2}
Fetch(date) == fetches' = fetches \cup Gets(date, clicks)

Opened(from, to) ==
    [from |-> from, to |-> to, date |-> Today, rows |-> {}, loading |-> TRUE, error |-> FALSE]

\* 'Да': the page of the map is gone with all it knows and waits for.
Confirm ==
    /\ screen = "map" /\ modal
    /\ screen' = "home" /\ home' = Opened(chosen.from, chosen.to) /\ Fetch(Today)
    /\ map' = "loading" /\ chosen' = Nowhere /\ matched' = 0 /\ modal' = FALSE
    /\ drawn' = {} /\ markers' = {} /\ drawings' = 0 /\ cache' = {} /\ done' = FALSE /\ geocodes' = {}
    /\ UNCHANGED <<trips, clicks>>

\* The fields of the search.
SetStops == \E from, to \in Stops \cup {None} :
    /\ screen = "home" /\ Count
    /\ home' = [home EXCEPT !.from = from, !.to = to]
    /\ UNCHANGED <<screen, mapVars, trips, fetches>>

\* Mutant: the list is not hidden while another date is fetched.
SetDateShown == \E date \in Dates \ {home.date} :
    /\ screen = "home" /\ Count
    /\ home' = [home EXCEPT !.date = date, !.error = FALSE]
    /\ Fetch(date)
    /\ UNCHANGED <<screen, mapVars, trips>>

SetDate == \E date \in Dates \ {home.date} :
    /\ screen = "home" /\ Count
    /\ home' = [home EXCEPT !.date = date, !.loading = TRUE, !.error = FALSE]
    /\ Fetch(date)
    /\ UNCHANGED <<screen, mapVars, trips>>

\* GET /bus-schedules/date/:date.  Its purge of expired holds is one of SeatBooking's.
FetchRead(f) ==
    /\ screen = "home" /\ f \in fetches /\ ~f.read
    /\ fetches' = (fetches \ {f}) \cup
          {[f EXCEPT !.read = TRUE, !.rows = {t \in trips : t.date = f.date}]}
    /\ UNCHANGED <<screen, mapVars, trips, home, clicks>>

FetchArrive(f) ==
    /\ screen = "home" /\ f \in fetches /\ f.read
    /\ fetches' = fetches \ {f}
    /\ home' = [home EXCEPT !.rows = f.rows, !.loading = FALSE]
    /\ UNCHANGED <<screen, mapVars, trips, clicks>>

FetchFail(f) ==
    /\ screen = "home" /\ f \in fetches
    /\ fetches' = fetches \ {f}
    /\ home' = [home EXCEPT !.error = TRUE, !.loading = FALSE]
    /\ UNCHANGED <<screen, mapVars, trips, clicks>>

\* filteredSchedules; the number of passengers is left out.
Matching(rows) ==
    {r \in rows : r.date = home.date /\ {home.from, home.to} \ {None} \subseteq StopsOf(r.line)}

\* What the page lists; an empty list is announced as 'Расписание отсутствует.'  The
\* row of a trip without a free seat is there, but blank.
Listed == Matching(home.rows)
Ready == screen = "home" /\ ~home.loading /\ ~home.error

\* 'Выбрать'
Book ==
    /\ Ready /\ Listed # {}
    /\ screen' = "booking" /\ fetches' = {}
    /\ UNCHANGED <<mapVars, trips, home, clicks>>

\* The office plans a trip, moves it or takes it off. What it did before the home page
\* was opened is in the initial states, which have any timetable.
Office ==
    /\ screen = "home" /\ Count
    /\ \E t \in Trips : \E new \in {{}} \cup {{r} : r \in [trip : {t}, line : DOMAIN Lines, date : Dates]} :
          trips' = {r \in trips : r.trip # t} \cup new
    /\ UNCHANGED <<screen, mapVars, homeVars>>

-----------------------------------------------------------------------------
OnMap ==
    /\ screen = "map" /\ home = Opened(None, None) /\ fetches = {}

\* Home opened from a link.
AtHome ==
    /\ screen = "home" /\ home = Opened(None, None) /\ fetches = Gets(Today, 0)

Init ==
    /\ OnMap \/ AtHome
    /\ map = "loading" /\ chosen = Nowhere /\ matched = 0 /\ modal = FALSE
    /\ drawn = {} /\ markers = {} /\ drawings = 0 /\ cache = {} /\ done = FALSE /\ geocodes = {}
    /\ clicks = 0
    /\ \E planned \in SUBSET Trips : \E f \in [planned -> [line : DOMAIN Lines, date : Dates]] :
          trips = {[trip |-> t, line |-> f[t].line, date |-> f[t].date] : t \in planned}

Pick == \E m \in markers : ClickFirst(m) \/ ClickSecond(m)
Geocoding == \E g \in geocodes : \E s \in g.left : Geocoded(g, s)
Fetching == \E f \in fetches : FetchRead(f) \/ FetchArrive(f) \/ FetchFail(f)

Next ==
    \/ Load \/ LoadFail \/ MapReady \/ Geocoding
    \/ Pick \/ Reset \/ Decline \/ Confirm
    \/ SetStops \/ SetDate \/ Fetching \/ Book \/ Office

Spec == Init /\ [][Next]_vars
=============================================================================
