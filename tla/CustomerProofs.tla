--------------------------- MODULE CustomerProofs ---------------------------
(***************************************************************************)
(* Theorems about a customer who looks for a trip (SearchDisciplines) and  *)
(* pays for it (Payments), each for every value of the constants: the list *)
(* of trips, the route in the question and the markers are true, and       *)
(* nothing is booked without a payment.                                    *)
(***************************************************************************)
EXTENDS SearchDisciplines, Payments, FiniteSetTheorems, WellFoundedInduction, TLAPS

-----------------------------------------------------------------------------
(* Looking for a trip: types *)

Place == Stops \cup {None}
Choice == [from : Place, to : Place]
Row == [trip : Trips, line : DOMAIN Lines, date : Dates]
Home == [from : Place, to : Place, date : Dates, rows : SUBSET Row, loading : BOOLEAN, error : BOOLEAN]
Request == [date : Dates, twin : 1 .. 2, at : Nat, read : BOOLEAN, rows : SUBSET Row]
Marker == [stop : Stops, drawing : Nat, seen : Choice]
Geocode == [drawing : Nat, left : SUBSET Stops, seen : Choice]

MapTypes ==
    /\ map \in {"loading", "loaded", "ready", "error"} /\ modal \in BOOLEAN /\ done \in BOOLEAN
    /\ chosen \in Choice /\ drawings \in Nat
    /\ markers \subseteq Marker /\ geocodes \subseteq Geocode

HomeTypes ==
    /\ screen \in {"map", "home", "booking"}
    /\ trips \subseteq Row /\ home \in Home /\ fetches \subseteq Request /\ clicks \in Nat

\* A map that is not drawn has nothing on it, and one that is has been asked for the
\* stops of the choice.
Drawn ==
    /\ map # "ready" =>
          /\ chosen = Nowhere /\ markers = {} /\ geocodes = {} /\ cache = {} /\ ~done /\ ~modal
    /\ map = "loaded" => drawn = Stops
    /\ map = "ready" => drawn = Filtered(chosen)

IInv == MapTypes /\ HomeTypes /\ Drawn /\ (screen = "map" => fetches = {})

OtherSteps == SetStops \/ SetDate \/ Fetching \/ Book \/ Office

\* The first route with both stops has them both: a set of numbers has a least one.
LEMMA FoundFits ==
  ASSUME NEW a, NEW b, Found(a, b) # 0
  PROVE  {a, b} \subseteq StopsOf(Found(a, b))
<1> DEFINE both == {i \in DOMAIN Lines : {a, b} \subseteq StopsOf(i)}
           less == OpToRel(<, Nat)
<1>1. both \subseteq Nat
  BY SearchAssumption
<1>2. both # {}
  BY DEF Found
<1>3. \E i \in both : \A j \in both : <<j, i>> \notin less
  <2> HIDE DEF both, less
  <2> QED
    BY <1>1, <1>2, NatLessThanWellFounded, WFMin DEF less
<1>4. \A i, j \in Nat : <<j, i>> \notin less => i <= j
  BY DEF OpToRel
<1>5. \E i \in both : \A j \in both : i <= j
  <2> HIDE DEF both, less
  <2> QED
    BY <1>1, <1>3, <1>4, Zenon
<1>6. Found(a, b) = CHOOSE i \in both : \A j \in both : i <= j
  BY <1>2 DEF Found
<1>7. Found(a, b) \in both
  <2> HIDE DEF both, less
  <2> QED
    BY <1>5, <1>6
<1> QED
  BY <1>7

LEMMA FilteredStops == \A c : Filtered(c) \subseteq Stops /\ Filtered(Nowhere) = Stops
  BY DEF Filtered, Nowhere, Stops

LEMMA Places == None \notin Stops /\ Nowhere \in Choice /\ \A c \in Choice, s \in Stops :
                    /\ [from |-> s, to |-> None] \in Choice
                    /\ [c EXCEPT !.to = s] \in Choice
  BY SearchAssumption DEF Choice, Place, Nowhere, Stops, StopsOf

\* What a drawing leaves: markers of the stops whose place is known, or a drawing that
\* waits for the geocoder.
LEMMA DrawTypes ==
  ASSUME MapTypes, NEW c \in Choice, Draw(c)
  PROVE  drawings' \in Nat /\ markers' \subseteq Marker /\ geocodes' \subseteq Geocode
  BY FilteredStops DEF MapTypes, Draw, Marker, Geocode

LEMMA ChooseTypes ==
  ASSUME IInv, NEW c \in Choice, NEW route, Choose(c, route)
  PROVE  IInv'
<1>1. MapTypes'
  <2>1. drawings' \in Nat /\ markers' \subseteq Marker /\ geocodes' \subseteq Geocode
    BY DrawTypes DEF Choose, IInv, MapTypes
  <2> QED
    BY <2>1 DEF Choose, IInv, MapTypes
<1>2. HomeTypes'
  BY DEF Choose, homeVars, IInv, HomeTypes, Count
<1>3. Drawn'
  BY DEF Choose, Drawn, Filtered
<1> QED
  BY <1>1, <1>2, <1>3 DEF IInv, Choose, homeVars

LEMMA PickChooses ==
  ASSUME IInv, Pick
  PROVE  \E m \in markers :
           \/ Starts(m) /\ Choose([from |-> m.stop, to |-> None], 0)
           \/ ~Starts(m) /\ Choose([chosen EXCEPT !.to = m.stop], Found(m.seen.from, m.stop))
  BY DEF Pick, ClickFirst, ClickSecond

LEMMA OpensAndAsks ==
  /\ \A a, b \in Place : Opened(a, b) \in Home
  /\ \A date \in Dates, at \in Nat : Gets(date, at) \subseteq Request
<1>1. \A a, b \in Place : Opened(a, b) \in Home
  BY SearchAssumption DEF Opened, Home
<1>2. ASSUME NEW date \in Dates, NEW at \in Nat, NEW n \in 1 .. 2
      PROVE  [date |-> date, twin |-> n, at |-> at, read |-> FALSE, rows |-> {}] \in Request
  BY <1>2 DEF Request
<1> QED
  BY <1>1, <1>2 DEF Gets

\* The fields, the trips and the answers of the home page keep their types.
LEMMA HomeStep ==
  ASSUME IInv, OtherSteps
  PROVE  IInv'
<1> USE DEF IInv, HomeTypes
<1>1. CASE SetStops
  <2>1. home' \in Home
    BY <1>1 DEF SetStops, Home, Place
  <2> QED
    BY <1>1, <2>1 DEF SetStops, mapVars, MapTypes, Drawn, Count
<1>2. CASE SetDate
  <2>1. home' \in Home
    BY <1>2 DEF SetDate, Home
  <2>2. fetches' \subseteq Request
    BY <1>2, OpensAndAsks DEF SetDate, Fetch
  <2> QED
    BY <1>2, <2>1, <2>2 DEF SetDate, mapVars, MapTypes, Drawn, Count
<1>3. CASE Fetching
  <2>1. PICK f \in fetches : FetchRead(f) \/ FetchArrive(f) \/ FetchFail(f)
    BY <1>3 DEF Fetching
  <2>2. CASE FetchRead(f)
    BY <2>1, <2>2 DEF FetchRead, mapVars, MapTypes, Drawn, Request
  <2>3. CASE FetchArrive(f)
    BY <2>1, <2>3 DEF FetchArrive, mapVars, MapTypes, Drawn, Home, Request
  <2>4. CASE FetchFail(f)
    BY <2>1, <2>4 DEF FetchFail, mapVars, MapTypes, Drawn, Home, Request
  <2> QED
    BY <2>1, <2>2, <2>3, <2>4
<1>4. CASE Book \/ Office
  BY <1>4 DEF Book, Office, Ready, mapVars, homeVars, MapTypes, Drawn, Row, Count
<1> QED
  BY <1>1, <1>2, <1>3, <1>4 DEF OtherSteps

LEMMA InitInv == Init => IInv
<1> SUFFICES ASSUME Init PROVE IInv
  OBVIOUS
<1>1. HomeTypes /\ (screen = "map" => fetches = {})
  <2>1. trips \subseteq Row
    BY SearchAssumption DEF Init, Row
  <2>2. home \in Home /\ fetches \subseteq Request
    BY OpensAndAsks, SearchAssumption DEF Init, OnMap, AtHome, Place
  <2> QED
    BY <2>1, <2>2 DEF Init, OnMap, AtHome, HomeTypes
<1> QED
  BY <1>1, Places DEF Init, IInv, MapTypes, Drawn

LEMMA NextInv ==
  ASSUME IInv, Next
  PROVE  IInv'
<1>1. CASE Load \/ LoadFail \/ Decline
  <2>1. MapTypes'
    BY <1>1 DEF Load, LoadFail, Decline, IInv, MapTypes
  <2>2. Drawn'
    BY <1>1 DEF Load, LoadFail, Decline, IInv, Drawn, Filtered, Nowhere
  <2> QED
    BY <1>1, <2>1, <2>2 DEF Load, LoadFail, Decline, IInv, HomeTypes, homeVars
<1>2. CASE MapReady
  BY <1>2, DrawTypes, FilteredStops DEF MapReady, IInv, MapTypes, HomeTypes, Drawn, homeVars
<1>3. CASE Geocoding
  <2>1. PICK g \in geocodes : \E s \in g.left : Geocoded(g, s)
    BY <1>3 DEF Geocoding
  <2>2. PICK s \in g.left : Geocoded(g, s)
    BY <2>1
  <2>3. g \in Geocode /\ s \in Stops /\ map = "ready"
    BY <2>2 DEF IInv, MapTypes, Geocode, Drawn
  <2>4. markers' \subseteq Marker /\ geocodes' \subseteq Geocode
    BY <2>2, <2>3 DEF Geocoded, IInv, MapTypes, Marker, Geocode
  <2> QED
    <3>1. done' \in BOOLEAN
      BY <2>2 DEF Geocoded
    <3> QED
      BY <2>2, <2>3, <2>4, <3>1 DEF Geocoded, IInv, MapTypes, HomeTypes, Drawn, homeVars
<1>4. CASE Pick \/ Reset
  BY <1>4, PickChooses, ChooseTypes, Places DEF Reset, IInv, MapTypes, Marker
<1>5. CASE Confirm
  <2>1. home' \in Home /\ fetches' \subseteq Request
    BY <1>5, OpensAndAsks, SearchAssumption DEF Confirm, Fetch, IInv, MapTypes, HomeTypes, Choice
  <2> QED
    BY <1>5, <2>1, Places DEF Confirm, IInv, MapTypes, HomeTypes, Drawn
<1> QED
  BY <1>1, <1>2, <1>3, <1>4, <1>5, HomeStep DEF Next, OtherSteps

LEMMA TypesAlways == DisciplineSpec => []IInv
<1>1. DisciplineInit => IInv
  BY InitInv DEF DisciplineInit
<1>2. IInv /\ [DisciplineNext]_<<vars, broken>> => IInv'
  <2>1. CASE UNCHANGED vars
    BY <2>1 DEF vars, mapVars, homeVars, IInv, MapTypes, HomeTypes, Drawn, Filtered
  <2> QED
    BY <2>1, NextInv DEF DisciplineNext
<1> QED
  BY <1>1, <1>2, PTL DEF DisciplineSpec

-----------------------------------------------------------------------------
(* The list of trips *)

Of(date) == {t \in trips : t.date = date}

\* Every request that is outstanding is for the date that is shown, and has read what
\* the timetable still has.
FetchState ==
    /\ \A f \in fetches : f.date = home.date /\ (f.read => f.rows = Of(f.date))
    /\ Ready => home.rows = Of(home.date)

LEMMA FetchKept ==
  ASSUME IInv, FetchState, Next, trips' = trips,
         screen = "home" /\ home'.date # home.date => fetches = {}
  PROVE  FetchState'
<1> USE DEF FetchState, Of, Ready, IInv, HomeTypes
<1>1. CASE UNCHANGED <<screen, home, fetches>>
  BY <1>1
<1>2. CASE Confirm
  BY <1>2 DEF Confirm, Opened, Fetch, Gets
<1>3. CASE SetStops
  BY <1>3 DEF SetStops, Home
<1>4. CASE SetDate
  <2>1. PICK date \in Dates \ {home.date} :
            /\ screen = "home" /\ Fetch(date)
            /\ home' = [home EXCEPT !.date = date, !.loading = TRUE, !.error = FALSE]
    BY <1>4 DEF SetDate
  <2>2. home'.date = date /\ home'.loading
    BY <2>1 DEF Home
  <2>3. fetches' = Gets(date, clicks)
    BY <2>1, <2>2 DEF Fetch
  <2> QED
    BY <2>2, <2>3 DEF Gets
<1>5. CASE Fetching
  <2>1. PICK f \in fetches : FetchRead(f) \/ FetchArrive(f) \/ FetchFail(f)
    BY <1>5 DEF Fetching
  <2>2. CASE FetchRead(f)
    <3> DEFINE g == [f EXCEPT !.read = TRUE, !.rows = {t \in trips : t.date = f.date}]
    <3>1. g.date = f.date /\ g.rows = {t \in trips : t.date = f.date}
      BY DEF Request
    <3>2. /\ fetches' = (fetches \ {f}) \cup {g}
          /\ UNCHANGED <<screen, trips, home>>
      BY <2>2 DEF FetchRead
    <3> HIDE DEF g
    <3> QED
      BY <3>1, <3>2
  <2>3. CASE FetchArrive(f)
    BY <2>1, <2>3 DEF FetchArrive, Home
  <2>4. CASE FetchFail(f)
    BY <2>1, <2>4 DEF FetchFail, Home
  <2> QED
    BY <2>1, <2>2, <2>3, <2>4
<1>6. CASE Book
  BY <1>6 DEF Book
<1>7. CASE Load \/ LoadFail \/ MapReady \/ Geocoding \/ Pick \/ Reset \/ Decline \/ Office
  BY <1>1, <1>7, PickChooses DEF Load, LoadFail, MapReady, Geocoding, Geocoded, Reset, Choose, Decline,
     Office, homeVars
<1> QED
  BY <1>2, <1>3, <1>4, <1>5, <1>6, <1>7 DEF Next

\* The list on the home page is that of the date and the stops in its fields, for any
\* timetable and number of changes of the date: as long as a date is not changed while an
\* answer is outstanding and the office leaves the timetable alone.
THEOREM TripsListed == DisciplineSpec => []TripsShown
<1> DEFINE Inv == Kept({"dates", "office"}) => FetchState
<1>1. DisciplineInit => Inv
  <2> SUFFICES ASSUME Init PROVE FetchState
    BY DEF DisciplineInit
  <2> QED
    BY DEF Init, OnMap, AtHome, Opened, Gets, FetchState, Ready
<1>2. IInv /\ Inv /\ [DisciplineNext]_<<vars, broken>> => Inv'
  <2> SUFFICES ASSUME IInv, Inv, [DisciplineNext]_<<vars, broken>>, Kept({"dates", "office"})'
               PROVE  FetchState'
    OBVIOUS
  <2>1. CASE DisciplineNext
    <3>1. Kept({"dates", "office"}) /\ trips' = trips
          /\ (screen = "home" /\ home'.date # home.date => fetches = {})
      BY <2>1 DEF DisciplineNext, Kept
    <3> QED
      BY <2>1, <3>1, FetchKept DEF DisciplineNext
  <2>2. CASE UNCHANGED <<vars, broken>>
    BY <2>2 DEF FetchState, Of, Ready, Kept, vars, homeVars
  <2> QED
    BY <2>1, <2>2
<1>3. Inv => TripsShown
  BY DEF FetchState, Of, TripsShown, Listed, Matching
<1> QED
  BY <1>1, <1>2, <1>3, TypesAlways, PTL DEF DisciplineSpec

-----------------------------------------------------------------------------
(* The markers of the map *)

StopsMarked == {m.stop : m \in markers}

\* The latest drawing: its markers are of the stops that are shown and known, but for
\* those it still asks the geocoder for.
MarkState ==
    /\ \A g, h \in geocodes : g = h
    /\ \A g \in geocodes :
          /\ g.drawing = drawings /\ ~done
          /\ g.left \subseteq Filtered(chosen) /\ g.left \cap cache = {}
          /\ StopsMarked = (Filtered(chosen) \ g.left) \cap cache
          /\ \A m \in markers : m.seen = g.seen
    /\ \A m, n \in markers : m.drawing = drawings /\ m.seen = n.seen
    /\ map = "ready" /\ geocodes = {} => done /\ StopsMarked = Filtered(chosen) \cap cache

\* What the handlers of the markers know, those that are still to come included.
SeenNow == \A k \in markers \cup geocodes : k.seen = chosen

\* A handler that awaits an arrival has the departure that is shown.
Awaits(seen) == seen.from # None /\ seen.to = None
LineState ==
    /\ \A k \in markers \cup geocodes : Awaits(k.seen) => k.seen.from = chosen.from
    /\ modal => {chosen.from, chosen.to} \subseteq StopsOf(matched)

\* A drawing replaces what was on the map, and all it draws has seen one choice.
LEMMA DrawMarks ==
  ASSUME MapTypes, MarkState, NEW c \in Choice, Draw(c), UNCHANGED <<cache, done>>, chosen' = c,
         map' = "ready", geocodes = {}, cache = {} \/ done
  PROVE  MarkState' /\ \A k \in markers' \cup geocodes' : k.seen = c
<1> DEFINE marker(s) == [stop |-> s, drawing |-> drawings + 1, seen |-> c]
           g == [drawing |-> drawings + 1, left |-> Filtered(c), seen |-> c]
<1>1. CASE done
  <2>1. geocodes' = {} /\ markers' = {marker(s) : s \in Filtered(c) \cap cache}
    BY <1>1 DEF Draw
  <2>2. StopsMarked' = Filtered(c) \cap cache
    <3>1. \A s : marker(s).stop = s
      OBVIOUS
    <3> HIDE DEF marker
    <3> QED
      BY <2>1, <3>1 DEF StopsMarked
  <2>3. drawings' = drawings + 1 /\ Filtered(chosen)' = Filtered(c)
    BY DEF Draw, Filtered
  <2> QED
    BY <1>1, <2>1, <2>2, <2>3 DEF MarkState
<1>2. CASE ~done
  <2>1. geocodes' = {g} /\ markers' = {} /\ drawings' = drawings + 1
    BY <1>2 DEF Draw
  <2>2. StopsMarked' = {} /\ Filtered(chosen)' = Filtered(c)
    BY <2>1 DEF StopsMarked, Filtered
  <2>3. g.drawing = drawings + 1 /\ g.left = Filtered(c) /\ g.seen = c
    OBVIOUS
  <2> HIDE DEF g
  <2> QED
    BY <1>2, <2>1, <2>2, <2>3 DEF MarkState
<1> QED
  BY <1>1, <1>2

\* A choice draws the stops of its own anew, or leaves map and markers alone.
LEMMA ChooseMarks ==
  ASSUME IInv, MarkState, NEW c \in Choice, NEW route, Choose(c, route), Chosen => geocodes = {}
  PROVE  /\ MarkState'
         /\ \/ UNCHANGED <<markers, geocodes>> /\ drawn' = drawn
            \/ \A k \in markers' \cup geocodes' : k.seen = c
<1>1. /\ drawn = Filtered(chosen) /\ drawn' = Filtered(c) /\ chosen' = c /\ map = "ready" /\ map' = map
      /\ UNCHANGED <<cache, done>> /\ screen = "map"
  BY DEF Choose, IInv, Drawn
<1>2. CASE drawn' = drawn
  <2>1. UNCHANGED <<markers, geocodes, drawings>>
    BY <1>2 DEF Choose
  <2>2. Filtered(chosen)' = Filtered(chosen)
    BY <1>1, <1>2 DEF Filtered
  <2> QED
    BY <1>1, <1>2, <2>1, <2>2 DEF MarkState, StopsMarked
<1>3. CASE drawn' # drawn
  <2>1. chosen' # chosen
    BY <1>1, <1>3
  <2>2. geocodes = {} /\ done
    BY <1>1, <2>1 DEF Chosen, MarkState
  <2>3. Draw(c)
    BY <1>3 DEF Choose
  <2> QED
    BY <1>1, <2>2, <2>3, DrawMarks DEF IInv
<1> QED
  BY <1>2, <1>3

\* An answer of the geocoder sets the marker of the drawing that is waited for.
LEMMA GeocodeMarks ==
  ASSUME IInv, MarkState, NEW g \in geocodes, NEW s \in g.left, Geocoded(g, s)
  PROVE  /\ MarkState'
         /\ \A k \in markers' \cup geocodes' : k.seen = g.seen
         /\ chosen' = chosen /\ matched' = matched /\ modal' = modal
<1> DEFINE left == g.left \ {s}
           h == [g EXCEPT !.left = left]
           n == [stop |-> s, drawing |-> g.drawing, seen |-> g.seen]
<1>1. /\ g \in Geocode /\ h.left = left /\ h.drawing = drawings /\ h.seen = g.seen
      /\ n.stop = s /\ n.drawing = drawings /\ n.seen = g.seen
  BY DEF IInv, MapTypes, Geocode, MarkState
<1>2. /\ geocodes = {g} /\ geocodes' = IF left = {} THEN {} ELSE {h}
      /\ done' = (done \/ left = {})
      /\ UNCHANGED <<map, chosen, matched, modal, drawings>>
  BY DEF Geocoded, MarkState
<1>3. \/ cache' = cache \cup {s} /\ markers' = markers \cup {n}
      \/ cache' = cache /\ markers' = markers
  BY DEF Geocoded
<1>4. StopsMarked' = (Filtered(chosen) \ left) \cap cache'
  <2> HIDE DEF n
  <2>1. s \in Filtered(chosen) /\ s \notin cache
    BY DEF MarkState
  <2>2. StopsMarked = (Filtered(chosen) \ g.left) \cap cache
    BY DEF MarkState
  <2>3. CASE cache' = cache \cup {s} /\ markers' = markers \cup {n}
    <3>1. StopsMarked' = StopsMarked \cup {s}
      BY <1>1, <2>3 DEF StopsMarked
    <3> QED
      BY <2>1, <2>2, <2>3, <3>1
  <2>4. CASE cache' = cache /\ markers' = markers
    <3>1. StopsMarked' = StopsMarked
      BY <2>4 DEF StopsMarked
    <3> QED
      BY <2>1, <2>2, <2>4, <3>1
  <2> QED
    BY <1>3, <2>3, <2>4
<1>5. left \subseteq Filtered(chosen) /\ left \cap cache' = {} /\ ~done
  BY <1>3 DEF MarkState
<1>6. Filtered(chosen)' = Filtered(chosen)
  BY <1>2 DEF Filtered
<1>7. \A m \in markers' : m.drawing = drawings /\ m.seen = g.seen
  <2> HIDE DEF n
  <2> QED
    BY <1>1, <1>3 DEF MarkState
<1> HIDE DEF left, h, n
<1> QED
  BY <1>1, <1>2, <1>4, <1>5, <1>6, <1>7 DEF MarkState

\* Every step either leaves the markers alone, or draws them, or is a choice.
LEMMA MarkStep ==
  ASSUME IInv, MarkState, Next, Chosen => geocodes = {}
  PROVE  MarkState'
<1>1. ASSUME UNCHANGED <<chosen, markers, drawings, cache, done, geocodes>>, map' = "ready" => map = "ready"
      PROVE  MarkState'
  <2>1. Filtered(chosen)' = Filtered(chosen) /\ StopsMarked' = StopsMarked
    BY <1>1 DEF Filtered, StopsMarked
  <2> QED
    BY <1>1, <2>1 DEF MarkState
<1>2. CASE Load \/ LoadFail \/ Decline \/ OtherSteps
  BY <1>1, <1>2 DEF Load, LoadFail, Decline, OtherSteps, SetStops, SetDate, Fetching, FetchRead,
     FetchArrive, FetchFail, Book, Office, mapVars
<1>3. CASE MapReady
  <2>1. UNCHANGED <<cache, done, chosen>> /\ map' = "ready" /\ geocodes = {} /\ cache = {} /\ chosen \in Choice
    BY <1>3 DEF MapReady, IInv, MapTypes, Drawn
  <2> QED
    BY <1>3, <2>1, DrawMarks DEF MapReady, IInv
<1>4. CASE Geocoding
  BY <1>4, GeocodeMarks DEF Geocoding
<1>5. CASE Pick \/ Reset
  BY <1>5, PickChooses, ChooseMarks, Places DEF Reset, IInv, MapTypes, Marker
<1>6. CASE Confirm
  BY <1>6 DEF Confirm, MarkState
<1> QED
  BY <1>2, <1>3, <1>4, <1>5, <1>6 DEF Next, OtherSteps

LEMMA SeenStep ==
  ASSUME IInv, MarkState, SeenNow, Next, Chosen => geocodes = {}, ~(Chosen /\ drawn' = drawn)
  PROVE  SeenNow'
<1>1. CASE Load \/ LoadFail \/ Decline \/ OtherSteps
  BY <1>1 DEF Load, LoadFail, Decline, OtherSteps, SetStops, SetDate, Fetching, FetchRead,
     FetchArrive, FetchFail, Book, Office, mapVars, SeenNow
<1>2. CASE MapReady
  <2>1. UNCHANGED <<cache, done, chosen>> /\ map' = "ready" /\ geocodes = {} /\ cache = {} /\ chosen \in Choice
    BY <1>2 DEF MapReady, IInv, MapTypes, Drawn
  <2> QED
    BY <1>2, <2>1, DrawMarks DEF MapReady, IInv, SeenNow
<1>3. CASE Geocoding
  BY <1>3, GeocodeMarks DEF Geocoding, SeenNow
<1>4. ASSUME NEW c \in Choice, NEW route, Choose(c, route) PROVE SeenNow'
  <2>1. chosen' = c /\ screen = "map"
    BY <1>4 DEF Choose
  <2> QED
    BY <1>4, <2>1, ChooseMarks DEF SeenNow, Chosen
<1>5. CASE Pick \/ Reset
  BY <1>4, <1>5, PickChooses, Places DEF Reset, IInv, MapTypes, Marker
<1>6. CASE Confirm
  BY <1>6 DEF Confirm, SeenNow
<1> QED
  BY <1>1, <1>2, <1>3, <1>5, <1>6 DEF Next, OtherSteps

LEMMA LineStep ==
  ASSUME IInv, MarkState, LineState, Next, Chosen => geocodes = {},
         ~(Chosen /\ drawn' = drawn /\ chosen' = Nowhere)
  PROVE  LineState'
<1>1. CASE Load \/ LoadFail \/ Decline \/ OtherSteps
  <2>1. UNCHANGED <<chosen, matched, markers, geocodes>> /\ modal' \in {FALSE, modal}
    <3>1. CASE Load \/ LoadFail \/ Decline
      BY <3>1 DEF Load, LoadFail, Decline
    <3>2. CASE OtherSteps
      BY <3>2 DEF OtherSteps, SetStops, SetDate, Fetching, FetchRead, FetchArrive, FetchFail, Book,
         Office, mapVars
    <3> QED
      BY <1>1, <3>1, <3>2
  <2>2. modal' = modal \/ modal' = FALSE
    BY <2>1
  <2>3. StopsOf(matched)' = StopsOf(matched)
    BY <2>1 DEF StopsOf
  <2>4. CASE modal' = modal
    BY <2>1, <2>3, <2>4 DEF LineState
  <2>5. CASE modal' = FALSE
    BY <2>1, <2>5 DEF LineState
  <2> QED
    BY <2>2, <2>4, <2>5
<1>2. CASE MapReady
  <2>1. /\ UNCHANGED <<cache, done, chosen>> /\ map' = "ready" /\ geocodes = {} /\ cache = {}
        /\ chosen \in Choice /\ ~modal'
    BY <1>2 DEF MapReady, IInv, MapTypes, Drawn
  <2> QED
    BY <1>2, <2>1, DrawMarks DEF MapReady, IInv, LineState
<1>3. CASE Geocoding
  BY <1>3, GeocodeMarks DEF Geocoding, LineState
<1>4. ASSUME NEW m \in markers, Starts(m), Choose([from |-> m.stop, to |-> None], 0)
      PROVE  LineState'
  <2> DEFINE c == [from |-> m.stop, to |-> None]
  <2>1. c \in Choice /\ chosen' = c /\ c.from = m.stop /\ ~modal'
    BY <1>4, Places DEF Choose, IInv, MapTypes, Marker
  <2>2. CASE \A k \in markers' \cup geocodes' : k.seen = c
    BY <2>1, <2>2 DEF LineState
  <2>3. CASE UNCHANGED <<markers, geocodes>>
    <3>1. \A k \in markers \cup geocodes : k.seen = m.seen
      BY DEF MarkState
    <3>2. Awaits(m.seen) => m.stop = m.seen.from
      BY <1>4 DEF Starts, Awaits
    <3> HIDE DEF c
    <3> QED
      BY <2>1, <2>3, <3>1, <3>2 DEF LineState
  <2> QED
    BY <1>4, <2>1, <2>2, <2>3, ChooseMarks
<1>5. ASSUME NEW m \in markers, ~Starts(m),
             Choose([chosen EXCEPT !.to = m.stop], Found(m.seen.from, m.stop))
      PROVE  LineState'
  <2> DEFINE c == [chosen EXCEPT !.to = m.stop]
             route == Found(m.seen.from, m.stop)
  <2>1. /\ c \in Choice /\ chosen' = c /\ c.from = chosen.from /\ c.to = m.stop
        /\ matched' = route /\ (modal' => route # 0)
    BY <1>5, Places DEF Choose, IInv, MapTypes, Marker, Choice
  <2>2. Awaits(m.seen) /\ m.seen.from = chosen.from
    BY <1>5 DEF Starts, Awaits, LineState
  <2>3. modal' => {chosen.from, m.stop} \subseteq StopsOf(route)
    BY <2>1, <2>2, FoundFits
  <2>4. \A k \in markers' \cup geocodes' : Awaits(k.seen) => k.seen.from = c.from
    <3> HIDE DEF c, route
    <3>1. CASE \A k \in markers' \cup geocodes' : k.seen = c
      BY <3>1
    <3>2. CASE UNCHANGED <<markers, geocodes>>
      BY <2>1, <3>2 DEF LineState
    <3>3. Choose(c, route)
      BY <1>5 DEF c, route
    <3> QED
      BY <2>1, <3>1, <3>2, <3>3, ChooseMarks
  <2> HIDE DEF c, route
  <2> QED
    BY <2>1, <2>3, <2>4 DEF LineState, StopsOf
<1>6. CASE Reset
  <2>1. chosen' = Nowhere /\ ~modal' /\ screen = "map"
    BY <1>6 DEF Reset, Choose
  <2>2. CASE \A k \in markers' \cup geocodes' : k.seen = Nowhere
    BY <2>1, <2>2 DEF LineState
  <2>3. CASE UNCHANGED <<markers, geocodes>> /\ drawn' = drawn
    BY <2>1, <2>3 DEF LineState, Chosen
  <2> QED
    BY <1>6, <2>2, <2>3, ChooseMarks, Places DEF Reset
<1>7. CASE Confirm
  BY <1>7 DEF Confirm, LineState
<1> QED
  BY <1>1, <1>2, <1>3, <1>4, <1>5, <1>6, <1>7, PickChooses DEF Next, OtherSteps

\* What the disciplines that are kept guarantee of the map.
MapInv ==
    Kept({"early"}) =>
        /\ MarkState
        /\ Kept({"same"}) => SeenNow
        /\ Kept({"reset"}) => LineState

LEMMA MapInvAlways == DisciplineSpec => []MapInv
<1>1. DisciplineInit => MapInv
  <2> SUFFICES ASSUME Init PROVE MarkState /\ SeenNow /\ LineState
    BY DEF DisciplineInit, MapInv
  <2> QED
    BY DEF Init, MarkState, SeenNow, LineState
<1>2. IInv /\ MapInv /\ [DisciplineNext]_<<vars, broken>> => MapInv'
  <2> SUFFICES ASSUME IInv, MapInv, [DisciplineNext]_<<vars, broken>>, Kept({"early"})'
               PROVE  MarkState' /\ (Kept({"same"})' => SeenNow') /\ (Kept({"reset"})' => LineState')
    BY DEF MapInv
  <2>1. CASE DisciplineNext
    <3>1. Next /\ MarkState /\ (Chosen => geocodes = {})
      BY <2>1 DEF DisciplineNext, Kept, MapInv
    <3>2. ASSUME Kept({"same"})' PROVE SeenNow /\ ~(Chosen /\ drawn' = drawn)
      BY <2>1, <3>2 DEF DisciplineNext, Kept, MapInv
    <3>3. ASSUME Kept({"reset"})' PROVE LineState /\ ~(Chosen /\ drawn' = drawn /\ chosen' = Nowhere)
      BY <2>1, <3>3 DEF DisciplineNext, Kept, MapInv
    <3> QED
      BY <3>1, <3>2, <3>3, MarkStep, SeenStep, LineStep
  <2>2. CASE UNCHANGED <<vars, broken>>
    BY <2>2 DEF MapInv, MarkState, SeenNow, LineState, StopsMarked, Filtered, StopsOf, Kept, vars, mapVars
  <2> QED
    BY <2>1, <2>2
<1> QED
  BY <1>1, <1>2, TypesAlways, PTL DEF DisciplineSpec

\* The route in the question has both stops the page goes on with, for any lines and number
\* of choices: as long as no stop is chosen while the geocoder owes answers and no reset
\* leaves markers that remember the departure it took back.
THEOREM RouteFits == DisciplineSpec => []LineFits
<1>1. MapInv => LineFits
  BY DEF MapInv, LineState, LineFits, Kept
<1> QED
  BY <1>1, MapInvAlways, PTL

\* The markers are those of the stops that are shown, one each, and their handlers know the
\* choice that is shown: for any lines, as long as no stop is chosen while the geocoder owes
\* answers and, for what the handlers know, every choice changes the stops that are shown.
THEOREM MarkersDrawn == DisciplineSpec => []MarkersTrue
<1>1. IInv /\ MapInv => MarkersTrue
  <2> SUFFICES ASSUME IInv, MapInv, map = "ready", geocodes = {}, Kept({"early"})
               PROVE  /\ {m.stop : m \in markers} = Filtered(chosen) \cap cache
                      /\ \A m, n \in markers : m.stop = n.stop => m = n
                      /\ Kept({"same"}) => \A m \in markers : m.seen = chosen
    BY DEF MarkersTrue
  <2>1. MarkState /\ (Kept({"same"}) => SeenNow)
    BY DEF MapInv
  <2>2. ASSUME NEW m \in markers, NEW n \in markers, m.stop = n.stop PROVE m = n
    BY <2>1, <2>2 DEF MarkState, IInv, MapTypes, Marker
  <2> QED
    BY <2>1, <2>2 DEF MarkState, StopsMarked, SeenNow
<1> QED
  BY <1>1, MapInvAlways, TypesAlways, PTL

-----------------------------------------------------------------------------
(* Paying *)

\* What no step takes back: rows and sessions exist, and payments are made.
Grows ==
    /\ \A b \in Bookings : status[b] # "None" => status'[b] # "None"
    /\ DOMAIN sessions \subseteq DOMAIN sessions'
    /\ \A s \in DOMAIN sessions :
          /\ sessions'[s].booking = sessions[s].booking
          /\ sessions[s].state = "paid" => sessions'[s].state = "paid"

\* The prices of a finite set of tickets have a sum.
LEMMA SumType ==
    ASSUME NEW S, IsFiniteSet(S)
    PROVE  Sum(S) \in Nat
<1>1. IsFiniteSet({t \in S : t.price = Fare})
  BY FS_Subset
<1> QED
  BY <1>1, FS_CardinalityType, PaymentsAssumption DEF Sum

\* A change of one handler.
LEMMA GoOne ==
    ASSUME req = [q \in Requests |-> req[q]], NEW r \in Requests, NEW h, Go(r, h)
    PROVE  /\ req' = [q \in Requests |-> req'[q]]
           /\ req'[r] = h
           /\ \A q \in Requests : q # r => req'[q] = req[q]
BY DEF Go

\* A new session leaves the others as they are.
LEMMA NewSession ==
    ASSUME sessions \in Seq(Session), NEW x \in Session, sessions' = Append(sessions, x)
    PROVE  /\ sessions' \in Seq(Session)
           /\ DOMAIN sessions' = DOMAIN sessions \cup {Len(sessions) + 1}
           /\ \A s \in DOMAIN sessions : sessions'[s] = sessions[s]
           /\ sessions'[Len(sessions) + 1] = x
BY DEF Session

\* The end of a session changes its state alone.
LEMMA EndSession ==
    ASSUME sessions \in Seq(Session), NEW s \in DOMAIN sessions,
           NEW state \in {"paid", "expired"}, NEW type, End(s, state, type)
    PROVE  /\ sessions' \in Seq(Session)
           /\ DOMAIN sessions' = DOMAIN sessions
           /\ sessions[s].state = "open" /\ sessions'[s].state = state
           /\ \A t \in DOMAIN sessions :
                 /\ sessions'[t].booking = sessions[t].booking
                 /\ t # s => sessions'[t] = sessions[t]
<1>1. sessions' = [sessions EXCEPT ![s].state = state] /\ sessions[s].state = "open"
  BY DEF End
<1>2. [sessions[s] EXCEPT !.state = state] \in Session
  <2>1. sessions[s] \in Session
    OBVIOUS
  <2> QED
    BY <2>1 DEF Session
<1>3. sessions' \in Seq(Session) /\ DOMAIN sessions' = DOMAIN sessions
  BY <1>1, <1>2
<1>4. sessions[s] \in Session
  OBVIOUS
<1>5. sessions'[s] = [sessions[s] EXCEPT !.state = state]
  BY <1>1
<1>6. sessions'[s].state = state /\ sessions'[s].booking = sessions[s].booking
  BY <1>4, <1>5 DEF Session
<1> QED
  BY <1>1, <1>3, <1>6

-----------------------------------------------------------------------------

LEMMA NextGrows ==
    ASSUME TypeOK, HandlerInv, PaymentsNext
    PROVE  Grows
<1> USE DEF TypeOK, stripe, tables
<1>1. CASE UNCHANGED <<status, sessions>>
  BY <1>1 DEF Grows
<1>2. ASSUME NEW r \in Requests, ConfirmAdd(r)
      PROVE  Grows
  <2>1. UNCHANGED sessions
    BY <1>2 DEF ConfirmAdd
  <2>2. \A b \in Bookings : status[b] # "None" => status'[b] # "None"
    BY <1>2 DEF ConfirmAdd
  <2> QED
    BY <2>1, <2>2 DEF Grows
<1>3. ASSUME NEW r \in Requests, Update(r)
      PROVE  Grows
  <2>1. UNCHANGED sessions
    BY <1>3 DEF Update
  <2>2. req[r].status # "None" /\ status' = [status EXCEPT ![req[r].booking] = req[r].status]
    BY <1>3 DEF Update, HandlerInv, HandlerOK
  <2> QED
    BY <2>1, <2>2 DEF Grows
<1>4. ASSUME NEW r \in Requests, CheckoutSession(r)
      PROVE  Grows
  <2> DEFINE x == [booking |-> req[r].booking, amount |-> req[r].amount, state |-> "open"]
  <2>1. UNCHANGED status /\ sessions' = Append(sessions, x)
    BY <1>4 DEF CheckoutSession
  <2>2. x \in Session
    BY <1>4 DEF CheckoutSession, HandlerInv, HandlerOK, At, Session
  <2> HIDE DEF x
  <2>3. /\ DOMAIN sessions' = DOMAIN sessions \cup {Len(sessions) + 1}
        /\ \A s \in DOMAIN sessions : sessions'[s] = sessions[s]
    BY <2>1, <2>2, NewSession
  <2> QED
    BY <2>1, <2>3 DEF Grows
<1>5. CASE Pay
  <2>1. PICK s \in DOMAIN sessions : End(s, "paid", "completed")
    BY <1>5 DEF Pay
  <2>2. UNCHANGED status
    BY <2>1 DEF End
  <2> QED
    BY <2>1, <2>2, EndSession DEF Grows
<1>6. CASE Expire
  <2>1. PICK s \in DOMAIN sessions : End(s, "expired", "expired")
    BY <1>6 DEF Expire
  <2>2. UNCHANGED status
    BY <2>1 DEF End
  <2> QED
    BY <2>1, <2>2, EndSession DEF Grows
<1>7. ASSUME NEW r \in Requests, NewRequest(r) PROVE Grows
  <2>1. UNCHANGED <<status, sessions>>
    BY <1>7 DEF NewRequest, ConfirmAccept, ChildAccept, CanselAccept, CheckoutAccept,
                CancelAccept, PageCancel, Accept
  <2> QED
    BY <2>1, <1>1
<1>8. ASSUME NEW r \in Requests, Handle(r) PROVE Grows
  <2>1. \/ ConfirmAdd(r) \/ Update(r) \/ CheckoutSession(r) \/ UNCHANGED <<status, sessions>>
    BY <1>8 DEF Handle, ConfirmFind, ConfirmTicket, ChildWrite, CanselDelete,
                CheckoutTickets, Reply
  <2> QED
    BY <2>1, <1>1, <1>2, <1>3, <1>4
<1>9. ASSUME NEW r \in Requests, NEW e \in events, Deliver(r, e) PROVE Grows
  BY <1>9, <1>1 DEF Deliver
<1>10. CASE PageList \/ (\E b \in Bookings : PageTickets(b)) \/ Crash
  BY <1>10, <1>1 DEF PageList, PageTickets, Crash
<1> QED
  BY <1>5, <1>6, <1>7, <1>8, <1>9, <1>10 DEF PaymentsNext

\* A payment stays made.
LEMMA PaidStays ==
    ASSUME Grows, NEW b, Paid(b)
    PROVE  Paid(b)'
<1>1. PICK s \in DOMAIN sessions : sessions[s].booking = b /\ sessions[s].state = "paid"
  BY DEF Paid
<1>2. s \in DOMAIN sessions' /\ sessions'[s].booking = b /\ sessions'[s].state = "paid"
  BY <1>1 DEF Grows
<1> QED
  BY <1>2 DEF Paid

\* A handler that did not move is still right.
LEMMA HandlerStays ==
    ASSUME Grows, NEW q \in Requests, HandlerOK(q), req'[q] = req[q]
    PROVE  HandlerOK(q)'
BY PaidStays DEF HandlerOK, At, Grows

\* So the handlers are right when the one that moved is.
LEMMA HandlersStay ==
    ASSUME HandlerInv, Grows, NEW r \in Requests, NEW h, Go(r, h), HandlerOK(r)'
    PROVE  /\ req' = [q \in Requests |-> req'[q]]
           /\ \A q \in Requests : HandlerOK(q)'
<1>1. /\ req' = [q \in Requests |-> req'[q]]
      /\ \A q \in Requests : q # r => req'[q] = req[q]
  BY GoOne DEF HandlerInv
<1>2. ASSUME NEW q \in Requests, q # r PROVE HandlerOK(q)'
  BY <1>1, <1>2, HandlerStays DEF HandlerInv
<1> QED
  BY <1>1, <1>2

-----------------------------------------------------------------------------

LEMMA NextType ==
    ASSUME PaymentsInv, PaymentsNext
    PROVE  TypeOK'
<1> USE DEF PaymentsInv, stripe, tables
<1>1. Grows
  BY NextGrows
<1>2. ASSUME NEW r \in Requests, NEW h, Go(r, h), h.pc \in PCs
      PROVE  \A q \in Requests : req'[q].pc \in PCs
  BY <1>2, GoOne DEF TypeOK, HandlerInv
<1>3. Idle.pc \in PCs
  BY DEF Idle, PCs
<1>4. ASSUME UNCHANGED <<tables, stripe>>, served' \in Nat, crashes' \in Nat,
             page' \in [Bookings -> {"away", "listed", "empty"}],
             \A q \in Requests : req'[q].pc \in PCs
      PROVE  TypeOK'
  BY <1>4 DEF TypeOK, Event
<1>5. ASSUME NEW r \in Requests, NEW h, Accept(r, h), h.pc \in PCs, UNCHANGED page
      PROVE  TypeOK'
  <2>1. \A q \in Requests : req'[q].pc \in PCs
    BY <1>5, <1>2 DEF Accept
  <2> QED
    BY <1>4, <1>5, <2>1 DEF Accept, TypeOK
<1>6. ASSUME NEW r \in Requests, NewRequest(r) PROVE TypeOK'
  <2>1. CASE PageCancel(r)
    <3>1. PICK b \in Bookings :
            /\ Accept(r, [pc |-> "Update", booking |-> b, status |-> "Cancelled", event |-> NoEvent])
            /\ page' = [page EXCEPT ![b] = "away"]
      BY <2>1 DEF PageCancel
    <3>2. \A q \in Requests : req'[q].pc \in PCs
      BY <3>1, <1>2 DEF Accept, PCs
    <3>3. page' \in [Bookings -> {"away", "listed", "empty"}]
      BY <3>1 DEF TypeOK
    <3> QED
      BY <1>4, <3>1, <3>2, <3>3 DEF Accept, TypeOK
  <2>2. CASE ConfirmAccept(r)
    BY <2>2, <1>5 DEF ConfirmAccept, PCs
  <2>3. CASE ChildAccept(r)
    BY <2>3, <1>5 DEF ChildAccept, PCs
  <2>4. CASE CanselAccept(r)
    BY <2>4, <1>5 DEF CanselAccept, PCs
  <2>5. CASE CheckoutAccept(r)
    BY <2>5, <1>5 DEF CheckoutAccept, PCs
  <2>6. CASE CancelAccept(r)
    BY <2>6, <1>5 DEF CancelAccept, PCs
  <2> QED
    BY <1>6, <2>1, <2>2, <2>3, <2>4, <2>5, <2>6 DEF NewRequest
<1>7. ASSUME NEW r \in Requests, Handle(r) PROVE TypeOK'
  <2>1. CASE ConfirmFind(r)
    <3>1. \A q \in Requests : req'[q].pc \in PCs
      BY <2>1, <1>2 DEF ConfirmFind, PCs
    <3> QED
      BY <2>1, <3>1, <1>4 DEF ConfirmFind, TypeOK
  <2>2. CASE ConfirmAdd(r)
    <3>1. \A q \in Requests : req'[q].pc \in PCs
      BY <2>2, <1>2, <1>3 DEF ConfirmAdd, Answer, PCs
    <3>2. status' \in [Bookings -> Statuses]
      BY <2>2 DEF ConfirmAdd, TypeOK, Statuses
    <3> QED
      BY <2>2, <3>1, <3>2, <1>1 DEF ConfirmAdd, TypeOK, Event, Grows, Ticket
  <2>3. CASE ConfirmTicket(r)
    <3>1. \A q \in Requests : req'[q].pc \in PCs
      BY <2>3, <1>2, <1>3 DEF ConfirmTicket, Answer
    <3>2. req[r].booking \in Bookings /\ status[req[r].booking] # "None"
      BY <2>3 DEF ConfirmTicket, At, HandlerInv, HandlerOK
    <3>p. PICK price \in {0, Fare} :
            tickets' = tickets \cup {[id |-> serial, booking |-> req[r].booking, price |-> price]}
      BY <2>3 DEF ConfirmTicket
    <3> DEFINE new == [id |-> serial, booking |-> req[r].booking, price |-> price]
    <3>3. new \in Ticket /\ new.id = serial /\ new.booking = req[r].booking
      BY <3>2 DEF Ticket, TypeOK
    <3>4. tickets' = tickets \cup {new} /\ serial' = serial + 1
      BY <2>3, <3>p DEF ConfirmTicket
    <3> HIDE DEF new
    <3>5. /\ tickets' \subseteq Ticket /\ serial' \in Nat \ {0}
          /\ \A t \in tickets' : t.id < serial' /\ status[t.booking] # "None"
          /\ \A t, u \in tickets' : t.id = u.id => t = u
      <4>1. /\ tickets \subseteq Ticket /\ serial \in Nat \ {0}
            /\ \A t \in tickets : t.id < serial /\ status[t.booking] # "None"
            /\ \A t, u \in tickets : t.id = u.id => t = u
        BY DEF TypeOK
      <4>2. \A t \in tickets : t.id \in Nat
        BY <4>1 DEF Ticket
      <4> QED
        BY <4>1, <4>2, <3>2, <3>3, <3>4
    <3> QED
      BY <2>3, <3>1, <3>5 DEF ConfirmTicket, TypeOK, Event
  <2>4. CASE ChildWrite(r)
    <3>1. \A q \in Requests : req'[q].pc \in PCs
      BY <2>4, <1>2, <1>3 DEF ChildWrite, Answer
    <3> DEFINE f(t) == IF t.id = req[r].id THEN [t EXCEPT !.price = 0] ELSE t
    <3>2. tickets' = {f(t) : t \in tickets}
      BY <2>4 DEF ChildWrite
    <3>3. \A t \in tickets : f(t) \in Ticket /\ f(t).id = t.id /\ f(t).booking = t.booking
      BY DEF TypeOK, Ticket
    <3> HIDE DEF f
    <3>4. /\ tickets' \subseteq Ticket
          /\ \A t \in tickets' : t.id < serial /\ status[t.booking] # "None"
          /\ \A t, u \in tickets' : t.id = u.id => t = u
      BY <3>2, <3>3 DEF TypeOK
    <3> QED
      BY <2>4, <3>1, <3>4 DEF ChildWrite, TypeOK, Event
  <2>5. CASE CanselDelete(r)
    <3>1. \A q \in Requests : req'[q].pc \in PCs
      BY <2>5, <1>2, <1>3 DEF CanselDelete, Answer
    <3> QED
      BY <2>5, <3>1 DEF CanselDelete, TypeOK, Event
  <2>6. CASE CheckoutTickets(r)
    <3>1. \A q \in Requests : req'[q].pc \in PCs
      BY <2>6, <1>2 DEF CheckoutTickets, PCs
    <3> QED
      BY <2>6, <3>1, <1>4 DEF CheckoutTickets, TypeOK
  <2>7. CASE CheckoutSession(r)
    <3>1. \A q \in Requests : req'[q].pc \in PCs
      BY <2>7, <1>2, <1>3 DEF CheckoutSession, Answer
    <3> DEFINE x == [booking |-> req[r].booking, amount |-> req[r].amount, state |-> "open"]
    <3>2. sessions' = Append(sessions, x)
      BY <2>7 DEF CheckoutSession
    <3>3. x \in Session
      BY <2>7 DEF CheckoutSession, HandlerInv, HandlerOK, At, Session
    <3> HIDE DEF x
    <3>4. sessions' \in Seq(Session)
      BY <3>2, <3>3, NewSession DEF TypeOK
    <3>5. events' \subseteq Event'
      BY <2>7, <1>1 DEF CheckoutSession, TypeOK, Event, Grows
    <3> QED
      BY <2>7, <3>1, <3>4, <3>5 DEF CheckoutSession, TypeOK
  <2>8. CASE Update(r)
    <3>1. \A q \in Requests : req'[q].pc \in PCs
      BY <2>8, <1>2, <1>3 DEF Update, PCs
    <3>2. req[r].status \in Statuses /\ req[r].booking \in Bookings
      BY <2>8 DEF Update, At, HandlerInv, HandlerOK, Statuses
    <3>3. status' \in [Bookings -> Statuses]
      BY <2>8, <3>2 DEF Update, TypeOK
    <3> QED
      BY <2>8, <3>1, <3>3, <1>1 DEF Update, TypeOK, Event, Grows, Ticket
  <2>9. CASE Reply(r)
    <3>1. \A q \in Requests : req'[q].pc \in PCs
      BY <2>9, <1>2, <1>3 DEF Reply, Answer
    <3> QED
      BY <2>9, <3>1 DEF Reply, TypeOK, Event
  <2> QED
    BY <1>7, <2>1, <2>2, <2>3, <2>4, <2>5, <2>6, <2>7, <2>8, <2>9 DEF Handle
<1>8. ASSUME NEW r \in Requests, NEW e \in events, Deliver(r, e) PROVE TypeOK'
  <2>1. \A q \in Requests : req'[q].pc \in PCs
    BY <1>8, <1>2 DEF Deliver, PCs
  <2> QED
    BY <1>8, <2>1, <1>4 DEF Deliver, TypeOK
<1>9. ASSUME NEW s \in DOMAIN sessions, NEW state \in {"paid", "expired"},
             NEW type \in {"completed", "expired"}, End(s, state, type)
      PROVE  TypeOK'
  <2>1. sessions' \in Seq(Session) /\ DOMAIN sessions' = DOMAIN sessions
    BY <1>9, EndSession DEF TypeOK
  <2>2. events' \subseteq Event'
    BY <1>9, <2>1 DEF End, TypeOK, Event
  <2> QED
    BY <1>9, <2>1, <2>2 DEF End, TypeOK
<1>10. CASE Pay \/ Expire
  BY <1>9, <1>10 DEF Pay, Expire
<1>11. CASE PageList \/ (\E b \in Bookings : PageTickets(b))
  <2>1. page' \in [Bookings -> {"away", "listed", "empty"}]
    BY <1>11 DEF PageList, PageTickets, TypeOK
  <2> QED
    BY <1>11, <2>1, <1>4 DEF PageList, PageTickets, TypeOK
<1>12. CASE Crash
  <2>1. \A q \in Requests : req'[q].pc \in PCs
    BY <1>12, <1>3 DEF Crash
  <2> QED
    BY <1>12, <2>1, <1>4 DEF Crash, TypeOK
<1> QED
  BY <1>6, <1>7, <1>8, <1>10, <1>11, <1>12 DEF PaymentsNext

-----------------------------------------------------------------------------

LEMMA NextHandlers ==
    ASSUME PaymentsInv, PaymentsNext
    PROVE  /\ req' = [r \in Requests |-> req'[r]]
           /\ \A r \in Requests : HandlerOK(r)'
<1> DEFINE Goal == /\ req' = [r \in Requests |-> req'[r]]
                   /\ \A r \in Requests : HandlerOK(r)'
<1> SUFFICES Goal
  OBVIOUS
<1> USE DEF PaymentsInv, stripe, tables
<1>1. Grows
  BY NextGrows
<1>2. ASSUME NEW r \in Requests, NEW h, Go(r, h), HandlerOK(r)' PROVE Goal
  BY <1>1, <1>2, HandlersStay
<1>3. ASSUME NEW r \in Requests, NEW h, Go(r, h) PROVE req'[r] = h
  BY <1>3, GoOne DEF HandlerInv
<1>4. ASSUME NEW r \in Requests, NEW h, Go(r, h),
             h.pc \in {"idle", "ConfirmFind", "ConfirmAdd", "ChildWrite", "CanselDelete", "Reply"}
      PROVE  Goal
  <2>1. HandlerOK(r)'
    BY <1>3, <1>4 DEF HandlerOK, At
  <2> QED
    BY <1>2, <1>4, <2>1
<1>5. ASSUME NEW r \in Requests, Answer(r) PROVE Goal
  BY <1>4, <1>5 DEF Answer, Idle
<1>6. ASSUME NEW r \in Requests, NEW b \in Bookings, status[b] # "None",
             Go(r, [pc |-> "Update", booking |-> b, status |-> "Cancelled", event |-> NoEvent])
      PROVE  Goal
  <2>1. HandlerOK(r)'
    BY <1>1, <1>3, <1>6 DEF HandlerOK, At, Grows
  <2> QED
    BY <1>2, <1>6, <2>1
<1>7. ASSUME NEW r \in Requests, NEW b \in Bookings, status'[b] # "None",
             \/ Go(r, [pc |-> "ConfirmTicket", booking |-> b])
             \/ Go(r, [pc |-> "CheckoutTickets", booking |-> b])
      PROVE  Goal
  <2>1. HandlerOK(r)'
    BY <1>1, <1>3, <1>7 DEF HandlerOK, At
  <2> QED
    BY <1>2, <1>7, <2>1
<1>8. ASSUME UNCHANGED req PROVE Goal
  BY <1>1, <1>8, HandlerStays DEF HandlerInv
<1>9. ASSUME NEW r \in Requests, NewRequest(r) PROVE Goal
  <2>1. CASE ConfirmAccept(r)
    BY <2>1, <1>4 DEF ConfirmAccept, Accept
  <2>2. CASE ChildAccept(r)
    BY <2>2, <1>4 DEF ChildAccept, Accept
  <2>3. CASE CanselAccept(r)
    BY <2>3, <1>4 DEF CanselAccept, Accept
  <2>4. CASE CheckoutAccept(r)
    <3>1. PICK b \in Bookings : /\ status[b] # "None"
                                /\ Go(r, [pc |-> "CheckoutTickets", booking |-> b])
      BY <2>4 DEF CheckoutAccept, Accept
    <3>2. status'[b] # "None"
      BY <3>1, <1>1 DEF Grows
    <3> QED
      BY <3>1, <3>2, <1>7
  <2>5. CASE CancelAccept(r)
    BY <2>5, <1>6 DEF CancelAccept, Accept
  <2>6. CASE PageCancel(r)
    BY <2>6, <1>6 DEF PageCancel, Accept, HandlerInv
  <2> QED
    BY <1>9, <2>1, <2>2, <2>3, <2>4, <2>5, <2>6 DEF NewRequest
<1>10. ASSUME NEW r \in Requests, Handle(r) PROVE Goal
  <2>1. CASE ConfirmFind(r)
    <3>1. CASE Go(r, [pc |-> "ConfirmAdd"])
      BY <3>1, <1>4
    <3>2. CASE \E b \in Bookings : /\ status[b] = "Selected"
                                   /\ Go(r, [pc |-> "ConfirmTicket", booking |-> b])
      BY <2>1, <3>2, <1>1, <1>7 DEF Grows
    <3> QED
      BY <2>1, <3>1, <3>2 DEF ConfirmFind
  <2>2. CASE ConfirmAdd(r)
    <3>1. CASE Answer(r)
      BY <3>1, <1>5
    <3>2. CASE \E b \in Bookings : /\ status' = [status EXCEPT ![b] = "Selected"]
                                   /\ Go(r, [pc |-> "ConfirmTicket", booking |-> b])
      <4>1. PICK b \in Bookings : /\ status' = [status EXCEPT ![b] = "Selected"]
                                  /\ Go(r, [pc |-> "ConfirmTicket", booking |-> b])
        BY <3>2
      <4>2. status'[b] # "None"
        BY <4>1 DEF TypeOK
      <4> QED
        BY <4>1, <4>2, <1>7
    <3> QED
      BY <2>2, <3>1, <3>2 DEF ConfirmAdd
  <2>3. CASE CheckoutTickets(r)
    <3> DEFINE sum == Sum(TicketsOf(req[r].booking))
    <3>1. IsFiniteSet(TicketsOf(req[r].booking))
      BY FS_Subset DEF TicketsOf, HandlerInv
    <3>2. sum \in Nat
      BY <3>1, SumType
    <3>3. req[r].booking \in Bookings /\ status[req[r].booking] # "None"
      BY <2>3 DEF CheckoutTickets, At, HandlerInv, HandlerOK
    <3>4. Go(r, [pc |-> "CheckoutSession", booking |-> req[r].booking, amount |-> sum])
      BY <2>3 DEF CheckoutTickets
    <3> HIDE DEF sum
    <3>5. HandlerOK(r)'
      BY <3>2, <3>3, <3>4, <1>1, <1>3 DEF HandlerOK, At, Grows
    <3> QED
      BY <3>4, <3>5, <1>2
  <2>4. CASE Update(r)
    <3>1. CASE req[r].event = NoEvent
      BY <2>4, <3>1, <1>5 DEF Update, Answer
    <3>2. CASE req[r].event # NoEvent
      BY <2>4, <3>2, <1>4 DEF Update
    <3> QED
      BY <3>1, <3>2
  <2> QED
    BY <1>10, <1>5, <2>1, <2>2, <2>3, <2>4
    DEF Handle, ConfirmTicket, ChildWrite, CanselDelete, CheckoutSession, Reply
<1>11. ASSUME NEW r \in Requests, NEW e \in events, Deliver(r, e) PROVE Goal
  <2>1. CASE e.type # "completed"
    BY <1>11, <2>1, <1>4 DEF Deliver
  <2>2. CASE e.type = "completed"
    <3>1. e.session \in DOMAIN sessions /\ sessions[e.session].state = "paid"
      <4>1. e \in Event
        BY DEF TypeOK
      <4> QED
        BY <2>2, <4>1 DEF EventInv, Event
    <3>2. PICK b \in Bookings : sessions[e.session].booking = b /\ status[b] # "None"
      <4>1. sessions[e.session] \in Session
        BY <3>1 DEF TypeOK
      <4> QED
        BY <3>1, <4>1 DEF HandlerInv, Session
    <3>3. Paid(b)
      BY <3>1, <3>2 DEF Paid
    <3>4. Paid(b)'
      BY <3>3, <1>1, PaidStays
    <3>5. Go(r, [pc |-> "Update", booking |-> b, status |-> "Booked", event |-> e])
      BY <1>11, <2>2, <3>2 DEF Deliver
    <3>6. status'[b] # "None"
      BY <3>2, <1>1 DEF Grows
    <3> DEFINE h == [pc |-> "Update", booking |-> b, status |-> "Booked", event |-> e]
    <3>7. req'[r] = h
      BY <3>5, <1>3
    <3>8. HandlerOK(r)'
      BY <3>2, <3>4, <3>6, <3>7, <1>11 DEF HandlerOK, At, Deliver
    <3> QED
      BY <3>5, <3>8, <1>2
  <2> QED
    BY <2>1, <2>2
<1>12. CASE Crash
  BY <1>12 DEF Crash, HandlerOK, At, Idle
<1> QED
  BY <1>8, <1>9, <1>10, <1>11, <1>12 DEF PaymentsNext, Pay, Expire, End, PageList, PageTickets

-----------------------------------------------------------------------------

LEMMA NextEvents ==
    ASSUME PaymentsInv, PaymentsNext
    PROVE  EventInv'
<1> USE DEF PaymentsInv
<1>1. Grows
  BY NextGrows
<1>2. CASE events' \subseteq events
  <2>1. ASSUME NEW e \in events', e.type = "completed"
        PROVE  sessions'[e.session].state = "paid"
    <3>1. e \in Event
      BY <1>2 DEF TypeOK
    <3>2. e.session \in DOMAIN sessions /\ sessions[e.session].state = "paid"
      BY <1>2, <2>1, <3>1 DEF EventInv, Event
    <3> QED
      BY <3>2, <1>1 DEF Grows
  <2> QED
    BY <2>1 DEF EventInv
<1>3. ASSUME NEW s \in DOMAIN sessions, NEW state \in {"paid", "expired"}, NEW type,
             End(s, state, type), type = "completed" => state = "paid"
      PROVE  EventInv'
  <2>1. events' = events \cup {[session |-> s, type |-> type]} /\ sessions'[s].state = state
    BY <1>3, EndSession DEF End, TypeOK
  <2>2. ASSUME NEW e \in events, e.type = "completed"
        PROVE  sessions'[e.session].state = "paid"
    <3>1. e \in Event
      BY DEF TypeOK
    <3>2. e.session \in DOMAIN sessions /\ sessions[e.session].state = "paid"
      BY <2>2, <3>1 DEF EventInv, Event
    <3> QED
      BY <3>2, <1>1 DEF Grows
  <2> QED
    BY <1>3, <2>1, <2>2 DEF EventInv
<1>4. CASE Pay \/ Expire
  BY <1>3, <1>4 DEF Pay, Expire
<1>5. ASSUME NEW r \in Requests, NewRequest(r) PROVE EventInv'
  BY <1>2, <1>5 DEF NewRequest, ConfirmAccept, ChildAccept, CanselAccept, CheckoutAccept,
                    CancelAccept, PageCancel, Accept, stripe
<1>6. ASSUME NEW r \in Requests, Handle(r) PROVE EventInv'
  BY <1>2, <1>6 DEF Handle, ConfirmFind, ConfirmAdd, ConfirmTicket, ChildWrite, CanselDelete,
                    CheckoutTickets, CheckoutSession, Update, Reply, stripe
<1> QED
  BY <1>2, <1>4, <1>5, <1>6 DEF PaymentsNext, Deliver, PageList, PageTickets, Crash, stripe

\* Only Update writes a status besides 'Выбран'.
LEMMA NextBooked ==
    ASSUME PaymentsInv, PaymentsNext
    PROVE  BookedIsPaid'
<1> USE DEF PaymentsInv, tables
<1>1. Grows
  BY NextGrows
<1>2. CASE \A b \in Bookings : status'[b] = "Booked" => status[b] = "Booked"
  BY <1>1, <1>2, PaidStays DEF BookedIsPaid
<1>3. ASSUME NEW r \in Requests, Update(r) PROVE BookedIsPaid'
  <2>1. /\ status' = [status EXCEPT ![req[r].booking] = req[r].status]
        /\ req[r].status = "Booked" => Paid(req[r].booking)
    BY <1>3 DEF Update, HandlerInv, HandlerOK
  <2>2. ASSUME NEW b \in Bookings, status'[b] = "Booked" PROVE Paid(b)
    BY <2>1, <2>2 DEF TypeOK, BookedIsPaid
  <2> QED
    BY <2>2, <1>1, PaidStays DEF BookedIsPaid
<1>4. ASSUME NEW r \in Requests, ConfirmAdd(r) PROVE BookedIsPaid'
  BY <1>2, <1>4 DEF ConfirmAdd, TypeOK
<1>5. ASSUME NEW r \in Requests, Handle(r) PROVE BookedIsPaid'
  BY <1>2, <1>3, <1>4, <1>5 DEF Handle, ConfirmFind, ConfirmTicket, ChildWrite, CanselDelete,
                                CheckoutTickets, CheckoutSession, Reply
<1>6. ASSUME NEW r \in Requests, NewRequest(r) PROVE BookedIsPaid'
  BY <1>2, <1>6 DEF NewRequest, ConfirmAccept, ChildAccept, CanselAccept, CheckoutAccept,
                    CancelAccept, PageCancel, Accept
<1> QED
  BY <1>2, <1>5, <1>6 DEF PaymentsNext, Deliver, Pay, Expire, End, PageList, PageTickets, Crash

LEMMA NextRest ==
    ASSUME PaymentsInv, PaymentsNext
    PROVE  /\ IsFiniteSet(tickets')
           /\ \A s \in DOMAIN sessions' : status'[sessions'[s].booking] # "None"
           /\ \A b \in Bookings : page'[b] # "away" => status'[b] # "None"
<1> USE DEF PaymentsInv, tables, stripe
<1>1. Grows
  BY NextGrows
<1>2. IsFiniteSet(tickets')
  <2>1. ASSUME NEW r \in Requests, ConfirmTicket(r) PROVE IsFiniteSet(tickets')
    BY <2>1, FS_AddElement DEF ConfirmTicket, HandlerInv
  <2>2. ASSUME NEW r \in Requests, ChildWrite(r) PROVE IsFiniteSet(tickets')
    <3> DEFINE f == [t \in tickets |-> IF t.id = req[r].id THEN [t EXCEPT !.price = 0] ELSE t]
    <3>1. tickets' = {f[t] : t \in tickets}
      BY <2>2 DEF ChildWrite
    <3>2. f \in Surjection(tickets, tickets')
      BY <3>1 DEF Surjection
    <3> QED
      BY <3>2, FS_Surjection DEF HandlerInv
  <2>3. ASSUME NEW r \in Requests, CanselDelete(r) PROVE IsFiniteSet(tickets')
    <3>1. tickets' \subseteq tickets
      BY <2>3 DEF CanselDelete
    <3> QED
      BY <3>1, FS_Subset DEF HandlerInv
  <2>4. CASE UNCHANGED tickets
    BY <2>4 DEF HandlerInv
  <2>5. ASSUME NEW r \in Requests, Handle(r) PROVE IsFiniteSet(tickets')
    BY <2>1, <2>2, <2>3, <2>4, <2>5
    DEF Handle, ConfirmFind, ConfirmAdd, CheckoutTickets, CheckoutSession, Update, Reply
  <2>6. ASSUME NEW r \in Requests, NewRequest(r) PROVE IsFiniteSet(tickets')
    BY <2>4, <2>6 DEF NewRequest, ConfirmAccept, ChildAccept, CanselAccept, CheckoutAccept,
                      CancelAccept, PageCancel, Accept
  <2> QED
    BY <2>4, <2>5, <2>6 DEF PaymentsNext, Deliver, Pay, Expire, End, PageList, PageTickets, Crash
<1>3. \A s \in DOMAIN sessions' : status'[sessions'[s].booking] # "None"
  <2>1. ASSUME NEW s \in DOMAIN sessions
        PROVE  sessions'[s].booking \in Bookings /\ status'[sessions'[s].booking] # "None"
    <3>1. sessions[s] \in Session
      BY DEF TypeOK
    <3>2. sessions[s].booking \in Bookings /\ status[sessions[s].booking] # "None"
      BY <3>1 DEF Session, HandlerInv
    <3> QED
      BY <3>2, <1>1 DEF Grows
  <2>2. CASE DOMAIN sessions' = DOMAIN sessions
    BY <2>1, <2>2
  <2>3. ASSUME NEW r \in Requests, CheckoutSession(r)
        PROVE  \A s \in DOMAIN sessions' : status'[sessions'[s].booking] # "None"
    <3> DEFINE x == [booking |-> req[r].booking, amount |-> req[r].amount, state |-> "open"]
    <3>1. req[r].booking \in Bookings /\ req[r].amount \in Nat /\ status[x.booking] # "None"
      BY <2>3 DEF CheckoutSession, HandlerInv, HandlerOK, At
    <3>2. x \in Session
      BY <3>1 DEF Session
    <3>3. sessions' = Append(sessions, x) /\ UNCHANGED status
      BY <2>3 DEF CheckoutSession
    <3> HIDE DEF x
    <3>4. /\ DOMAIN sessions' = DOMAIN sessions \cup {Len(sessions) + 1}
          /\ sessions'[Len(sessions) + 1] = x
      BY <3>2, <3>3, NewSession DEF TypeOK
    <3> QED
      BY <3>1, <3>3, <3>4, <2>1
  <2>4. ASSUME NEW r \in Requests, Handle(r)
        PROVE  \A s \in DOMAIN sessions' : status'[sessions'[s].booking] # "None"
    BY <2>2, <2>3, <2>4 DEF Handle, ConfirmFind, ConfirmAdd, ConfirmTicket, ChildWrite,
                            CanselDelete, CheckoutTickets, Update, Reply
  <2>5. ASSUME NEW r \in Requests, NewRequest(r) PROVE DOMAIN sessions' = DOMAIN sessions
    BY <2>5 DEF NewRequest, ConfirmAccept, ChildAccept, CanselAccept, CheckoutAccept,
                CancelAccept, PageCancel, Accept
  <2>6. CASE Pay \/ Expire
    BY <2>2, <2>6, EndSession DEF Pay, Expire, TypeOK
  <2> QED
    BY <2>2, <2>4, <2>5, <2>6 DEF PaymentsNext, Deliver, PageList, PageTickets, Crash
<1>4. \A b \in Bookings : page'[b] # "away" => status'[b] # "None"
  <2>1. CASE UNCHANGED page
    BY <2>1, <1>1 DEF HandlerInv, Grows
  <2>2. CASE PageList
    BY <2>2, <1>1 DEF PageList, Grows
  <2>3. ASSUME NEW b \in Bookings, PageTickets(b)
        PROVE  \A c \in Bookings : page'[c] # "away" => status'[c] # "None"
    BY <2>3, <1>1 DEF PageTickets, HandlerInv, TypeOK, Grows
  <2>4. ASSUME NEW r \in Requests, PageCancel(r)
        PROVE  \A c \in Bookings : page'[c] # "away" => status'[c] # "None"
    BY <2>4, <1>1 DEF PageCancel, HandlerInv, TypeOK, Grows
  <2>5. ASSUME NEW r \in Requests, NewRequest(r)
        PROVE  \A c \in Bookings : page'[c] # "away" => status'[c] # "None"
    BY <2>1, <2>4, <2>5 DEF NewRequest, ConfirmAccept, ChildAccept, CanselAccept,
                            CheckoutAccept, CancelAccept
  <2>6. ASSUME NEW r \in Requests, Handle(r) PROVE UNCHANGED page
    BY <2>6 DEF Handle, ConfirmFind, ConfirmAdd, ConfirmTicket, ChildWrite, CanselDelete,
                CheckoutTickets, CheckoutSession, Update, Reply
  <2> QED
    BY <2>1, <2>2, <2>3, <2>5, <2>6 DEF PaymentsNext, Deliver, Pay, Expire, End, Crash
<1> QED
  BY <1>2, <1>3, <1>4

-----------------------------------------------------------------------------

\* Rows, handlers, sessions and events agree in every state.
THEOREM PaymentInvariant == PaymentsSpec => []PaymentsInv
<1>1. PaymentsInit => PaymentsInv
  <2>1. ASSUME PaymentsInit PROVE TypeOK
    BY <2>1 DEF PaymentsInit, TypeOK, Statuses, Idle, PCs
  <2>2. ASSUME PaymentsInit PROVE HandlerInv /\ EventInv /\ BookedIsPaid
    BY <2>2, FS_EmptySet DEF PaymentsInit, HandlerInv, HandlerOK, At, Idle, EventInv, BookedIsPaid
  <2> QED
    BY <2>1, <2>2 DEF PaymentsInv
<1>2. PaymentsInv /\ [PaymentsNext]_paymentsVars => PaymentsInv'
  <2>1. ASSUME PaymentsInv, PaymentsNext PROVE PaymentsInv'
    <3>1. TypeOK' /\ EventInv' /\ BookedIsPaid'
      BY <2>1, NextType, NextEvents, NextBooked
    <3>2. HandlerInv'
      BY <2>1, NextHandlers, NextRest DEF HandlerInv
    <3> QED
      BY <3>1, <3>2 DEF PaymentsInv
  <2>2. ASSUME PaymentsInv, UNCHANGED paymentsVars PROVE PaymentsInv'
    BY <2>2 DEF paymentsVars, tables, stripe, PaymentsInv, TypeOK, HandlerInv, HandlerOK, At, EventInv,
                BookedIsPaid, Paid, Event
  <2> QED
    BY <2>1, <2>2
<1> QED
  BY <1>1, <1>2, PTL DEF PaymentsSpec

\* Every table and every handler keeps its type, ticket ids are keys, and no ticket
\* is in a booking that does not exist.
THEOREM PaymentTypes == PaymentsSpec => []TypeOK
<1>1. PaymentsInv => TypeOK
  BY DEF PaymentsInv
<1> QED
  BY <1>1, PaymentInvariant, PTL

\* No booking is 'Забронирован' without a session for it that was paid, whatever
\* the webhook deliveries, the client's requests and the page do, and after any crash.
THEOREM BookedPaid == PaymentsSpec => []BookedIsPaid
<1>1. PaymentsInv => BookedIsPaid
  BY DEF PaymentsInv
<1> QED
  BY <1>1, PaymentInvariant, PTL
=============================================================================
