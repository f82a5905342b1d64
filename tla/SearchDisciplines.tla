------------------------- MODULE SearchDisciplines -------------------------
(***************************************************************************)
(* What has to be kept for the search to be true, and what follows.  The   *)
(* code makes nobody keep it: broken records what was not kept, and every  *)
(* behaviour of Search stays.                                              *)
(*   "early"   a stop was chosen while the geocoder still owed answers     *)
(*   "same"    a choice left the stops to show as they were, so that the   *)
(*             markers were not drawn again (MapPage.tsx:63)               *)
(*   "reset"   the choice that left them so was a click beside the markers *)
(*   "dates"   another date was asked for while an answer was outstanding  *)
(*   "office"  the timetable was changed                                   *)
(***************************************************************************)
EXTENDS Search

VARIABLE broken

Chosen == screen = "map" /\ (chosen' # chosen \/ matched' # matched)

DisciplineInit == Init /\ broken = {}

DisciplineNext ==
    /\ Next
    /\ broken' = broken
          \cup (IF Chosen /\ geocodes # {} THEN {"early"} ELSE {})
          \cup (IF Chosen /\ drawn' = drawn THEN {"same"} ELSE {})
          \cup (IF Chosen /\ drawn' = drawn /\ chosen' = Nowhere THEN {"reset"} ELSE {})
          \cup (IF screen = "home" /\ home'.date # home.date /\ fetches # {} THEN {"dates"} ELSE {})
          \cup (IF trips' # trips THEN {"office"} ELSE {})

DisciplineSpec == DisciplineInit /\ [][DisciplineNext]_<<vars, broken>>

Kept(rules) == broken \cap rules = {}

\* 'Выбранные точки лежат на маршруте' (MapPage.tsx:130): the route in the question has both
\* stops the page goes on with, although each marker clicked knew an older choice.  Markers
\* that outlive a reset still know the departure that was reset.
LineFits ==
    modal /\ Kept({"early", "reset"}) => {chosen.from, chosen.to} \subseteq StopsOf(matched)

\* Once the geocoder has answered, the map has one marker for each stop it shows and knows
\* the place of, none left from an earlier choice; and a click on it continues the choice
\* the page shows, so that after 'Выберите точку прибытия' (MapPage.tsx:110) an arrival
\* is chosen.
MarkersTrue ==
    screen = "map" /\ map = "ready" /\ geocodes = {} /\ Kept({"early"}) =>
        /\ {m.stop : m \in markers} = Filtered(chosen) \cap cache
        /\ \A m, n \in markers : m.stop = n.stop => m = n
        /\ Kept({"same"}) => \A m \in markers : m.seen = chosen

\* The list on the home page is that of the date and the stops in its fields, also when
\* it says that there are no trips (Schedule.tsx:118): no answer for another date, and
\* none of the two requests of each change, leaves other trips behind.
TripsShown == Ready /\ Kept({"dates", "office"}) => Listed = Matching(trips)
=============================================================================
