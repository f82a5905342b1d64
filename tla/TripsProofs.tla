---------------------------- MODULE TripsProofs -----------------------------
(***************************************************************************)
(* Theorems about Trips and TripDisciplines, for any number of trips,      *)
(* stops, users, drivers and overlapping requests: no stop is visited      *)
(* twice or lost, trips have drivers, passengers hear of stops that are    *)
(* saved, and completions are counted.                                     *)
(***************************************************************************)
EXTENDS TripDisciplines, FiniteSetTheorems, TLAPS

PCs == {"idle", "OpenBus", "OpenTrips", "OpenPassengers", "ArriveShow", "VisitRead", "VisitWrite",
        "NotifyFind", "NotifySend", "CompleteFind", "CompleteCount", "CompleteWrite",
        "DelayFind", "DelaySend", "PresentFind", "PresentUpdate",
        "DriverFind", "DriverWrite", "DriverMove", "AssignCheck", "AssignWrite",
        "CallFind", "CallInsert", "ReplaceFind", "CallAnswer"}

Handler == [pc: PCs, trip: TripIds \cup {0}, route: Routes \cup {0}, stop: Stops,
            visited: Seq(Stops), rows: SUBSET (Bookings \cup Buses \cup Call),
            who: Users \cup Drivers \cup {None}, bus: Buses \cup {None}, here: BOOLEAN]

\* What a handler remembers for its next statement; a list of stops has none twice.
Good == {h \in Handler :
    /\ h.pc \in {"ArriveShow", "VisitRead", "VisitWrite", "NotifyFind", "NotifySend"} => h.trip \in TripIds
    /\ h.pc \in {"NotifySend", "CompleteCount", "DelaySend", "PresentUpdate"} => h.rows \subseteq Bookings
    /\ h.pc \in {"DriverFind", "DriverWrite", "DriverMove"} => h.who \in Drivers
    /\ h.pc \in {"DriverFind", "DriverWrite", "DriverMove", "AssignCheck", "AssignWrite"} => h.bus \in Buses
    /\ h.pc = "PresentUpdate" => h.who \in Users
    /\ h.pc = "PresentFind" => h.who \in Users
    /\ IsInjective(h.visited)}

TripsOK ==
    /\ trips = [t \in DOMAIN trips |-> trips[t]]
    /\ DOMAIN trips \subseteq TripIds
    /\ \A t \in DOMAIN trips : trips[t] \in Trip

TypeOK ==
    /\ TripsOK
    /\ drivers \in [Drivers -> Buses] /\ calls \subseteq Call
    /\ bookings \in [Bookings -> Booking] /\ counts \in [Users -> Nat]
    /\ told \subseteq Bookings \X TripIds \X Stops
    /\ page \in Page
    /\ req \in [Requests -> Good]
    /\ served \in Nat

IInv == TypeOK /\ NoStopTwice

-----------------------------------------------------------------------------
(* Handlers *)

\* Requests start with the idle handler.
LEMMA IdleGood == Idle \in Good
<1>1. <<>> \in Seq(Stops) /\ IsInjective(<<>>)
  BY DEF IsInjective
<1>2. 0 \in Stops
  BY TripsAssumption DEF Stops
<1> QED
  BY <1>1, <1>2 DEF Idle, Good, Handler, PCs

\* A change of one handler.
LEMMA GoGood ==
    ASSUME req \in [Requests -> Good], NEW r \in Requests, NEW h \in Good, Go(r, h)
    PROVE  req' \in [Requests -> Good]
BY DEF Go

\* A stop that is not in a list can be appended to it.
LEMMA StopAppended ==
    ASSUME NEW s \in Seq(Stops), IsInjective(s), NEW x \in Stops, x \notin ToSet(s)
    PROVE  Append(s, x) \in Seq(Stops) /\ IsInjective(Append(s, x))
<1>1. Append(s, x) \in Seq(Stops)
  OBVIOUS
<1>2. \A k \in DOMAIN s : s[k] # x
  BY DEF ToSet
<1>3. \A i, j \in DOMAIN Append(s, x) : Append(s, x)[i] = Append(s, x)[j] => i = j
  <2>1. DOMAIN Append(s, x) = DOMAIN s \cup {Len(s) + 1}
    OBVIOUS
  <2>2. \A k \in DOMAIN s : Append(s, x)[k] = s[k]
    OBVIOUS
  <2>3. Append(s, x)[Len(s) + 1] = x
    OBVIOUS
  <2> QED
    BY <1>2, <2>1, <2>2, <2>3 DEF IsInjective
<1>4. IsInjective(Append(s, x))
  BY <1>3 DEF IsInjective
<1> QED
  BY <1>1, <1>4

\* A statement that only reads keeps the invariant, and so does a click.
LEMMA ReadInv ==
    ASSUME IInv, NEW r \in Requests, NEW statement, NEW h \in Good, Read(r, statement, h)
    PROVE  IInv'
<1>1. req' \in [Requests -> Good]
  BY GoGood DEF IInv, TypeOK, Read
<1> QED
  BY <1>1 DEF IInv, TypeOK, TripsOK, NoStopTwice, Read, tables

LEMMA RequestInv ==
    ASSUME IInv, NEW r \in Requests, NEW call, NEW h \in Good, Request(r, call, h)
    PROVE  IInv'
<1>1. req' \in [Requests -> Good] /\ served' \in Nat
  BY GoGood DEF IInv, TypeOK, Request, Accept
<1> QED
  BY <1>1 DEF IInv, TypeOK, TripsOK, NoStopTwice, Request, tables

\* The trips stay as they are.
LEMMA SameTrips ==
    ASSUME IInv, UNCHANGED trips
    PROVE  TripsOK' /\ NoStopTwice'
BY DEF IInv, TypeOK, TripsOK, NoStopTwice

\* The handler of a request, with its fields.
LEMMA HandlerGood ==
    ASSUME req \in [Requests -> Good], NEW r \in Requests
    PROVE  req[r] \in Good /\ req[r] \in Handler
BY DEF Good

\* The end of a stop: the trip is finished, or nothing is left to do.
LEMMA FinishGood ==
    ASSUME NEW h \in Good
    PROVE  Finish(h) \in Good
<1>1. <<>> \in Seq(Stops) /\ IsInjective(<<>>) /\ 0 \in Stops
  BY IdleGood DEF Idle, Good, Handler
<1>2. [h EXCEPT !.pc = "CompleteFind", !.stop = 0, !.visited = <<>>, !.rows = {}] \in Good
  <2> DEFINE g == [h EXCEPT !.pc = "CompleteFind", !.stop = 0, !.visited = <<>>, !.rows = {}]
  <2>1. h \in Handler
    BY DEF Good
  <2>2. g \in Handler
    BY <1>1, <2>1 DEF Handler, PCs
  <2>3. g.pc = "CompleteFind" /\ g.visited = <<>>
    BY <2>1 DEF Handler
  <2>4. g.rows = {}
    BY <2>1 DEF Handler
  <2> HIDE DEF g
  <2>5. g \in Good
    BY <1>1, <2>2, <2>3, <2>4 DEF Good
  <2> QED
    BY <2>5 DEF g
<1> QED
  BY <1>2, IdleGood DEF Finish

\* The bookings of a trip are rows a handler may remember.
LEMMA RowsGood ==
    ASSUME NEW t
    PROVE  BookingsOf(t) \subseteq Bookings
BY DEF BookingsOf

-----------------------------------------------------------------------------
(* Clicks *)

LEMMA ClickInv ==
    ASSUME IInv, NEW r \in Requests, Click(r)
    PROVE  IInv'
<1> USE DEF IInv, TypeOK, Page
<1>1. CASE ArriveAccept(r)
  <2>1. PICK s \in Stops : page.trip # 0 /\ Request(r, "arrive",
            [Idle EXCEPT !.pc = "ArriveShow", !.trip = page.trip, !.stop = s])
    BY <1>1 DEF ArriveAccept
  <2>2. [Idle EXCEPT !.pc = "ArriveShow", !.trip = page.trip, !.stop = s] \in Good
    BY <2>1, IdleGood DEF Good, Handler, Idle, PCs
  <2> QED
    BY <2>1, <2>2, RequestInv
<1>2. CASE DelayAccept(r)
  <2>1. [Idle EXCEPT !.pc = "DelayFind", !.trip = page.trip] \in Good
    BY IdleGood DEF Good, Handler, Idle, PCs
  <2> QED
    BY <1>2, <2>1, RequestInv DEF DelayAccept
<1>3. CASE PresentAccept(r)
  <2>1. PICK u \in page.shown \ page.present : Request(r, "present",
            [Idle EXCEPT !.pc = "PresentFind", !.trip = page.trip, !.route = page.route, !.who = u])
    BY <1>3 DEF PresentAccept
  <2>2. [Idle EXCEPT !.pc = "PresentFind", !.trip = page.trip, !.route = page.route, !.who = u] \in Good
    BY IdleGood DEF Good, Handler, Idle, PCs
  <2> QED
    BY <2>1, <2>2, RequestInv
<1>4. CASE CallAccept(r)
  <2>1. [Idle EXCEPT !.pc = "CallFind", !.trip = page.trip] \in Good
    BY IdleGood DEF Good, Handler, Idle, PCs
  <2> QED
    BY <1>4, <2>1, RequestInv DEF CallAccept
<1>5. CASE DriverAccept(r)
  <2>1. PICK d \in Drivers, b \in Buses :
            Request(r, "driver", [Idle EXCEPT !.pc = "DriverFind", !.who = d, !.bus = b])
    BY <1>5 DEF DriverAccept
  <2>2. [Idle EXCEPT !.pc = "DriverFind", !.who = d, !.bus = b] \in Good
    BY IdleGood DEF Good, Handler, Idle, PCs
  <2> QED
    BY <2>1, <2>2, RequestInv
<1>6. CASE AssignAccept(r)
  <2>1. PICK t \in TripIds, b \in Buses :
            Request(r, "assign", [Idle EXCEPT !.pc = "AssignCheck", !.trip = t, !.bus = b])
    BY <1>6 DEF AssignAccept
  <2>2. [Idle EXCEPT !.pc = "AssignCheck", !.trip = t, !.bus = b] \in Good
    BY IdleGood DEF Good, Handler, Idle, PCs
  <2> QED
    BY <2>1, <2>2, RequestInv
<1>7. CASE ReplaceAccept(r)
  <2>1. PICK c \in Waiting :
            Request(r, "replace", [Idle EXCEPT !.pc = "ReplaceFind", !.rows = {c}])
    BY <1>7 DEF ReplaceAccept
  <2>2. c \in Call
    BY DEF Waiting
  <2> DEFINE S == {c}
  <2>3. S \subseteq Call
    BY <2>2
  <2> HIDE DEF S
  <2>4. [Idle EXCEPT !.pc = "ReplaceFind", !.rows = S] \in Good
    BY <2>3, IdleGood DEF Good, Handler, Idle, PCs
  <2> QED
    BY <2>1, <2>4, RequestInv DEF S
<1> QED
  BY <1>1, <1>2, <1>3, <1>4, <1>5, <1>6, <1>7 DEF Click

-----------------------------------------------------------------------------
(* Statements *)

\* The next statement of a handler, with the rows it remembers for it.
LEMMA ThenGood ==
    ASSUME NEW h \in Good, NEW statement \in PCs,
           NEW rows \in SUBSET (Bookings \cup Buses \cup Call),
           statement \in {"ArriveShow", "VisitRead", "VisitWrite", "NotifyFind", "NotifySend"}
               => h.trip \in TripIds,
           statement \in {"NotifySend", "CompleteCount", "DelaySend", "PresentUpdate"}
               => rows \subseteq Bookings,
           statement \in {"DriverFind", "DriverWrite", "DriverMove"} => h.who \in Drivers,
           statement \in {"DriverFind", "DriverWrite", "DriverMove", "AssignCheck", "AssignWrite"}
               => h.bus \in Buses,
           statement \in {"PresentFind", "PresentUpdate"} => h.who \in Users
    PROVE  [[h EXCEPT !.pc = statement] EXCEPT !.rows = rows] \in Good
<1> DEFINE g == [[h EXCEPT !.pc = statement] EXCEPT !.rows = rows]
<1>1. h \in Handler /\ IsInjective(h.visited)
  BY DEF Good
<1>2. g \in Handler
  BY <1>1 DEF Handler
<1>3. /\ g.pc = statement /\ g.rows = rows
      /\ g.trip = h.trip /\ g.visited = h.visited /\ g.who = h.who /\ g.bus = h.bus
  BY <1>1 DEF Handler
<1> HIDE DEF g
<1>4. g \in Good
  BY <1>1, <1>2, <1>3 DEF Good
<1> QED
  BY <1>4 DEF g

\* The same without a change of the rows.
LEMMA NextGood ==
    ASSUME req \in [Requests -> Good], NEW r \in Requests, NEW statement \in PCs,
           statement \in {"ArriveShow", "VisitRead", "VisitWrite", "NotifyFind", "NotifySend"}
               => req[r].trip \in TripIds,
           statement \notin {"NotifySend", "CompleteCount", "DelaySend", "PresentUpdate"},
           statement \in {"DriverFind", "DriverWrite", "DriverMove"} => req[r].who \in Drivers,
           statement \in {"DriverFind", "DriverWrite", "DriverMove", "AssignCheck", "AssignWrite"}
               => req[r].bus \in Buses,
           statement \in {"PresentFind", "PresentUpdate"} => req[r].who \in Users
    PROVE  Then(r, statement) \in Good
<1>1. req[r] \in Good /\ req[r].rows \in SUBSET (Bookings \cup Buses \cup Call)
  BY HandlerGood DEF Handler
<1>2. [[req[r] EXCEPT !.pc = statement] EXCEPT !.rows = req[r].rows] \in Good
  BY <1>1, ThenGood
<1>3. [[req[r] EXCEPT !.pc = statement] EXCEPT !.rows = req[r].rows] = Then(r, statement)
  BY <1>1 DEF Then, Good, Handler
<1> QED
  BY <1>2, <1>3

\* A list of stops a handler is to write, or none any more.
LEMMA VisitedGood ==
    ASSUME NEW h \in Good, NEW visited \in Seq(Stops), IsInjective(visited)
    PROVE  [h EXCEPT !.visited = visited] \in Good
<1> DEFINE g == [h EXCEPT !.visited = visited]
<1>1. h \in Handler
  BY DEF Good
<1>2. g \in Handler
  BY <1>1 DEF Handler
<1>3. /\ g.pc = h.pc /\ g.rows = h.rows /\ g.trip = h.trip /\ g.visited = visited
      /\ g.who = h.who /\ g.bus = h.bus
  BY <1>1 DEF Handler
<1> HIDE DEF g
<1>4. g \in Good
  BY <1>2, <1>3 DEF Good
<1> QED
  BY <1>4 DEF g

\* What the page shows of a trip is of its type.
LEMMA OpenedPage ==
    ASSUME bookings \in [Bookings -> Booking], NEW t \in TripIds \cup {0},
           NEW row, row.route \in Routes \cup {0}, row.visited \in Seq(Stops)
    PROVE  Opened(t, row) \in Page
<1>1. ToSet(row.visited) \subseteq Stops
  BY DEF ToSet
<1>2. \A c \in SUBSET BookingsOf(t) : {bookings[b].user : b \in c} \subseteq Users
  BY RowsGood DEF Booking
<1> QED
  BY <1>1, <1>2 DEF Opened, Page

LEMMA ShowsPage ==
    ASSUME page \in Page, NEW r \in Requests, NEW shown \in Page, Shows(r, shown)
    PROVE  page' \in Page
BY DEF Shows

\* The fetch of the page.
LEMMA OpenInv ==
    ASSUME IInv, NEW r \in Requests, OpenBus(r) \/ OpenTrips(r) \/ OpenPassengers(r)
    PROVE  IInv'
<1> USE DEF IInv, TypeOK
<1>1. req[r] \in Good /\ req[r] \in Handler
  BY HandlerGood
<1>2. CASE OpenBus(r)
  <2>1. Then(r, "OpenTrips") \in Good
    BY NextGood DEF PCs
  <2>2. drivers[Me] \in Buses
    BY TripsAssumption
  <2> DEFINE g == [Then(r, "OpenTrips") EXCEPT !.bus = drivers[Me]]
  <2>3. g \in Handler /\ g.pc = "OpenTrips" /\ IsInjective(g.visited)
    BY <1>1, <2>1, <2>2 DEF Good, Handler, Then
  <2>4. g \in Good
    BY <2>3 DEF Good
  <2> QED
    BY <1>2, <2>4, ReadInv DEF OpenBus
<1>3. CASE OpenTrips(r)
  <2>1. CASE Read(r, "OpenTrips", Idle)
    BY <2>1, IdleGood, ReadInv
  <2>2. ASSUME NEW t \in DOMAIN trips,
               Read(r, "OpenTrips",
                    [Then(r, "OpenPassengers") EXCEPT !.trip = t, !.bus = None,
                         !.route = trips[t].route, !.visited = trips[t].visited])
        PROVE  IInv'
    <3>1. t \in TripIds /\ trips[t].route \in Routes /\ trips[t].visited \in Seq(Stops)
      BY DEF TripsOK, Trip
    <3>2. IsInjective(trips[t].visited)
      BY DEF NoStopTwice
    <3> DEFINE g == [Then(r, "OpenPassengers") EXCEPT !.trip = t, !.bus = None,
                         !.route = trips[t].route, !.visited = trips[t].visited]
    <3>3. Then(r, "OpenPassengers") \in Handler
      BY NextGood DEF PCs, Good
    <3>4. g \in Handler /\ g.pc = "OpenPassengers" /\ g.visited = trips[t].visited
      BY <1>1, <3>1, <3>3 DEF Handler, Then
    <3> HIDE DEF g
    <3>5. g \in Good
      BY <3>2, <3>4 DEF Good
    <3> QED
      BY <2>2, <3>5, ReadInv DEF g
  <2> QED
    BY <1>3, <2>1, <2>2 DEF OpenTrips
<1>4. CASE OpenPassengers(r)
  <2>1. Opened(req[r].trip, req[r]) \in Page
    BY <1>1, OpenedPage DEF Handler
  <2>2. page' \in Page
    BY <1>4, <2>1, ShowsPage DEF OpenPassengers
  <2>3. req' \in [Requests -> Good]
    BY <1>4, IdleGood, GoGood DEF OpenPassengers
  <2>4. TripsOK' /\ NoStopTwice'
    BY <1>4, SameTrips DEF OpenPassengers, tables
  <2> QED
    BY <1>4, <2>2, <2>3, <2>4 DEF OpenPassengers, tables
<1> QED
  BY <1>2, <1>3, <1>4

\* A row of the trips table is rewritten: one trip, or the trips of one bus.
LEMMA RowsInv ==
    ASSUME TripsOK, NoStopTwice, NEW S \in SUBSET DOMAIN trips, NEW row,
           \A t \in S : row[t] \in Trip /\ IsInjective(row[t].visited),
           trips' = [t \in DOMAIN trips |-> IF t \in S THEN row[t] ELSE trips[t]]
    PROVE  TripsOK' /\ NoStopTwice'
BY DEF TripsOK, NoStopTwice

\* Reaching a stop, and the messages about it.
LEMMA ArriveInv ==
    ASSUME IInv, NEW r \in Requests,
           ArriveShow(r) \/ VisitRead(r) \/ VisitWrite(r) \/ NotifyFind(r) \/ NotifySend(r)
    PROVE  IInv'
<1> USE DEF IInv, TypeOK
<1>1. req[r] \in Good /\ req[r] \in Handler /\ req[r].trip \in TripIds
  BY HandlerGood DEF Good, ArriveShow, VisitRead, VisitWrite, NotifyFind, NotifySend, Read, At
<1>2. CASE ArriveShow(r)
  <2>1. [page EXCEPT !.arrived = @ \cup {req[r].stop}] \in Page
    BY <1>1 DEF Page, Handler
  <2>2. page' \in Page
    BY <1>2, <2>1, ShowsPage DEF ArriveShow
  <2>3. Then(r, "VisitRead") \in Good
    BY <1>1, NextGood DEF PCs
  <2>4. req' \in [Requests -> Good]
    BY <1>2, <2>3, GoGood DEF ArriveShow
  <2>5. TripsOK' /\ NoStopTwice'
    BY <1>2, SameTrips DEF ArriveShow, tables
  <2> QED
    BY <1>2, <2>2, <2>4, <2>5 DEF ArriveShow, tables
<1>3. CASE VisitRead(r)
  <2>1. Then(r, "NotifyFind") \in Good
    BY <1>1, NextGood DEF PCs
  <2>2. ASSUME req[r].trip \in DOMAIN trips, req[r].stop \notin ToSet(trips[req[r].trip].visited)
        PROVE  [Then(r, "VisitWrite") EXCEPT
                   !.visited = Append(trips[req[r].trip].visited, req[r].stop)] \in Good
    <3>1. Then(r, "VisitWrite") \in Good
      BY <1>1, NextGood DEF PCs
    <3>2. trips[req[r].trip].visited \in Seq(Stops) /\ IsInjective(trips[req[r].trip].visited)
      BY <2>2 DEF TripsOK, Trip, NoStopTwice
    <3>3. req[r].stop \in Stops
      BY <1>1 DEF Handler
    <3> QED
      BY <2>2, <3>1, <3>2, <3>3, StopAppended, VisitedGood
  <2> QED
    BY <1>3, <2>1, <2>2, ReadInv DEF VisitRead
<1>4. CASE VisitWrite(r)
  <2> DEFINE S == {req[r].trip} \cap DOMAIN trips
             row == [t \in S |-> [trips[t] EXCEPT !.visited = req[r].visited]]
  <2>1. req[r].visited \in Seq(Stops) /\ IsInjective(req[r].visited)
    BY <1>1 DEF Good, Handler
  <2>2. \A t \in S : row[t] \in Trip /\ row[t].visited = req[r].visited
    BY <2>1 DEF TripsOK, Trip
  <2>3. trips' = [t \in DOMAIN trips |-> IF t \in S THEN row[t] ELSE trips[t]]
    BY <1>4 DEF VisitWrite
  <2>4. TripsOK' /\ NoStopTwice'
    <3> HIDE DEF S, row
    <3>1. S \in SUBSET DOMAIN trips
      BY DEF S
    <3> QED
      BY <2>1, <2>2, <2>3, <3>1, RowsInv
  <2>5. Then(r, "NotifyFind") \in Good
    BY <1>1, NextGood DEF PCs
  <2>6. [Then(r, "NotifyFind") EXCEPT !.visited = <<>>] \in Good
    <3>1. <<>> \in Seq(Stops) /\ IsInjective(<<>>)
      BY DEF IsInjective
    <3> QED
      BY <2>5, <3>1, VisitedGood
  <2>7. req' \in [Requests -> Good]
    BY <1>4, <2>6, GoGood DEF VisitWrite
  <2> QED
    BY <1>4, <2>4, <2>7 DEF VisitWrite
<1>5. CASE NotifyFind(r)
  <2> DEFINE rows == {b \in BookingsOf(req[r].trip) : bookings[b].user \in Linked}
  <2>1. rows \subseteq Bookings
    BY RowsGood
  <2>2. Finish(req[r]) \in Good
    BY <1>1, FinishGood
  <2>3. [Then(r, "NotifySend") EXCEPT !.rows = rows] \in Good
    BY <1>1, <2>1, ThenGood DEF PCs, Then
  <2> QED
    BY <1>5, <2>2, <2>3, ReadInv DEF NotifyFind
<1>6. CASE NotifySend(r)
  <2>1. PICK b \in req[r].rows :
            /\ told' \in {told, told \cup {<<b, req[r].trip, req[r].stop>>}}
            /\ Go(r, IF req[r].rows \ {b} = {} THEN Finish(req[r])
                     ELSE [req[r] EXCEPT !.rows = req[r].rows \ {b}])
    BY <1>6 DEF NotifySend
  <2>2. req[r].rows \subseteq Bookings /\ req[r].pc = "NotifySend"
    BY <1>1, <1>6 DEF NotifySend, At, Good
  <2>3. told' \subseteq Bookings \X TripIds \X Stops
    BY <1>1, <2>1, <2>2 DEF Handler
  <2>4. Finish(req[r]) \in Good
    BY <1>1, FinishGood
  <2>5. [req[r] EXCEPT !.rows = req[r].rows \ {b}] \in Good
    <3>1. [[req[r] EXCEPT !.pc = "NotifySend"] EXCEPT !.rows = req[r].rows \ {b}] \in Good
      BY <1>1, <2>2, ThenGood DEF PCs
    <3>2. [req[r] EXCEPT !.pc = "NotifySend"] = req[r]
      BY <1>1, <2>2 DEF Handler
    <3> QED
      BY <3>1, <3>2
  <2>6. req' \in [Requests -> Good]
    BY <2>1, <2>4, <2>5, GoGood
  <2>7. TripsOK' /\ NoStopTwice'
    BY <1>6, SameTrips DEF NotifySend
  <2> QED
    BY <1>6, <2>3, <2>6, <2>7 DEF NotifySend
<1> QED
  BY <1>2, <1>3, <1>4, <1>5, <1>6

\* A handler that takes rows of bookings to its next statement.
LEMMA TakeGood ==
    ASSUME req \in [Requests -> Good], NEW r \in Requests, NEW statement \in PCs,
           statement \in {"CompleteCount", "CompleteWrite", "DelaySend"},
           NEW rows \in SUBSET Bookings
    PROVE  [Then(r, statement) EXCEPT !.rows = rows] \in Good
<1>1. req[r] \in Good
  BY HandlerGood
<1> QED
  BY <1>1, ThenGood DEF Then

\* Completing a trip.
LEMMA CompleteInv ==
    ASSUME IInv, NEW r \in Requests, CompleteFind(r) \/ CompleteCount(r) \/ CompleteWrite(r)
    PROVE  IInv'
<1> USE DEF IInv, TypeOK
<1>1. CASE CompleteFind(r)
  <2> DEFINE rows == BookingsOf(req[r].trip)
             statement == IF rows = {} THEN "CompleteWrite" ELSE "CompleteCount"
  <2>1. rows \in SUBSET Bookings /\ statement \in PCs /\ statement \in {"CompleteCount", "CompleteWrite"}
    BY RowsGood DEF PCs
  <2>2. [Then(r, statement) EXCEPT !.rows = rows] \in Good
    BY <2>1, TakeGood
  <2> QED
    BY <1>1, <2>2, ReadInv DEF CompleteFind
<1>2. CASE CompleteCount(r)
  <2>1. PICK b \in req[r].rows :
            /\ counts' = [counts EXCEPT ![bookings[b].user] = @ + 1]
            /\ Go(r, [Then(r, IF req[r].rows \ {b} = {} THEN "CompleteWrite" ELSE "CompleteCount")
                         EXCEPT !.rows = req[r].rows \ {b}])
    BY <1>2 DEF CompleteCount
  <2>2. req[r].rows \subseteq Bookings
    BY <1>2, HandlerGood DEF CompleteCount, At, Good
  <2>3. counts' \in [Users -> Nat]
    BY <2>1, <2>2 DEF Booking
  <2> DEFINE statement == IF req[r].rows \ {b} = {} THEN "CompleteWrite" ELSE "CompleteCount"
  <2>4. [Then(r, statement) EXCEPT !.rows = req[r].rows \ {b}] \in Good
    BY <2>2, TakeGood DEF PCs
  <2>5. req' \in [Requests -> Good]
    BY <2>1, <2>4, GoGood
  <2>6. TripsOK' /\ NoStopTwice'
    BY <1>2, SameTrips DEF CompleteCount
  <2> QED
    BY <1>2, <2>3, <2>5, <2>6 DEF CompleteCount
<1>3. CASE CompleteWrite(r)
  <2>1. bookings' \in [Bookings -> Booking]
    BY <1>3 DEF CompleteWrite, Booking, Statuses
  <2>2. Finished \in Page
    BY DEF Finished, Page
  <2>3. page' \in Page
    BY <1>3, <2>2, ShowsPage DEF CompleteWrite
  <2>4. req' \in [Requests -> Good]
    BY <1>3, IdleGood, GoGood DEF CompleteWrite
  <2>5. TripsOK' /\ NoStopTwice'
    BY <1>3, SameTrips DEF CompleteWrite
  <2> QED
    BY <1>3, <2>1, <2>3, <2>4, <2>5 DEF CompleteWrite
<1> QED
  BY <1>1, <1>2, <1>3

\* Messages about a delay, and passengers marked as present.
LEMMA PassengerInv ==
    ASSUME IInv, NEW r \in Requests,
           DelayFind(r) \/ DelaySend(r) \/ PresentFind(r) \/ PresentUpdate(r)
    PROVE  IInv'
<1> USE DEF IInv, TypeOK
<1>1. req[r] \in Good
  BY HandlerGood
<1>2. CASE DelayFind(r)
  <2> DEFINE rows == {b \in BookingsOf(req[r].trip) : bookings[b].user \in Linked}
  <2>1. rows \in SUBSET Bookings
    BY RowsGood
  <2>2. [Then(r, "DelaySend") EXCEPT !.rows = rows] \in Good
    BY <2>1, TakeGood DEF PCs
  <2> QED
    BY <1>2, <2>2, IdleGood, ReadInv DEF DelayFind
<1>3. CASE DelaySend(r)
  <2>1. PICK b \in req[r].rows : Read(r, "DelaySend",
            IF req[r].rows = {b} THEN Idle ELSE [req[r] EXCEPT !.rows = @ \ {b}])
    BY <1>3 DEF DelaySend
  <2>2. req[r].pc = "DelaySend" /\ req[r].rows \subseteq Bookings
    BY <1>1, <2>1 DEF Read, At, Good
  <2>3. [Then(r, "DelaySend") EXCEPT !.rows = req[r].rows \ {b}] \in Good
    BY <2>2, TakeGood DEF PCs
  <2>4. [Then(r, "DelaySend") EXCEPT !.rows = req[r].rows \ {b}]
            = [req[r] EXCEPT !.rows = req[r].rows \ {b}]
    BY <1>1, <2>2 DEF Then, Good, Handler
  <2> QED
    BY <2>1, <2>3, <2>4, IdleGood, ReadInv
<1>4. CASE PresentFind(r)
  <2>1. CASE Read(r, "PresentFind", Idle)
    BY <2>1, IdleGood, ReadInv
  <2>2. ASSUME NEW b \in Bookings,
               Read(r, "PresentFind", [Then(r, "PresentUpdate") EXCEPT !.rows = {b}])
        PROVE  IInv'
    <3>1. req[r].who \in Users
      BY <1>1, <2>2 DEF Read, At, Good
    <3>2. [Then(r, "PresentUpdate") EXCEPT !.rows = {b}] \in Good
      BY <1>1, <3>1, ThenGood DEF PCs, Then
    <3> QED
      BY <2>2, <3>2, ReadInv
  <2> QED
    BY <1>4, <2>1, <2>2 DEF PresentFind
<1>5. CASE PresentUpdate(r)
  <2>1. req[r].rows \subseteq Bookings /\ req[r].who \in Users
    BY <1>1, <1>5 DEF PresentUpdate, At, Good
  <2>2. bookings' \in [Bookings -> Booking]
    BY <1>5, <2>1 DEF PresentUpdate, Booking, Statuses
  <2>3. [page EXCEPT !.present = @ \cup {req[r].who}] \in Page
    BY <2>1 DEF Page
  <2>4. page' \in Page
    BY <1>5, <2>3, ShowsPage DEF PresentUpdate
  <2>5. req' \in [Requests -> Good]
    BY <1>5, IdleGood, GoGood DEF PresentUpdate
  <2>6. TripsOK' /\ NoStopTwice'
    BY <1>5, SameTrips DEF PresentUpdate
  <2> QED
    BY <1>5, <2>2, <2>4, <2>5, <2>6 DEF PresentUpdate
<1> QED
  BY <1>2, <1>3, <1>4, <1>5

\* The office: drivers and trips are moved to another bus.
LEMMA OfficeInv ==
    ASSUME IInv, NEW r \in Requests,
           DriverFind(r) \/ DriverWrite(r) \/ DriverMove(r) \/ AssignCheck(r) \/ AssignWrite(r)
    PROVE  IInv'
<1> USE DEF IInv, TypeOK
<1>1. req[r] \in Good /\ req[r] \in Handler /\ req[r].bus \in Buses
  BY HandlerGood DEF DriverFind, DriverWrite, DriverMove, AssignCheck, AssignWrite, Read, At, Good
<1>2. \A S \in SUBSET DOMAIN trips :
          trips' = [t \in DOMAIN trips |->
                       IF t \in S THEN [trips[t] EXCEPT !.bus = req[r].bus] ELSE trips[t]]
          => TripsOK' /\ NoStopTwice'
  <2> SUFFICES ASSUME NEW S \in SUBSET DOMAIN trips,
                      trips' = [t \in DOMAIN trips |->
                          IF t \in S THEN [trips[t] EXCEPT !.bus = req[r].bus] ELSE trips[t]]
               PROVE  TripsOK' /\ NoStopTwice'
    OBVIOUS
  <2> DEFINE row == [t \in S |-> [trips[t] EXCEPT !.bus = req[r].bus]]
  <2>1. \A t \in S : row[t] \in Trip /\ row[t].visited = trips[t].visited
    BY <1>1 DEF TripsOK, Trip
  <2>2. \A t \in S : IsInjective(row[t].visited)
    BY <2>1 DEF NoStopTwice
  <2>3. trips' = [t \in DOMAIN trips |-> IF t \in S THEN row[t] ELSE trips[t]]
    OBVIOUS
  <2> HIDE DEF row
  <2> QED
    BY <2>1, <2>2, <2>3, RowsInv
<1>3. CASE DriverFind(r)
  <2>1. req[r].who \in Drivers
    BY <1>1, <1>3 DEF DriverFind, Read, At, Good
  <2>2. [Then(r, "DriverWrite") EXCEPT !.rows = {drivers[req[r].who]}] \in Good
    <3>1. {drivers[req[r].who]} \in SUBSET (Bookings \cup Buses \cup Call)
      BY <2>1
    <3> QED
      BY <1>1, <2>1, <3>1, ThenGood DEF PCs, Then
  <2> QED
    BY <1>3, <2>2, ReadInv DEF DriverFind
<1>4. CASE DriverWrite(r)
  <2>1. req[r].who \in Drivers
    BY <1>1, <1>4 DEF DriverWrite, At, Good
  <2>2. Then(r, "DriverMove") \in Good
    BY <1>1, <2>1, NextGood DEF PCs
  <2>3. req' \in [Requests -> Good]
    BY <1>4, <2>2, IdleGood, GoGood DEF DriverWrite
  <2>4. TripsOK' /\ NoStopTwice'
    BY <1>4, SameTrips DEF DriverWrite
  <2> QED
    BY <1>1, <1>4, <2>3, <2>4 DEF DriverWrite
<1>5. CASE DriverMove(r)
  <2>1. req' \in [Requests -> Good]
    BY <1>5, IdleGood, GoGood DEF DriverMove
  <2> DEFINE S == {t \in DOMAIN trips : trips[t].bus \in req[r].rows}
  <2>2. trips' = [t \in DOMAIN trips |->
                     IF t \in S THEN [trips[t] EXCEPT !.bus = req[r].bus] ELSE trips[t]]
    BY <1>5 DEF DriverMove
  <2>3. TripsOK' /\ NoStopTwice'
    BY <1>2, <2>2
  <2> QED
    BY <1>5, <2>1, <2>3 DEF DriverMove
<1>6. CASE AssignCheck(r)
  <2>1. Then(r, "AssignWrite") \in Good
    BY <1>1, NextGood DEF PCs
  <2> QED
    BY <1>6, <2>1, IdleGood, ReadInv DEF AssignCheck
<1>7. CASE AssignWrite(r)
  <2>1. req' \in [Requests -> Good]
    BY <1>7, IdleGood, GoGood DEF AssignWrite
  <2> DEFINE S == {t \in DOMAIN trips : t = req[r].trip}
  <2>2. trips' = [t \in DOMAIN trips |->
                     IF t \in S THEN [trips[t] EXCEPT !.bus = req[r].bus] ELSE trips[t]]
    BY <1>7 DEF AssignWrite
  <2>3. TripsOK' /\ NoStopTwice'
    BY <1>2, <2>2
  <2> QED
    BY <1>7, <2>1, <2>3 DEF AssignWrite
<1> QED
  BY <1>3, <1>4, <1>5, <1>6, <1>7

\* Urgent calls.
LEMMA CallInv ==
    ASSUME IInv, NEW r \in Requests,
           CallFind(r) \/ CallInsert(r) \/ ReplaceFind(r) \/ CallAnswer(r)
    PROVE  IInv'
<1> USE DEF IInv, TypeOK
<1>1. CASE CallFind(r)
  <2>1. Then(r, "CallInsert") \in Good
    BY NextGood DEF PCs
  <2> QED
    BY <1>1, <2>1, ReadInv DEF CallFind
<1>2. CASE CallInsert(r)
  <2>1. \A t \in DOMAIN trips : NewCall(t) \in Call
    BY TripsAssumption DEF TripsOK, NewCall, Call
  <2>2. calls' \subseteq Call
    BY <1>2, <2>1 DEF CallInsert
  <2>3. req' \in [Requests -> Good]
    BY <1>2, IdleGood, GoGood DEF CallInsert
  <2>4. TripsOK' /\ NoStopTwice'
    BY <1>2, SameTrips DEF CallInsert
  <2> QED
    BY <1>2, <2>2, <2>3, <2>4 DEF CallInsert
<1>3. CASE ReplaceFind(r)
  <2>1. Then(r, "CallAnswer") \in Good
    BY NextGood DEF PCs
  <2> QED
    BY <1>3, <2>1, ReadInv DEF ReplaceFind
<1>4. CASE CallAnswer(r)
  <2>1. \A c \in Call : [c EXCEPT !.accepted = TRUE] \in Call
    BY DEF Call
  <2>2. calls' \subseteq Call
    BY <1>4, <2>1 DEF CallAnswer
  <2>3. req' \in [Requests -> Good]
    BY <1>4, IdleGood, GoGood DEF CallAnswer
  <2>4. TripsOK' /\ NoStopTwice'
    BY <1>4, SameTrips DEF CallAnswer
  <2> QED
    BY <1>4, <2>2, <2>3, <2>4 DEF CallAnswer
<1> QED
  BY <1>1, <1>2, <1>3, <1>4

-----------------------------------------------------------------------------
(* The invariant *)

LEMMA InitInv == Init => IInv
<1> SUFFICES ASSUME Init PROVE IInv
  OBVIOUS
<1> USE DEF Init
<1>1. drivers \in [Drivers -> Buses]
  OBVIOUS
<1>2. PICK b \in ToSet(drivers), route \in Routes :
          trips = [t \in TripIds |-> [bus |-> b, route |-> route, visited |-> <<>>]]
  OBVIOUS
<1>3. b \in Buses
  BY <1>1, <1>2 DEF ToSet
<1>4. <<>> \in Seq(Stops) /\ IsInjective(<<>>)
  BY DEF IsInjective
<1>5. \A t \in TripIds : trips[t] \in Trip /\ trips[t].visited = <<>>
  BY <1>2, <1>3, <1>4 DEF Trip
<1>6. TripsOK
  BY <1>2, <1>5 DEF TripsOK
<1>7. NoStopTwice
  BY <1>2, <1>4, <1>5 DEF NoStopTwice
<1>8. bookings \in [Bookings -> Booking]
  BY DEF Booking, Statuses
<1>9. page \in Page
  <2>1. Blank \in Page
    BY DEF Blank, Page
  <2>2. \A t \in TripIds : Opened(t, trips[t]) \in Page
    BY <1>5, <1>8, OpenedPage DEF Trip
  <2> QED
    BY <2>1, <2>2
<1> QED
  BY <1>1, <1>6, <1>7, <1>8, <1>9, IdleGood DEF IInv, TypeOK

\* Opening the page, and everything that is one statement.
LEMMA OtherInv ==
    ASSUME IInv, OpenAccept \/ Book \/ Update \/ RemoveTrip \/ RemoveCall \/ Crash
    PROVE  IInv'
<1> USE DEF IInv, TypeOK
<1>1. CASE OpenAccept
  <2>1. Blank \in Page
    BY DEF Blank, Page
  <2>2. [Idle EXCEPT !.pc = "OpenBus"] \in Good
    BY IdleGood DEF Good, Handler, Idle, PCs
  <2>3. \A h \in Good : [h EXCEPT !.here = FALSE] \in Good
    <3> SUFFICES ASSUME NEW h \in Good PROVE [h EXCEPT !.here = FALSE] \in Good
      OBVIOUS
    <3> DEFINE g == [h EXCEPT !.here = FALSE]
    <3>1. h \in Handler
      BY DEF Good
    <3>2. g \in Handler
      BY <3>1 DEF Handler
    <3>3. /\ g.pc = h.pc /\ g.rows = h.rows /\ g.trip = h.trip /\ g.visited = h.visited
          /\ g.who = h.who /\ g.bus = h.bus
      BY <3>1 DEF Handler
    <3> HIDE DEF g
    <3>4. g \in Good
      BY <3>2, <3>3 DEF Good
    <3> QED
      BY <3>4 DEF g
  <2>4. req' \in [Requests -> Good]
    BY <1>1, <2>2, <2>3, IdleGood DEF OpenAccept
  <2>5. TripsOK' /\ NoStopTwice'
    BY <1>1, SameTrips DEF OpenAccept, tables
  <2> QED
    BY <1>1, <2>1, <2>4, <2>5 DEF OpenAccept, tables
<1>2. CASE Book
  <2>1. bookings' \in [Bookings -> Booking]
    BY <1>2 DEF Book, Booking, Statuses
  <2>2. TripsOK' /\ NoStopTwice'
    BY <1>2, SameTrips DEF Book
  <2> QED
    BY <1>2, <2>1, <2>2 DEF Book
<1>3. CASE Update
  <2>1. bookings' \in [Bookings -> Booking] /\ counts' \in [Users -> Nat]
    BY <1>3 DEF Update, Booking, Statuses
  <2>2. TripsOK' /\ NoStopTwice'
    BY <1>3, SameTrips DEF Update
  <2> QED
    BY <1>3, <2>1, <2>2 DEF Update
<1>4. CASE RemoveTrip
  <2>1. PICK t \in DOMAIN trips : trips' = [u \in DOMAIN trips \ {t} |-> trips[u]]
    BY <1>4 DEF RemoveTrip, Restrict
  <2>2. TripsOK' /\ NoStopTwice'
    BY <2>1 DEF TripsOK, NoStopTwice
  <2> QED
    BY <1>4, <2>2 DEF RemoveTrip
<1>5. CASE Crash
  <2>1. req' \in [Requests -> Good]
    BY <1>5, HandlerGood, FinishGood, IdleGood DEF Crash
  <2>2. TripsOK' /\ NoStopTwice'
    BY <1>5, SameTrips DEF Crash, tables
  <2> QED
    BY <1>5, <2>1, <2>2 DEF Crash, tables
<1>6. CASE RemoveCall
  <2>1. TripsOK' /\ NoStopTwice'
    BY <1>6, SameTrips DEF RemoveCall
  <2> QED
    BY <1>6, <2>1 DEF RemoveCall
<1> QED
  BY <1>1, <1>2, <1>3, <1>4, <1>5, <1>6

LEMMA NextInv == IInv /\ [Next]_vars => IInv'
<1> SUFFICES ASSUME IInv, [Next]_vars PROVE IInv'
  OBVIOUS
<1>1. CASE UNCHANGED vars
  BY <1>1 DEF IInv, TypeOK, TripsOK, NoStopTwice, vars, tables
<1>2. CASE OpenAccept \/ Book \/ Update \/ RemoveTrip \/ RemoveCall \/ Crash
  BY <1>2, OtherInv
<1>3. ASSUME NEW r \in Requests, Click(r)
      PROVE  IInv'
  BY <1>3, ClickInv
<1>4. ASSUME NEW r \in Requests, Handle(r)
      PROVE  IInv'
  BY <1>4, OpenInv, ArriveInv, CompleteInv, PassengerInv, OfficeInv, CallInv DEF Handle
<1> QED
  BY <1>1, <1>2, <1>3, <1>4 DEF Next

\* Rows, handlers and pages keep their types, and no trip has a stop twice in
\* visited_stops, through every overlap of calls and every crash.
THEOREM TripsInvariant == Spec => []IInv
  BY InitInv, NextInv, PTL DEF Spec

\* The check of addVisitedStop ('if (!visited.includes(stopId))') and its write are two
\* statements, and still no stop is stored twice: the list that is written was
\* read and extended as a whole.
THEOREM StopsVisitedOnce == Spec => []NoStopTwice
<1>1. IInv => NoStopTwice
  BY DEF IInv
<1> QED
  BY <1>1, TripsInvariant, PTL

-----------------------------------------------------------------------------
(* Stops that stay *)

\* No list of stops is about to be written that was not before.
StillWriting == \A q \in Requests : At(q, "VisitWrite")' =>
    At(q, "VisitWrite") /\ req'[q].trip = req[q].trip /\ req'[q].visited = req[q].visited

SameVisited == /\ DOMAIN trips' \subseteq DOMAIN trips
               /\ \A t \in DOMAIN trips' : trips'[t].visited = trips[t].visited

\* A handler that is not about to write a list.
LEMMA GoStill ==
    ASSUME req \in [Requests -> Good], NEW r \in Requests, NEW h, Go(r, h), h.pc # "VisitWrite"
    PROVE  StillWriting
BY DEF Go, StillWriting, At

\* What Then makes of the statement.
LEMMA ThenPc ==
    ASSUME req \in [Requests -> Good], NEW r \in Requests, NEW statement
    PROVE  /\ Then(r, statement).pc = statement
           /\ \A rows : [Then(r, statement) EXCEPT !.rows = rows].pc = statement
           /\ \A b : [Then(r, statement) EXCEPT !.bus = b].pc = statement
           /\ \A v : [Then(r, statement) EXCEPT !.visited = v].pc = statement
           /\ \A v : [Then(r, statement) EXCEPT !.visited = v].visited = v
           /\ \A v : [Then(r, statement) EXCEPT !.visited = v].trip = req[r].trip
           /\ \A t, n, s, v : [Then(r, statement) EXCEPT !.trip = t, !.bus = n,
                                  !.route = s, !.visited = v].pc = statement
BY HandlerGood DEF Then, Handler

\* Only addVisitedStop changes the lists of stops and prepares such a change.
LEMMA ClickStill ==
    ASSUME IInv, NEW r \in Requests, Click(r)
    PROVE  StillWriting /\ SameVisited
<1>1. PICK h : Go(r, h) /\ h.pc # "VisitWrite" /\ UNCHANGED trips
  <2> USE DEF Click, Request, Accept, tables, Idle
  <2>1. CASE ArriveAccept(r)
    BY <2>1 DEF ArriveAccept
  <2>2. CASE DelayAccept(r)
    BY <2>2 DEF DelayAccept
  <2>3. CASE PresentAccept(r)
    BY <2>3 DEF PresentAccept
  <2>4. CASE CallAccept(r)
    BY <2>4 DEF CallAccept
  <2>5. CASE DriverAccept(r)
    BY <2>5 DEF DriverAccept
  <2>6. CASE AssignAccept(r)
    BY <2>6 DEF AssignAccept
  <2>7. CASE ReplaceAccept(r)
    BY <2>7 DEF ReplaceAccept
  <2> QED
    BY <2>1, <2>2, <2>3, <2>4, <2>5, <2>6, <2>7
<1> QED
  BY <1>1, GoStill DEF IInv, TypeOK, SameVisited

LEMMA HandleStill ==
    ASSUME IInv, NEW r \in Requests, Handle(r), ~VisitRead(r), ~VisitWrite(r)
    PROVE  StillWriting /\ SameVisited
<1> USE DEF IInv, TypeOK
<1>1. /\ Idle.pc # "VisitWrite"
      /\ Finish(req[r]).pc # "VisitWrite"
      /\ req[r].pc # "VisitWrite" =>
            \A rows : [req[r] EXCEPT !.rows = rows].pc # "VisitWrite"
  BY HandlerGood DEF Idle, Finish, Handler
<1>2. ASSUME NEW h, Go(r, h), h.pc # "VisitWrite", SameVisited
      PROVE  StillWriting /\ SameVisited
  BY <1>2, GoStill
<1>3. CASE UNCHANGED trips
  <2>1. SameVisited
    BY <1>3 DEF SameVisited
  <2> SUFFICES StillWriting
    BY <2>1
  <2>2. ASSUME NEW statement, statement # "VisitWrite", NEW rows,
               Go(r, [Then(r, statement) EXCEPT !.rows = rows])
        PROVE  StillWriting
    <3>1. [Then(r, statement) EXCEPT !.rows = rows].pc = statement
      BY ThenPc
    <3> QED
      BY <2>2, <3>1, GoStill
  <2>3. ASSUME NEW statement, statement # "VisitWrite", Go(r, Then(r, statement))
        PROVE  StillWriting
    BY <2>3, ThenPc, GoStill
  <2>4. ASSUME Go(r, Idle) \/ Go(r, Finish(req[r]))
        PROVE  StillWriting
    BY <2>4, <1>1, GoStill
  <2>5. CASE OpenBus(r)
    <3>1. Go(r, [Then(r, "OpenTrips") EXCEPT !.bus = drivers[Me]])
      BY <2>5 DEF OpenBus, Read
    <3>2. [Then(r, "OpenTrips") EXCEPT !.bus = drivers[Me]].pc # "VisitWrite"
      BY ThenPc
    <3> QED
      BY <3>1, <3>2, GoStill
  <2>6. CASE OpenTrips(r)
    <3>1. CASE Go(r, Idle)
      BY <3>1, <2>4
    <3>2. ASSUME NEW t \in DOMAIN trips,
                 Go(r, [Then(r, "OpenPassengers") EXCEPT !.trip = t, !.bus = None,
                           !.route = trips[t].route, !.visited = trips[t].visited])
          PROVE  StillWriting
      <4>1. [Then(r, "OpenPassengers") EXCEPT !.trip = t, !.bus = None,
                !.route = trips[t].route, !.visited = trips[t].visited].pc # "VisitWrite"
        BY ThenPc
      <4> QED
        BY <3>2, <4>1, GoStill
    <3> QED
      BY <2>6, <3>1, <3>2 DEF OpenTrips, Read
  <2>7. CASE OpenPassengers(r)
    BY <2>7, <2>4 DEF OpenPassengers, Read
  <2>8. CASE ArriveShow(r)
    BY <2>8, <2>3 DEF ArriveShow, Read
  <2>9. CASE NotifyFind(r)
    <3>1. CASE Go(r, Finish(req[r]))
      BY <3>1, <2>4
    <3>2. ASSUME NEW rows, Go(r, [Then(r, "NotifySend") EXCEPT !.rows = rows])
          PROVE  StillWriting
      BY <3>2, <2>2
    <3> QED
      BY <2>9, <3>1, <3>2 DEF NotifyFind, Read
  <2>10. CASE NotifySend(r)
    <3>1. PICK b : Go(r, IF req[r].rows \ {b} = {} THEN Finish(req[r])
                         ELSE [req[r] EXCEPT !.rows = req[r].rows \ {b}])
      BY <2>10 DEF NotifySend
    <3> QED
      BY <2>10, <1>1, <2>4, <3>1, GoStill DEF NotifySend, At
  <2>11. CASE CompleteFind(r)
    <3> DEFINE rows == BookingsOf(req[r].trip)
               statement == IF rows = {} THEN "CompleteWrite" ELSE "CompleteCount"
    <3>1. Go(r, [Then(r, statement) EXCEPT !.rows = rows])
      BY <2>11 DEF CompleteFind, Read
    <3>2. statement # "VisitWrite"
      OBVIOUS
    <3> HIDE DEF rows, statement
    <3> QED
      BY <2>2, <3>1, <3>2
  <2>12. CASE CompleteCount(r)
    <3>1. PICK b : Go(r, [Then(r, IF req[r].rows \ {b} = {} THEN "CompleteWrite" ELSE "CompleteCount")
                             EXCEPT !.rows = req[r].rows \ {b}])
      BY <2>12 DEF CompleteCount
    <3> DEFINE statement == IF req[r].rows \ {b} = {} THEN "CompleteWrite" ELSE "CompleteCount"
    <3>2. Go(r, [Then(r, statement) EXCEPT !.rows = req[r].rows \ {b}])
      BY <3>1
    <3>3. statement # "VisitWrite"
      OBVIOUS
    <3> HIDE DEF statement
    <3> QED
      BY <2>2, <3>2, <3>3
  <2>13. CASE CompleteWrite(r)
    BY <2>13, <2>4 DEF CompleteWrite, Read
  <2>14. CASE DelayFind(r)
    <3>1. CASE Go(r, Idle)
      BY <3>1, <2>4
    <3>2. ASSUME NEW rows, Go(r, [Then(r, "DelaySend") EXCEPT !.rows = rows])
          PROVE  StillWriting
      BY <3>2, <2>2
    <3> QED
      BY <2>14, <3>1, <3>2 DEF DelayFind, Read
  <2>15. CASE DelaySend(r)
    <3>1. PICK b : Go(r, IF req[r].rows = {b} THEN Idle
                         ELSE [req[r] EXCEPT !.rows = @ \ {b}])
      BY <2>15 DEF DelaySend, Read
    <3> QED
      BY <2>15, <1>1, <2>4, <3>1, GoStill DEF DelaySend, Read, At
  <2>16. CASE PresentFind(r)
    <3>1. CASE Go(r, Idle)
      BY <3>1, <2>4
    <3>2. ASSUME NEW rows, Go(r, [Then(r, "PresentUpdate") EXCEPT !.rows = rows])
          PROVE  StillWriting
      BY <3>2, <2>2
    <3> QED
      BY <2>16, <3>1, <3>2 DEF PresentFind, Read
  <2>17. CASE PresentUpdate(r)
    BY <2>17, <2>4 DEF PresentUpdate, Read
  <2>18. CASE DriverFind(r)
    BY <2>18, <2>2 DEF DriverFind, Read
  <2>19. CASE DriverWrite(r)
    BY <2>19, <2>3, <2>4 DEF DriverWrite, Read
  <2>20. CASE AssignCheck(r)
    BY <2>20, <2>3, <2>4 DEF AssignCheck, Read
  <2>21. CASE CallFind(r)
    BY <2>21, <2>3 DEF CallFind, Read
  <2>22. CASE CallInsert(r)
    BY <2>22, <2>4 DEF CallInsert, Read
  <2>23. CASE ReplaceFind(r)
    BY <2>23, <2>3 DEF ReplaceFind, Read
  <2>24. CASE CallAnswer(r)
    BY <2>24, <2>4 DEF CallAnswer, Read
  <2>25. CASE DriverMove(r)
    BY <2>25, <2>4 DEF DriverMove, Read
  <2>26. CASE AssignWrite(r)
    BY <2>26, <2>4 DEF AssignWrite, Read
  <2> QED
    BY <2>1, <2>5, <2>6, <2>7, <2>8, <2>9, <2>10, <2>11, <2>12, <2>13, <2>14,
       <2>15, <2>16, <2>17, <2>18, <2>19, <2>20, <2>21, <2>22, <2>23, <2>24,
       <2>25, <2>26 DEF Handle
<1>4. CASE DriverMove(r) \/ AssignWrite(r)
  <2>1. SameVisited
    BY <1>4 DEF DriverMove, AssignWrite, SameVisited, TripsOK, Trip
  <2> QED
    BY <1>1, <1>2, <1>4, <2>1 DEF DriverMove, AssignWrite
<1>5. UNCHANGED trips \/ DriverMove(r) \/ AssignWrite(r)
  BY DEF Handle, OpenBus, OpenTrips, OpenPassengers, ArriveShow, NotifyFind, NotifySend,
         CompleteFind, CompleteCount, CompleteWrite, DelayFind, DelaySend, PresentFind,
         PresentUpdate, DriverFind, DriverWrite, AssignCheck, CallFind, CallInsert,
         ReplaceFind, CallAnswer, Read, tables
<1> QED
  BY <1>3, <1>4, <1>5

LEMMA OtherStill ==
    ASSUME IInv, OpenAccept \/ Book \/ Update \/ RemoveTrip \/ RemoveCall \/ Crash
    PROVE  StillWriting /\ SameVisited
<1> USE DEF IInv, TypeOK
<1>1. CASE OpenAccept
  <2>1. \A h \in Handler : LET g == [h EXCEPT !.here = FALSE] IN
            g.pc = h.pc /\ g.trip = h.trip /\ g.visited = h.visited
    BY DEF Handler
  <2>2. [Idle EXCEPT !.pc = "OpenBus"].pc = "OpenBus" /\ Idle.pc = "idle"
    BY DEF Idle
  <2>3. StillWriting
    BY <1>1, <2>1, <2>2, HandlerGood DEF OpenAccept, StillWriting, At
  <2> QED
    BY <1>1, <2>3 DEF OpenAccept, SameVisited, tables
<1>2. CASE Book \/ Update \/ RemoveCall
  BY <1>2 DEF Book, Update, RemoveCall, StillWriting, SameVisited, At
<1>3. CASE RemoveTrip
  <2>1. PICK t \in DOMAIN trips : trips' = [u \in DOMAIN trips \ {t} |-> trips[u]]
    BY <1>3 DEF RemoveTrip, Restrict
  <2> QED
    BY <1>3, <2>1 DEF RemoveTrip, StillWriting, SameVisited, At
<1>4. CASE Crash
  <2>1. \A h \in Handler : Finish(h).pc # "VisitWrite"
    BY DEF Finish, Handler, Idle
  <2>2. Idle.pc # "VisitWrite"
    BY DEF Idle
  <2>3. StillWriting
    BY <1>4, <2>1, <2>2, HandlerGood DEF Crash, StillWriting, At
  <2> QED
    BY <1>4, <2>3 DEF Crash, SameVisited, tables
<1> QED
  BY <1>1, <1>2, <1>3, <1>4

\* Every list that is about to be written is the stored one and one stop more.
Extending == \A q \in Requests : At(q, "VisitWrite") /\ req[q].trip \in DOMAIN trips =>
    \E x \in Stops : req[q].visited = Append(trips[req[q].trip].visited, x)

StopInv == Kept({"visit"}) => OneVisit /\ Extending

\* Where no two lists are written at the same time, a list is written by one handler.
LEMMA OneWriter ==
    ASSUME OneVisit, NEW q \in Requests, NEW r \in Requests, At(q, "VisitWrite"), At(r, "VisitWrite"),
           req[q].trip = req[r].trip, req[r].trip \in TripIds
    PROVE  q = r
<1> DEFINE V == Visiting(req[r].trip)
<1>1. q \in V /\ r \in V
  BY DEF Visiting
<1>2. IsFiniteSet(V)
  BY FS_Subset, TripsAssumption DEF Visiting
<1>3. Cardinality(V) \in Nat /\ Cardinality(V) <= 1
  BY <1>2, FS_CardinalityType DEF OneVisit
<1> HIDE DEF V
<1>4. Cardinality(V) # 0
  BY <1>1, <1>2, FS_EmptySet
<1>5. Cardinality(V) = 1
  BY <1>3, <1>4
<1>6. \E x : V = {x}
  BY <1>2, <1>5, FS_Singleton
<1> QED
  BY <1>1, <1>6

LEMMA PrefixSame ==
    ASSUME NEW s \in Seq(Stops)
    PROVE  IsPrefix(s, s) /\ \A x \in Stops : IsPrefix(s, Append(s, x))
BY DEF IsPrefix

LEMMA StopInit == DisciplineInit => StopInv
<1> SUFFICES ASSUME DisciplineInit PROVE OneVisit /\ Extending
  BY DEF StopInv
<1>1. \A r \in Requests : ~At(r, "VisitWrite")
  BY DEF DisciplineInit, Init, At, Idle
<1>2. \A t \in TripIds : Visiting(t) = {}
  BY <1>1 DEF Visiting
<1>3. OneVisit
  BY <1>2, FS_EmptySet DEF OneVisit
<1> QED
  BY <1>1, <1>3 DEF Extending

\* One step, as long as no two lists have been written at the same time.
LEMMA StopStep ==
    ASSUME IInv, StopInv, Next, broken' = broken \cup Breaks, Kept({"visit"})'
    PROVE  /\ OneVisit' /\ Extending'
           /\ \A t \in DOMAIN trips \cap DOMAIN trips' : IsPrefix(trips[t].visited, trips'[t].visited)
<1> USE DEF IInv, TypeOK
<1>1. OneVisit /\ Extending /\ OneVisit'
  <2>1. "visit" \notin broken'
    BY DEF Kept
  <2>2. Kept({"visit"})
    BY <2>1 DEF Kept
  <2>3. ~OneVisit' => "visit" \in Breaks
    BY DEF Breaks
  <2> QED
    BY <2>1, <2>2, <2>3 DEF StopInv
<1>2. \A t \in DOMAIN trips : trips[t].visited \in Seq(Stops)
  BY DEF TripsOK, Trip
<1>3. CASE StillWriting /\ SameVisited
  <2>1. Extending'
    BY <1>1, <1>3 DEF Extending, StillWriting, SameVisited, At
  <2>2. \A t \in DOMAIN trips \cap DOMAIN trips' : IsPrefix(trips[t].visited, trips'[t].visited)
    BY <1>2, <1>3, PrefixSame DEF SameVisited
  <2> QED
    BY <1>1, <2>1, <2>2
<1>4. ASSUME NEW r \in Requests, VisitRead(r)
      PROVE  Extending' /\ UNCHANGED trips
  <2>1. UNCHANGED trips /\ \A q \in Requests \ {r} : req'[q] = req[q]
    BY <1>4 DEF VisitRead, Read, Go, tables
  <2>2. req'[r].pc = "VisitWrite" =>
            /\ req'[r].trip = req[r].trip /\ req[r].trip \in DOMAIN trips
            /\ req'[r].visited = Append(trips[req[r].trip].visited, req[r].stop)
    <3> DEFINE g == [Then(r, "VisitWrite") EXCEPT
                         !.visited = Append(trips[req[r].trip].visited, req[r].stop)]
    <3>1. g.trip = req[r].trip /\ g.visited = Append(trips[req[r].trip].visited, req[r].stop)
      BY ThenPc
    <3>2. Then(r, "NotifyFind").pc = "NotifyFind"
      BY ThenPc
    <3>3. req'[r] = IF /\ req[r].trip \in DOMAIN trips
                       /\ req[r].stop \notin ToSet(trips[req[r].trip].visited)
                    THEN g ELSE Then(r, "NotifyFind")
      BY <1>4 DEF VisitRead, Read, Go
    <3> HIDE DEF g
    <3> QED
      BY <3>1, <3>2, <3>3
  <2>3. req[r].stop \in Stops
    BY HandlerGood DEF Handler
  <2> QED
    BY <1>1, <2>1, <2>2, <2>3 DEF Extending, At
<1>5. ASSUME NEW r \in Requests, VisitWrite(r)
      PROVE  /\ Extending'
             /\ \A t \in DOMAIN trips \cap DOMAIN trips' :
                    IsPrefix(trips[t].visited, trips'[t].visited)
  <2>1. At(r, "VisitWrite") /\ req[r].trip \in TripIds
    BY <1>5, HandlerGood DEF VisitWrite, At, Good
  <2>2. \A q \in Requests : At(q, "VisitWrite")' => q # r /\ req'[q] = req[q]
    <3>1. [Then(r, "NotifyFind") EXCEPT !.visited = <<>>].pc = "NotifyFind"
      BY ThenPc
    <3> QED
      BY <1>5, <3>1 DEF VisitWrite, Go, At
  <2>3. /\ DOMAIN trips' = DOMAIN trips
        /\ \A t \in DOMAIN trips :
               trips'[t].visited = IF t = req[r].trip THEN req[r].visited ELSE trips[t].visited
    BY <1>5 DEF VisitWrite, TripsOK, Trip
  <2>4. Extending'
    <3> SUFFICES ASSUME NEW q \in Requests, At(q, "VisitWrite")', req'[q].trip \in DOMAIN trips'
                 PROVE  \E x \in Stops : req'[q].visited = Append(trips'[req'[q].trip].visited, x)
      BY DEF Extending, At
    <3>1. q # r /\ req'[q] = req[q] /\ At(q, "VisitWrite")
      BY <2>2 DEF At
    <3>2. req[q].trip # req[r].trip
      BY <1>1, <2>1, <3>1, OneWriter
    <3>3. PICK x \in Stops : req[q].visited = Append(trips[req[q].trip].visited, x)
      BY <1>1, <2>3, <3>1 DEF Extending
    <3> QED
      BY <2>3, <3>1, <3>2, <3>3
  <2>5. \A t \in DOMAIN trips : IsPrefix(trips[t].visited, trips'[t].visited)
    <3> SUFFICES ASSUME NEW t \in DOMAIN trips
                 PROVE  IsPrefix(trips[t].visited, trips'[t].visited)
      OBVIOUS
    <3>1. CASE t = req[r].trip
      <4>1. PICK x \in Stops : req[r].visited = Append(trips[t].visited, x)
        BY <1>1, <2>1, <3>1 DEF Extending
      <4> QED
        BY <1>2, <2>3, <3>1, <4>1, PrefixSame
    <3>2. CASE t # req[r].trip
      BY <1>2, <2>3, <3>2, PrefixSame
    <3> QED
      BY <3>1, <3>2
  <2> QED
    BY <2>4, <2>5
<1>6. \/ StillWriting /\ SameVisited
      \/ \E r \in Requests : VisitRead(r) \/ VisitWrite(r)
  BY ClickStill, HandleStill, OtherStill DEF Next
<1>7. CASE \E r \in Requests : VisitRead(r)
  BY <1>1, <1>2, <1>4, <1>7, PrefixSame
<1> QED
  BY <1>1, <1>3, <1>5, <1>6, <1>7

\* A stop once reached stays reached, and in its place, for any number of trips,
\* stops and clicks, as long as no two stops of a trip are saved at the same
\* time: the only way in which 'visited_stops' can lose one.
THEOREM StopsStay == DisciplineSpec => StopsKept
<1> DEFINE step == Next /\ broken' = broken \cup Breaks
           kept == Kept({"visit"})' =>
               \A t \in DOMAIN trips \cap DOMAIN trips' : IsPrefix(trips[t].visited, trips'[t].visited)
<1>1. DisciplineInit => IInv /\ StopInv
  BY InitInv, StopInit DEF DisciplineInit
<1>2. IInv /\ StopInv /\ [step]_<<vars, broken>> => (IInv /\ StopInv)' /\ [kept]_vars
  <2> SUFFICES ASSUME IInv, StopInv, [step]_<<vars, broken>>
               PROVE  IInv' /\ StopInv' /\ [kept]_vars
    OBVIOUS
  <2>1. CASE step
    <3>1. IInv'
      BY <2>1, NextInv
    <3>2. Kept({"visit"})' => OneVisit' /\ Extending' /\ kept
      BY <2>1, StopStep
    <3> QED
      BY <3>1, <3>2 DEF StopInv
  <2>2. CASE UNCHANGED <<vars, broken>>
    <3>1. IInv'
      BY <2>2, NextInv
    <3>2. StopInv'
      BY <2>2 DEF StopInv, OneVisit, Visiting, Extending, Kept, At, vars, tables
    <3> QED
      BY <2>2, <3>1, <3>2
  <2> QED
    BY <2>1, <2>2
<1> QED
  BY <1>1, <1>2, PTL DEF DisciplineSpec, StopsKept

-----------------------------------------------------------------------------
(* TripDisciplines: passengers hear of stops that are saved, trips have a    *)
(* driver, and count_trips follows the completed bookings.                   *)


\* A driver who is being moved still has the bus that was read, and the trips of that
\* bus are on their way to his new one.
MoveState ==
    /\ \A r \in Requests :
          /\ At(r, "DriverWrite") => req[r].rows = {drivers[req[r].who]}
          /\ At(r, "DriverMove") => drivers[req[r].who] = req[r].bus
    /\ \A t \in DOMAIN trips :
          \/ trips[t].bus \in ToSet(drivers)
          \/ \E r \in Requests : At(r, "DriverMove") /\ trips[t].bus \in req[r].rows

CrewInv == Kept({"move", "assign", "crash"}) => OneMove /\ MoveState

\* The stops that are being saved for the trip on the page.
BeingSaved == {req[r].stop : r \in {q \in Requests :
    req[q].pc \in {"VisitRead", "VisitWrite"} /\ req[q].trip = page.trip}}

\* The stop of a slot is in the list it writes and, once written, in the stored one.
SlotSaved(r) ==
    /\ At(r, "VisitWrite") => req[r].stop \in ToSet(req[r].visited)
    /\ req[r].trip \in DOMAIN trips =>
          /\ req[r].pc \in {"NotifyFind", "NotifySend"} =>
                req[r].stop \in ToSet(trips[req[r].trip].visited)
          /\ At(r, "OpenPassengers") =>
                ToSet(req[r].visited) \subseteq ToSet(trips[req[r].trip].visited)

ToldSaved == \A m \in told : m[2] \in DOMAIN trips => m[3] \in ToSet(trips[m[2]].visited)

PageSaved == page.trip \in DOMAIN trips =>
    page.arrived \subseteq ToSet(trips[page.trip].visited) \cup BeingSaved

SaveState == ToldSaved /\ PageSaved /\ \A r \in Requests : SlotSaved(r)

SaveInv == Kept({"visit", "page", "crash"}) => SaveState

\* The slots that complete a trip, between their statements.
Counting(r) == req[r].pc \in {"CompleteCount", "CompleteWrite"}

\* A booking that is completed, or counted by a completion under way.
InCount(b) ==
    \/ bookings[b].status = "Completed"
    \/ /\ bookings[b].status # "Absent"
       /\ \E r \in Requests :
             Counting(r) /\ req[r].trip = bookings[b].trip /\ b \notin req[r].rows

Counted(u) == {b \in Bookings : bookings[b].user = u /\ InCount(b)}

\* What a completion has still to count, and which booking a passenger is marked on.
SlotRows(r) ==
    /\ At(r, "CompleteCount") => req[r].rows \subseteq BookingsOf(req[r].trip)
    /\ At(r, "CompleteWrite") => req[r].rows = {}
    /\ At(r, "PresentUpdate") => \A b \in req[r].rows : bookings[b].status # "Absent"

RowState == \A r \in Requests : SlotRows(r)

NotUnder == Kept({"late"}) => \A u \in Users : Cardinality(Counted(u)) <= counts[u]

\* A trip that is being completed was not completed before.
OnceOnly == \A r \in Requests, b \in Bookings :
    Counting(r) /\ bookings[b].trip = req[r].trip => bookings[b].status # "Completed"

Exact == Kept({"complete", "late", "status", "crash"}) =>
    /\ OneCompletion
    /\ OnceOnly
    /\ \A u \in Users : Cardinality(Counted(u)) = counts[u]

-----------------------------------------------------------------------------
(* The statements of a slot, one after the other. *)

Watched == {"OpenPassengers", "VisitRead", "VisitWrite", "NotifyFind", "NotifySend",
            "CompleteCount", "CompleteWrite", "PresentUpdate", "DriverWrite", "DriverMove"}

\* The statements that matter below are reached only from the ones before them.
Follows(p, q) ==
    /\ q = "OpenPassengers" => p = "OpenTrips"
    /\ q = "VisitRead" => p = "ArriveShow"
    /\ q = "VisitWrite" => p = "VisitRead"
    /\ q = "NotifyFind" => p \in {"VisitRead", "VisitWrite"}
    /\ q = "NotifySend" => p \in {"NotifyFind", "NotifySend"}
    /\ q \in {"CompleteCount", "CompleteWrite"} => p \in {"CompleteFind", "CompleteCount"}
    /\ q = "PresentUpdate" => p = "PresentFind"
    /\ q = "DriverWrite" => p = "DriverFind"
    /\ q = "DriverMove" => p = "DriverWrite"

LEMMA Place ==
  ASSUME NEW r \in Requests
  PROVE  /\ OpenBus(r) => At(r, "OpenBus")
         /\ OpenTrips(r) => At(r, "OpenTrips")
         /\ OpenPassengers(r) => At(r, "OpenPassengers")
         /\ ArriveShow(r) => At(r, "ArriveShow")
         /\ VisitRead(r) => At(r, "VisitRead")
         /\ VisitWrite(r) => At(r, "VisitWrite")
         /\ NotifyFind(r) => At(r, "NotifyFind")
         /\ NotifySend(r) => At(r, "NotifySend")
         /\ CompleteFind(r) => At(r, "CompleteFind")
         /\ CompleteCount(r) => At(r, "CompleteCount")
         /\ CompleteWrite(r) => At(r, "CompleteWrite")
         /\ DelayFind(r) => At(r, "DelayFind")
         /\ DelaySend(r) => At(r, "DelaySend")
         /\ PresentFind(r) => At(r, "PresentFind")
         /\ PresentUpdate(r) => At(r, "PresentUpdate")
         /\ DriverFind(r) => At(r, "DriverFind")
         /\ DriverWrite(r) => At(r, "DriverWrite")
         /\ DriverMove(r) => At(r, "DriverMove")
         /\ AssignCheck(r) => At(r, "AssignCheck")
         /\ AssignWrite(r) => At(r, "AssignWrite")
         /\ CallFind(r) => At(r, "CallFind")
         /\ CallInsert(r) => At(r, "CallInsert")
         /\ ReplaceFind(r) => At(r, "ReplaceFind")
         /\ CallAnswer(r) => At(r, "CallAnswer")
BY DEF OpenBus, OpenTrips, OpenPassengers, ArriveShow, VisitRead, VisitWrite, NotifyFind,
       NotifySend, CompleteFind, CompleteCount, CompleteWrite, DelayFind, DelaySend, PresentFind,
       PresentUpdate, DriverFind, DriverWrite, DriverMove, AssignCheck, AssignWrite, CallFind,
       CallInsert, ReplaceFind, CallAnswer, Read

\* A click changes no table and leads to a first statement.
LEMMA ClickFlow ==
  ASSUME IInv, NEW r \in Requests, Click(r)
  PROVE  /\ At(r, "idle") /\ UNCHANGED <<tables, page>> /\ Follows(req[r].pc, req'[r].pc)
         /\ \A q \in Requests \ {r} : req'[q] = req[q]
<1>1. ASSUME NEW call, NEW h, Request(r, call, h), h.pc \notin Watched
      PROVE  /\ At(r, "idle") /\ UNCHANGED <<tables, page>> /\ Follows(req[r].pc, req'[r].pc)
             /\ \A q \in Requests \ {r} : req'[q] = req[q]
  <2>1. req'[r] = h /\ \A q \in Requests \ {r} : req'[q] = req[q]
    BY <1>1 DEF Request, Accept, Go, IInv, TypeOK
  <2>2. At(r, "idle")
    BY <1>1 DEF Request, Accept, At, Idle
  <2>3. Follows(req[r].pc, h.pc)
    BY <1>1 DEF Follows, Watched
  <2> QED
    BY <1>1, <2>1, <2>2, <2>3 DEF Request
<1>2. CASE ArriveAccept(r)
  <2>1. PICK s : Request(r, "arrive", [Idle EXCEPT !.pc = "ArriveShow", !.trip = page.trip, !.stop = s])
    BY <1>2 DEF ArriveAccept
  <2>2. [Idle EXCEPT !.pc = "ArriveShow", !.trip = page.trip, !.stop = s].pc = "ArriveShow"
    BY DEF Idle
  <2> QED
    BY <1>1, <2>1, <2>2 DEF Watched
<1>3. CASE DelayAccept(r)
  <2>1. [Idle EXCEPT !.pc = "DelayFind", !.trip = page.trip].pc = "DelayFind"
    BY DEF Idle
  <2> QED
    BY <1>1, <1>3, <2>1 DEF DelayAccept, Watched
<1>4. CASE PresentAccept(r)
  <2>1. PICK u : Request(r, "present", [Idle EXCEPT !.pc = "PresentFind", !.trip = page.trip,
                                             !.route = page.route, !.who = u])
    BY <1>4 DEF PresentAccept
  <2>2. [Idle EXCEPT !.pc = "PresentFind", !.trip = page.trip,
                     !.route = page.route, !.who = u].pc = "PresentFind"
    BY DEF Idle
  <2> QED
    BY <1>1, <2>1, <2>2 DEF Watched
<1>5. CASE CallAccept(r)
  <2>1. [Idle EXCEPT !.pc = "CallFind", !.trip = page.trip].pc = "CallFind"
    BY DEF Idle
  <2> QED
    BY <1>1, <1>5, <2>1 DEF CallAccept, Watched
<1>6. CASE DriverAccept(r)
  <2>1. PICK d, b : Request(r, "driver", [Idle EXCEPT !.pc = "DriverFind", !.who = d, !.bus = b])
    BY <1>6 DEF DriverAccept
  <2>2. [Idle EXCEPT !.pc = "DriverFind", !.who = d, !.bus = b].pc = "DriverFind"
    BY DEF Idle
  <2> QED
    BY <1>1, <2>1, <2>2 DEF Watched
<1>7. CASE AssignAccept(r)
  <2>1. PICK t, b : Request(r, "assign", [Idle EXCEPT !.pc = "AssignCheck", !.trip = t, !.bus = b])
    BY <1>7 DEF AssignAccept
  <2>2. [Idle EXCEPT !.pc = "AssignCheck", !.trip = t, !.bus = b].pc = "AssignCheck"
    BY DEF Idle
  <2> QED
    BY <1>1, <2>1, <2>2 DEF Watched
<1>8. CASE ReplaceAccept(r)
  <2>1. PICK c : Request(r, "replace", [Idle EXCEPT !.pc = "ReplaceFind", !.rows = {c}])
    BY <1>8 DEF ReplaceAccept
  <2>2. [Idle EXCEPT !.pc = "ReplaceFind", !.rows = {c}].pc = "ReplaceFind"
    BY DEF Idle
  <2> QED
    BY <1>1, <2>1, <2>2 DEF Watched
<1> QED
  BY <1>2, <1>3, <1>4, <1>5, <1>6, <1>7, <1>8 DEF Click

\* What a statement leads to.
LEMMA HandleFlow ==
  ASSUME IInv, NEW r \in Requests, Handle(r)
  PROVE  /\ Follows(req[r].pc, req'[r].pc)
         /\ \A q \in Requests \ {r} : req'[q] = req[q]
<1>0. req \in [Requests -> Good] /\ req[r] \in Handler
  BY HandlerGood DEF IInv, TypeOK
<1>1. /\ Idle.pc = "idle" /\ Finish(req[r]).pc \in {"CompleteFind", "idle"}
      /\ \A rows : [req[r] EXCEPT !.rows = rows].pc = req[r].pc
  BY <1>0 DEF Idle, Finish, Handler
<1>2. ASSUME NEW h, Go(r, h), Follows(req[r].pc, h.pc)
      PROVE  /\ Follows(req[r].pc, req'[r].pc)
             /\ \A q \in Requests \ {r} : req'[q] = req[q]
  BY <1>0, <1>2 DEF Go
<1>3. ASSUME NEW statement, NEW rows, Follows(req[r].pc, statement),
             \/ Go(r, Then(r, statement))
             \/ Go(r, [Then(r, statement) EXCEPT !.rows = rows])
             \/ Go(r, [Then(r, statement) EXCEPT !.visited = rows])
      PROVE  \E h : Go(r, h) /\ Follows(req[r].pc, h.pc)
  <2>1. CASE Go(r, Then(r, statement))
    BY <1>0, <1>3, <2>1, ThenPc
  <2>2. CASE Go(r, [Then(r, statement) EXCEPT !.rows = rows])
    <3> DEFINE g == [Then(r, statement) EXCEPT !.rows = rows]
    <3>1. g.pc = statement
      BY <1>0, ThenPc
    <3>2. Go(r, g)
      BY <2>2
    <3> HIDE DEF g
    <3> QED BY <1>3, <3>1, <3>2
  <2>3. CASE Go(r, [Then(r, statement) EXCEPT !.visited = rows])
    <3> DEFINE g == [Then(r, statement) EXCEPT !.visited = rows]
    <3>1. g.pc = statement
      BY <1>0, ThenPc
    <3>2. Go(r, g)
      BY <2>3
    <3> HIDE DEF g
    <3> QED BY <1>3, <3>1, <3>2
  <2> QED
    BY <1>3, <2>1, <2>2, <2>3
<1>4. ASSUME Go(r, Idle) \/ Go(r, Finish(req[r]))
      PROVE  \E h : Go(r, h) /\ Follows(req[r].pc, h.pc)
  BY <1>1, <1>4 DEF Follows
<1>5. ASSUME NEW rows, Go(r, [req[r] EXCEPT !.rows = rows]),
             req[r].pc \in {"NotifySend", "DelaySend"}
      PROVE  \E h : Go(r, h) /\ Follows(req[r].pc, h.pc)
  BY <1>1, <1>5 DEF Follows
<1>6. \E h : Go(r, h) /\ Follows(req[r].pc, h.pc)
  <2> USE DEF Read, At
  <2>1. CASE OpenBus(r)
    <3>1. Go(r, [Then(r, "OpenTrips") EXCEPT !.bus = drivers[Me]])
      BY <2>1 DEF OpenBus
    <3>2. [Then(r, "OpenTrips") EXCEPT !.bus = drivers[Me]].pc = "OpenTrips"
      BY <1>0, ThenPc
    <3>3. Follows(req[r].pc, "OpenTrips")
      BY DEF Follows
    <3> QED BY <3>1, <3>2, <3>3
  <2>2. CASE OpenTrips(r)
    <3>1. CASE Go(r, Idle)
      BY <1>4, <3>1
    <3>2. ASSUME NEW t \in DOMAIN trips,
                 Go(r, [Then(r, "OpenPassengers") EXCEPT !.trip = t, !.bus = None,
                           !.route = trips[t].route, !.visited = trips[t].visited])
          PROVE  \E h : Go(r, h) /\ Follows(req[r].pc, h.pc)
      <4>1. [Then(r, "OpenPassengers") EXCEPT !.trip = t, !.bus = None,
                !.route = trips[t].route, !.visited = trips[t].visited].pc = "OpenPassengers"
        BY <1>0, ThenPc
      <4>2. Follows(req[r].pc, "OpenPassengers")
        BY <2>2, Place DEF Follows
      <4> QED BY <3>2, <4>1, <4>2
    <3> QED BY <2>2, <3>1, <3>2 DEF OpenTrips
  <2>3. CASE ArriveShow(r)
    <3>1. Go(r, Then(r, "VisitRead")) /\ Follows(req[r].pc, "VisitRead")
      BY <2>3 DEF ArriveShow, Follows
    <3> QED BY <1>3, <3>1
  <2>4. CASE VisitRead(r)
    <3>1. Follows(req[r].pc, "VisitWrite") /\ Follows(req[r].pc, "NotifyFind")
      BY <2>4, Place DEF Follows
    <3> QED BY <1>3, <2>4, <3>1 DEF VisitRead
  <2>5. CASE VisitWrite(r)
    <3>1. Follows(req[r].pc, "NotifyFind")
      BY <2>5, Place DEF Follows
    <3> QED BY <1>3, <2>5, <3>1 DEF VisitWrite
  <2>6. CASE NotifyFind(r)
    <3>1. Follows(req[r].pc, "NotifySend")
      BY <2>6, Place DEF Follows
    <3> QED BY <1>3, <1>4, <2>6, <3>1 DEF NotifyFind
  <2>7. CASE NotifySend(r)
    <3>1. PICK b : Go(r, IF req[r].rows \ {b} = {} THEN Finish(req[r])
                         ELSE [req[r] EXCEPT !.rows = req[r].rows \ {b}])
      BY <2>7 DEF NotifySend
    <3> QED BY <1>4, <1>5, <2>7, <3>1, Place
  <2>8. CASE CompleteFind(r) \/ CompleteCount(r)
    <3>1. PICK rows, statement : /\ Go(r, [Then(r, statement) EXCEPT !.rows = rows])
                                 /\ statement \in {"CompleteCount", "CompleteWrite"}
      BY <2>8 DEF CompleteFind, CompleteCount
    <3>2. Follows(req[r].pc, statement)
      BY <2>8, <3>1, Place DEF Follows
    <3> QED BY <1>3, <3>1, <3>2
  <2>9. CASE DelayFind(r)
    <3>1. Follows(req[r].pc, "DelaySend")
      BY DEF Follows
    <3> QED BY <1>3, <1>4, <2>9, <3>1 DEF DelayFind
  <2>10. CASE DelaySend(r)
    <3>1. PICK b : Go(r, IF req[r].rows = {b} THEN Idle
                         ELSE [req[r] EXCEPT !.rows = req[r].rows \ {b}])
      BY <2>10 DEF DelaySend
    <3> QED BY <1>4, <1>5, <2>10, <3>1, Place
  <2>11. CASE PresentFind(r)
    <3>1. Follows(req[r].pc, "PresentUpdate")
      BY <2>11, Place DEF Follows
    <3> QED BY <1>3, <1>4, <2>11, <3>1 DEF PresentFind
  <2>12. CASE DriverFind(r)
    <3>1. Follows(req[r].pc, "DriverWrite")
      BY <2>12, Place DEF Follows
    <3> QED BY <1>3, <2>12, <3>1 DEF DriverFind
  <2>13. CASE DriverWrite(r)
    <3>1. Follows(req[r].pc, "DriverMove")
      BY <2>13, Place DEF Follows
    <3> QED BY <1>3, <1>4, <2>13, <3>1 DEF DriverWrite
  <2>14. CASE AssignCheck(r) \/ CallFind(r) \/ ReplaceFind(r)
    <3>1. \A statement \in {"AssignWrite", "CallInsert", "CallAnswer"} : Follows(req[r].pc, statement)
      BY DEF Follows
    <3> QED BY <1>3, <1>4, <2>14, <3>1 DEF AssignCheck, CallFind, ReplaceFind
  <2>15. CASE \/ OpenPassengers(r) \/ CompleteWrite(r) \/ PresentUpdate(r) \/ DriverMove(r)
              \/ AssignWrite(r) \/ CallInsert(r) \/ CallAnswer(r)
    BY <1>4, <2>15 DEF OpenPassengers, CompleteWrite, PresentUpdate, DriverMove, AssignWrite,
                       CallInsert, CallAnswer
  <2> QED
    BY <2>1, <2>2, <2>3, <2>4, <2>5, <2>6, <2>7, <2>8, <2>9, <2>10, <2>11, <2>12, <2>13,
       <2>14, <2>15 DEF Handle
<1> QED
  BY <1>2, <1>6

\* What a statement leaves alone.
LEMMA HandleFrame ==
  ASSUME NEW r \in Requests, Handle(r)
  PROVE  /\ req[r].pc \notin {"VisitWrite", "DriverMove", "AssignWrite"} => UNCHANGED trips
         /\ req[r].pc # "DriverWrite" => UNCHANGED drivers
         /\ req[r].pc \notin {"CompleteWrite", "PresentUpdate"} => UNCHANGED bookings
         /\ req[r].pc # "CompleteCount" => UNCHANGED counts
         /\ req[r].pc # "NotifySend" => UNCHANGED told
         /\ req[r].pc \notin {"OpenPassengers", "ArriveShow", "CompleteWrite", "PresentUpdate"}
               => UNCHANGED page
BY DEF Handle, OpenBus, OpenTrips, OpenPassengers, ArriveShow, VisitRead, VisitWrite, NotifyFind,
       NotifySend, CompleteFind, CompleteCount, CompleteWrite, DelayFind, DelaySend, PresentFind,
       PresentUpdate, DriverFind, DriverWrite, DriverMove, AssignCheck, AssignWrite, CallFind,
       CallInsert, ReplaceFind, CallAnswer, Read, At, tables

\* Opening the page anew leaves what a slot remembers.
LEMMA OpenFlow ==
  ASSUME IInv, OpenAccept
  PROVE  /\ page' = Blank /\ UNCHANGED tables
         /\ \A q \in Requests :
               \/ req[q].pc = "idle" /\ req'[q].pc \in {"idle", "OpenBus"}
               \/ /\ req'[q].pc = req[q].pc /\ req'[q].trip = req[q].trip
                  /\ req'[q].stop = req[q].stop /\ req'[q].visited = req[q].visited
                  /\ req'[q].rows = req[q].rows /\ req'[q].who = req[q].who
                  /\ req'[q].bus = req[q].bus
<1>1. PICK slots \in SUBSET Requests :
        /\ \A r \in slots : req[r] = Idle
        /\ req' = [r \in Requests |->
              IF r \in slots THEN [Idle EXCEPT !.pc = "OpenBus"]
              ELSE IF req[r] = Idle THEN Idle ELSE [req[r] EXCEPT !.here = FALSE]]
  BY DEF OpenAccept
<1>2. Idle.pc = "idle" /\ [Idle EXCEPT !.pc = "OpenBus"].pc = "OpenBus"
  BY DEF Idle
<1>3. ASSUME NEW q \in Requests
      PROVE  \/ req[q].pc = "idle" /\ req'[q].pc \in {"idle", "OpenBus"}
             \/ /\ req'[q].pc = req[q].pc /\ req'[q].trip = req[q].trip
                /\ req'[q].stop = req[q].stop /\ req'[q].visited = req[q].visited
                /\ req'[q].rows = req[q].rows /\ req'[q].who = req[q].who
                /\ req'[q].bus = req[q].bus
  <2>1. CASE q \in slots \/ req[q] = Idle
    BY <1>1, <1>2, <2>1
  <2>2. CASE ~(q \in slots \/ req[q] = Idle)
    <3>1. req'[q] = [req[q] EXCEPT !.here = FALSE] /\ req[q] \in Handler
      BY <1>1, <2>2, HandlerGood DEF IInv, TypeOK
    <3> QED
      BY <3>1 DEF Handler
  <2> QED
    BY <2>1, <2>2
<1> QED
  BY <1>3 DEF OpenAccept

\* A set of slots with at most one member.
LEMMA AtMostOne ==
  ASSUME NEW S \in SUBSET Requests, Cardinality(S) <= 1, NEW x \in S, NEW y \in S
  PROVE  x = y
<1>1. IsFiniteSet(S) /\ Cardinality(S) \in Nat
  BY FS_Subset, FS_CardinalityType, TripsAssumption
<1>2. Cardinality(S) # 0
  BY <1>1, FS_EmptySet
<1>3. Cardinality(S) = 1
  BY <1>1, <1>2
<1> QED
  BY <1>1, <1>3, FS_Singleton

-----------------------------------------------------------------------------
(* A driver for every trip. *)

\* A step that moves no driver and gives no trip another bus.
LEMMA CrewFrame ==
  ASSUME MoveState, UNCHANGED drivers,
         \A t \in DOMAIN trips' : t \in DOMAIN trips /\ trips'[t].bus = trips[t].bus,
         \A q \in Requests : At(q, "DriverWrite")' \/ At(q, "DriverMove")' =>
             /\ req'[q].pc = req[q].pc /\ req'[q].rows = req[q].rows
             /\ req'[q].who = req[q].who /\ req'[q].bus = req[q].bus,
         \A q \in Requests : At(q, "DriverMove") =>
             req'[q].pc = req[q].pc /\ req'[q].rows = req[q].rows
  PROVE  MoveState'
<1>1. ASSUME NEW q \in Requests
      PROVE  /\ At(q, "DriverWrite")' => req'[q].rows = {drivers'[req'[q].who]}
             /\ At(q, "DriverMove")' => drivers'[req'[q].who] = req'[q].bus
  BY DEF MoveState, At
<1>2. ASSUME NEW t \in DOMAIN trips'
      PROVE  \/ trips'[t].bus \in ToSet(drivers')
             \/ \E q \in Requests : At(q, "DriverMove")' /\ trips'[t].bus \in req'[q].rows
  BY DEF MoveState, At, ToSet
<1> QED
  BY <1>1, <1>2 DEF MoveState

LEMMA CrewHandle ==
  ASSUME IInv, MoveState, OneMove, NEW r \in Requests, Handle(r), CrewedAssign
  PROVE  MoveState'
<1> USE DEF IInv, TypeOK
<1> DEFINE h == req[r]
<1>1. /\ \A q \in Requests \ {r} : req'[q] = req[q]
      /\ Follows(req[r].pc, req'[r].pc)
      /\ req[r] \in Handler /\ req[r] \in Good
  BY HandleFlow, HandlerGood
<1>2. CASE DriverFind(r)
  <2>1. At(r, "DriverFind") /\ drivers' = drivers /\ trips' = trips
        /\ req'[r] = [Then(r, "DriverWrite") EXCEPT !.rows = {drivers[req[r].who]}]
    BY <1>2 DEF DriverFind, Read, Go, tables
  <2>2. /\ req'[r].pc = "DriverWrite" /\ req'[r].who = req[r].who
        /\ req'[r].rows = {drivers[req[r].who]}
    BY <1>1, <2>1 DEF Then, Handler
  <2>3. ASSUME NEW q \in Requests
        PROVE  /\ At(q, "DriverWrite")' => req'[q].rows = {drivers'[req'[q].who]}
               /\ At(q, "DriverMove")' => drivers'[req'[q].who] = req'[q].bus
               /\ At(q, "DriverMove") => req'[q] = req[q]
    BY <1>1, <2>1, <2>2 DEF MoveState, At
  <2>4. ASSUME NEW t \in DOMAIN trips'
        PROVE  \/ trips'[t].bus \in ToSet(drivers')
               \/ \E q \in Requests : At(q, "DriverMove")' /\ trips'[t].bus \in req'[q].rows
    BY <2>1, <2>3 DEF MoveState, At, ToSet
  <2> QED
    BY <2>3, <2>4 DEF MoveState
<1>3. CASE DriverWrite(r)
  <2>1. /\ At(r, "DriverWrite") /\ drivers' = [drivers EXCEPT ![h.who] = h.bus] /\ trips' = trips
        /\ req'[r] = IF h.rows = {h.bus} THEN Idle ELSE Then(r, "DriverMove")
        /\ h.rows = {drivers[h.who]} /\ h.who \in Drivers
    BY <1>1, <1>3 DEF DriverWrite, Go, MoveState, Good, At
  <2>2. /\ h.rows = {h.bus} => req'[r].pc = "idle"
        /\ h.rows # {h.bus} => /\ req'[r].pc = "DriverMove" /\ req'[r].who = h.who
                               /\ req'[r].bus = h.bus /\ req'[r].rows = h.rows
    <3>1. Idle.pc = "idle"
      BY DEF Idle
    <3>2. /\ Then(r, "DriverMove").pc = "DriverMove" /\ Then(r, "DriverMove").who = h.who
          /\ Then(r, "DriverMove").bus = h.bus /\ Then(r, "DriverMove").rows = h.rows
      BY <1>1 DEF Then, Handler
    <3> HIDE DEF h
    <3> QED
      BY <2>1, <3>1, <3>2
  <2> HIDE DEF h
  <2>3. ASSUME NEW q \in Requests \ {r}, At(q, "DriverWrite") \/ At(q, "DriverMove")
        PROVE  req[q].who # h.who
    <3>1. r \in Moving(h.who)
      BY <2>1 DEF Moving, At, h
    <3>2. req[q].who = h.who => q \in Moving(h.who)
      BY <2>3 DEF Moving, At
    <3>3. Moving(h.who) \in SUBSET Requests /\ Cardinality(Moving(h.who)) <= 1
      BY <2>1 DEF OneMove, Moving
    <3> QED
      BY <3>1, <3>2, <3>3, AtMostOne
  <2>4. ASSUME NEW q \in Requests
        PROVE  /\ At(q, "DriverWrite")' => req'[q].rows = {drivers'[req'[q].who]}
               /\ At(q, "DriverMove")' => drivers'[req'[q].who] = req'[q].bus
    <3>1. CASE q = r
      BY <2>1, <2>2, <3>1 DEF At
    <3>2. CASE q # r
      <4>1. req'[q] = req[q]
        BY <1>1, <3>2
      <4>2. At(q, "DriverWrite") \/ At(q, "DriverMove") => drivers'[req[q].who] = drivers[req[q].who]
        BY <2>1, <2>3, <3>2
      <4> QED
        BY <4>1, <4>2 DEF MoveState, At
    <3> QED
      BY <3>1, <3>2
  <2>5. ASSUME NEW t \in DOMAIN trips'
        PROVE  \/ trips'[t].bus \in ToSet(drivers')
               \/ \E q \in Requests : At(q, "DriverMove")' /\ trips'[t].bus \in req'[q].rows
    <3>1. CASE \E q \in Requests : At(q, "DriverMove") /\ trips[t].bus \in req[q].rows
      <4>1. PICK q \in Requests : At(q, "DriverMove") /\ trips[t].bus \in req[q].rows
        BY <3>1
      <4>2. req'[q] = req[q]
        BY <1>1, <2>1, <4>1 DEF At
      <4> QED
        BY <2>1, <4>1, <4>2 DEF At
    <3>2. CASE trips[t].bus \in ToSet(drivers)
      <4>1. PICK d \in Drivers : trips[t].bus = drivers[d]
        BY <3>2 DEF ToSet
      <4>2. CASE d # h.who
        <5>1. drivers'[d] = drivers[d] /\ d \in DOMAIN drivers'
          BY <2>1, <4>2
        <5> QED
          BY <2>1, <4>1, <5>1 DEF ToSet
      <4>3. CASE d = h.who /\ h.rows = {h.bus}
        <5>1. drivers'[d] = drivers[d] /\ d \in DOMAIN drivers'
          BY <2>1, <4>3
        <5> QED
          BY <2>1, <4>1, <5>1 DEF ToSet
      <4>4. CASE d = h.who /\ h.rows # {h.bus}
        BY <2>1, <2>2, <4>1, <4>4 DEF At
      <4> QED
        BY <4>2, <4>3, <4>4
    <3> QED
      BY <2>1, <3>1, <3>2 DEF MoveState
  <2> QED
    BY <2>4, <2>5 DEF MoveState
<1>4. CASE DriverMove(r)
  <2>1. /\ At(r, "DriverMove") /\ drivers' = drivers /\ req'[r].pc = "idle"
        /\ trips' = [t \in DOMAIN trips |->
              IF trips[t].bus \in h.rows THEN [trips[t] EXCEPT !.bus = h.bus] ELSE trips[t]]
        /\ drivers[h.who] = h.bus /\ h.who \in Drivers
    BY <1>1, <1>4 DEF DriverMove, Go, MoveState, Good, At, Idle
  <2>2. h.bus \in ToSet(drivers)
    BY <2>1 DEF ToSet
  <2>3. \A t \in DOMAIN trips : trips'[t].bus = IF trips[t].bus \in h.rows THEN h.bus ELSE trips[t].bus
    BY <2>1 DEF TripsOK, Trip
  <2>4. ASSUME NEW q \in Requests
        PROVE  /\ At(q, "DriverWrite")' => req'[q].rows = {drivers'[req'[q].who]}
               /\ At(q, "DriverMove")' => drivers'[req'[q].who] = req'[q].bus
    BY <1>1, <2>1 DEF MoveState, At
  <2>5. ASSUME NEW t \in DOMAIN trips
        PROVE  \/ trips'[t].bus \in ToSet(drivers')
               \/ \E q \in Requests : At(q, "DriverMove")' /\ trips'[t].bus \in req'[q].rows
    <3>1. CASE trips[t].bus \in h.rows
      BY <2>1, <2>2, <2>3, <3>1
    <3>2. CASE trips[t].bus \notin h.rows
      BY <1>1, <2>1, <2>3, <3>2 DEF MoveState, At
    <3> QED
      BY <3>1, <3>2
  <2>6. DOMAIN trips' = DOMAIN trips
    BY <2>1
  <2> QED
    BY <2>4, <2>5, <2>6 DEF MoveState
<1>5. CASE AssignWrite(r)
  <2>1. /\ At(r, "AssignWrite") /\ drivers' = drivers /\ req'[r].pc = "idle"
        /\ trips' = [t \in DOMAIN trips |->
              IF t = h.trip THEN [trips[t] EXCEPT !.bus = h.bus] ELSE trips[t]]
        /\ h.bus \in ToSet(drivers)
    BY <1>1, <1>5 DEF AssignWrite, Go, Idle, CrewedAssign
  <2>2. \A t \in DOMAIN trips : trips'[t].bus = IF t = h.trip THEN h.bus ELSE trips[t].bus
    BY <2>1 DEF TripsOK, Trip
  <2>3. ASSUME NEW q \in Requests
        PROVE  /\ At(q, "DriverWrite")' => req'[q].rows = {drivers'[req'[q].who]}
               /\ At(q, "DriverMove")' => drivers'[req'[q].who] = req'[q].bus
               /\ At(q, "DriverMove") => req'[q] = req[q]
    BY <1>1, <2>1 DEF MoveState, At
  <2>4. ASSUME NEW t \in DOMAIN trips
        PROVE  \/ trips'[t].bus \in ToSet(drivers')
               \/ \E q \in Requests : At(q, "DriverMove")' /\ trips'[t].bus \in req'[q].rows
    BY <2>1, <2>2, <2>3 DEF MoveState, At
  <2>5. DOMAIN trips' = DOMAIN trips
    BY <2>1
  <2> QED
    BY <2>3, <2>4, <2>5 DEF MoveState
<1>6. CASE ~DriverFind(r) /\ ~DriverWrite(r) /\ ~DriverMove(r) /\ ~AssignWrite(r)
  <2>1. req[r].pc \notin {"DriverFind", "DriverWrite", "DriverMove", "AssignWrite"}
    BY <1>6, Place DEF Handle, At
  <2>2. drivers' = drivers
    BY <2>1, HandleFrame
  <2>3. \A t \in DOMAIN trips' : t \in DOMAIN trips /\ trips'[t].bus = trips[t].bus
    <3>1. CASE VisitWrite(r)
      BY <3>1 DEF VisitWrite, TripsOK, Trip
    <3>2. CASE ~VisitWrite(r)
      <4>1. req[r].pc # "VisitWrite"
        BY <3>2, Place DEF Handle, At
      <4> QED
        BY <2>1, <4>1, HandleFrame
    <3> QED
      BY <3>1, <3>2
  <2>4. ~At(r, "DriverMove") /\ ~At(r, "DriverWrite")' /\ ~At(r, "DriverMove")'
    BY <1>1, <2>1 DEF At, Follows
  <2> QED
    BY <1>1, <2>2, <2>3, <2>4, CrewFrame
<1> QED
  BY <1>2, <1>3, <1>4, <1>5, <1>6

LEMMA CrewStep ==
  ASSUME IInv, CrewInv, Next, broken' = broken \cup Breaks, Kept({"move", "assign", "crash"})'
  PROVE  OneMove' /\ MoveState'
<1> USE DEF IInv, TypeOK
<1>1. OneMove /\ MoveState /\ OneMove' /\ CrewedAssign /\ ~Crash
  <2>1. \A d \in {"move", "assign", "crash"} : d \notin broken /\ d \notin Breaks
    BY DEF Kept
  <2>2. OneMove' /\ CrewedAssign /\ ~Crash
    BY <2>1 DEF Breaks
  <2> QED
    BY <2>1, <2>2 DEF CrewInv, Kept
<1>2. CASE \E r \in Requests : Click(r)
  <2>1. PICK r \in Requests : Click(r)
    BY <1>2
  <2>2. /\ At(r, "idle") /\ UNCHANGED <<tables, page>> /\ Follows(req[r].pc, req'[r].pc)
        /\ \A q \in Requests \ {r} : req'[q] = req[q]
    BY <2>1, ClickFlow
  <2>3. ~At(r, "DriverMove") /\ ~At(r, "DriverWrite")' /\ ~At(r, "DriverMove")'
    BY <2>2 DEF At, Follows
  <2> QED
    BY <1>1, <2>2, <2>3, CrewFrame DEF tables
<1>3. CASE \E r \in Requests : Handle(r)
  BY <1>1, <1>3, CrewHandle
<1>4. CASE OpenAccept
  <2>1. ASSUME NEW q \in Requests
        PROVE  /\ At(q, "DriverWrite")' \/ At(q, "DriverMove")' =>
                     /\ req'[q].pc = req[q].pc /\ req'[q].rows = req[q].rows
                     /\ req'[q].who = req[q].who /\ req'[q].bus = req[q].bus
               /\ At(q, "DriverMove") => req'[q].pc = req[q].pc /\ req'[q].rows = req[q].rows
    BY <1>4, OpenFlow DEF At
  <2> QED
    BY <1>1, <1>4, <2>1, OpenFlow, CrewFrame DEF tables
<1>5. CASE Book \/ Update \/ RemoveCall
  <2>1. drivers' = drivers /\ trips' = trips /\ req' = req
    BY <1>5 DEF Book, Update, RemoveCall
  <2> QED
    BY <1>1, <2>1, CrewFrame DEF At
<1>6. CASE RemoveTrip
  <2>1. PICK t \in DOMAIN trips : trips' = [u \in DOMAIN trips \ {t} |-> trips[u]]
    BY <1>6 DEF RemoveTrip, Restrict
  <2>2. drivers' = drivers /\ req' = req
    BY <1>6 DEF RemoveTrip
  <2> QED
    BY <1>1, <2>1, <2>2, CrewFrame DEF At
<1> QED
  BY <1>1, <1>2, <1>3, <1>4, <1>5, <1>6 DEF Next

LEMMA CrewStart == DisciplineInit => CrewInv
<1> SUFFICES ASSUME DisciplineInit PROVE OneMove /\ MoveState
  BY DEF CrewInv
<1>1. \A r \in Requests : req[r].pc = "idle"
  BY DEF DisciplineInit, Init, Idle
<1>2. \A d \in Drivers : Moving(d) = {}
  BY <1>1 DEF Moving
<1>3. PICK b \in ToSet(drivers), route \in Routes :
          trips = [t \in TripIds |-> [bus |-> b, route |-> route, visited |-> <<>>]]
  BY DEF DisciplineInit, Init
<1>4. \A t \in DOMAIN trips : trips[t].bus \in ToSet(drivers)
  BY <1>3
<1>5. OneMove
  BY <1>2, FS_EmptySet DEF OneMove
<1>6. MoveState
  BY <1>1, <1>4 DEF MoveState, At
<1> QED
  BY <1>5, <1>6

LEMMA CrewCrewed ==
  ASSUME IInv, CrewInv
  PROVE  Crewed
<1> SUFFICES ASSUME Kept({"move", "assign", "crash"}), \A d \in Drivers : Moving(d) = {},
                    NEW t \in DOMAIN trips
             PROVE  trips[t].bus \in ToSet(drivers)
  BY DEF Crewed
<1>1. ASSUME NEW r \in Requests PROVE ~At(r, "DriverMove")
  <2>1. At(r, "DriverMove") => req[r].who \in Drivers
    BY HandlerGood DEF IInv, TypeOK, At, Good
  <2> QED
    BY <2>1 DEF Moving, At
<1> QED
  BY <1>1 DEF CrewInv, MoveState

\* A trip always has a bus that somebody drives, however drivers and trips are moved, once
\* no driver is between the two statements of his move: as long as no driver is moved
\* twice at a time, no trip is given a bus without a driver and no move is cut by a crash.
THEOREM TripsCrewed == DisciplineSpec => []Crewed
<1> DEFINE step == Next /\ broken' = broken \cup Breaks
<1>1. DisciplineInit => IInv /\ CrewInv
  BY InitInv, CrewStart DEF DisciplineInit
<1>2. IInv /\ CrewInv /\ [step]_<<vars, broken>> => (IInv /\ CrewInv)'
  <2> SUFFICES ASSUME IInv, CrewInv, [step]_<<vars, broken>>
               PROVE  IInv' /\ CrewInv'
    OBVIOUS
  <2>1. IInv'
    BY NextInv
  <2>2. CASE step
    BY <2>1, <2>2, CrewStep DEF CrewInv
  <2>3. CASE UNCHANGED <<vars, broken>>
    BY <2>1, <2>3 DEF CrewInv, OneMove, Moving, MoveState, Kept, At, vars, tables
  <2> QED
    BY <2>2, <2>3
<1> QED
  BY <1>1, <1>2, CrewCrewed, PTL DEF DisciplineSpec

-----------------------------------------------------------------------------
(* Stops that are told and shown. *)

LEMMA AppendSet ==
  ASSUME NEW s \in Seq(Stops), NEW x \in Stops
  PROVE  ToSet(s) \subseteq ToSet(Append(s, x)) /\ x \in ToSet(Append(s, x))
<1>1. /\ DOMAIN Append(s, x) = DOMAIN s \cup {Len(s) + 1}
      /\ \A k \in DOMAIN s : Append(s, x)[k] = s[k]
      /\ Append(s, x)[Len(s) + 1] = x
  OBVIOUS
<1> QED
  BY <1>1 DEF ToSet

\* A trip keeps its stops until it is removed.
Grown == \A t \in DOMAIN trips' :
    t \in DOMAIN trips /\ ToSet(trips[t].visited) \subseteq ToSet(trips'[t].visited)

LEMMA TripsGrow ==
  ASSUME IInv, StopInv, Kept({"visit"}), Next
  PROVE  Grown
<1> USE DEF IInv, TypeOK
<1>1. CASE SameVisited
  BY <1>1 DEF SameVisited, Grown
<1>2. CASE UNCHANGED trips
  BY <1>2 DEF Grown
<1>3. ASSUME NEW r \in Requests, VisitWrite(r)
      PROVE  Grown
  <2>1. /\ DOMAIN trips' = DOMAIN trips
        /\ \A t \in DOMAIN trips :
               trips'[t].visited = IF t = req[r].trip THEN req[r].visited ELSE trips[t].visited
    BY <1>3 DEF VisitWrite, TripsOK, Trip
  <2>2. ASSUME req[r].trip \in DOMAIN trips
        PROVE  ToSet(trips[req[r].trip].visited) \subseteq ToSet(req[r].visited)
    <3>1. PICK x \in Stops : req[r].visited = Append(trips[req[r].trip].visited, x)
      BY <1>3, <2>2, Place DEF StopInv, Extending
    <3>2. trips[req[r].trip].visited \in Seq(Stops)
      BY <2>2 DEF TripsOK, Trip
    <3> QED
      BY <3>1, <3>2, AppendSet
  <2> QED
    BY <2>1, <2>2 DEF Grown
<1>4. ASSUME NEW r \in Requests, VisitRead(r)
      PROVE  UNCHANGED trips
  BY <1>4 DEF VisitRead, Read, tables
<1> QED
  BY <1>1, <1>2, <1>3, <1>4, ClickStill, HandleStill, OtherStill DEF Next

\* What was told stays true.
LEMMA ToldFrame ==
  ASSUME ToldSaved, Grown, told' = told
  PROVE  ToldSaved'
BY DEF ToldSaved, Grown

\* A slot that does not move stays as it is.
LEMMA SlotFrame ==
  ASSUME Grown, NEW q \in Requests, SlotSaved(q),
         req'[q].pc = req[q].pc, req'[q].trip = req[q].trip,
         req'[q].stop = req[q].stop, req'[q].visited = req[q].visited
  PROVE  SlotSaved(q)'
BY DEF Grown, SlotSaved, At

\* A slot that is nowhere near a list of stops.
LEMMA SlotElsewhere ==
  ASSUME NEW q \in Requests,
         req'[q].pc \notin {"VisitWrite", "NotifyFind", "NotifySend", "OpenPassengers"}
  PROVE  SlotSaved(q)'
BY DEF SlotSaved, At

\* The page still shows the trip and its stops, and a stop that is no longer being
\* saved is saved.
LEMMA PageFrame ==
  ASSUME PageSaved, Grown, page'.trip = page.trip, page'.arrived = page.arrived,
         \A q \in Requests : req[q].pc \in {"VisitRead", "VisitWrite"} =>
             \/ /\ req'[q].pc \in {"VisitRead", "VisitWrite"}
                /\ req'[q].trip = req[q].trip /\ req'[q].stop = req[q].stop
             \/ req[q].trip \in DOMAIN trips' => req[q].stop \in ToSet(trips'[req[q].trip].visited)
  PROVE  PageSaved'
<1> SUFFICES ASSUME page'.trip \in DOMAIN trips', NEW s \in page'.arrived
             PROVE  s \in ToSet(trips'[page'.trip].visited) \cup BeingSaved'
  BY DEF PageSaved
<1>1. page.trip \in DOMAIN trips /\ s \in page.arrived
  BY DEF Grown
<1>2. CASE s \in ToSet(trips[page.trip].visited)
  BY <1>1, <1>2 DEF Grown
<1>3. CASE s \in BeingSaved
  <2>1. PICK q \in Requests : /\ req[q].pc \in {"VisitRead", "VisitWrite"}
                              /\ req[q].trip = page.trip /\ req[q].stop = s
    BY <1>3 DEF BeingSaved
  <2>2. CASE req'[q].pc \in {"VisitRead", "VisitWrite"} /\ req'[q].trip = req[q].trip
             /\ req'[q].stop = req[q].stop
    BY <2>1, <2>2 DEF BeingSaved
  <2> QED
    BY <2>1, <2>2
<1> QED
  BY <1>1, <1>2, <1>3 DEF PageSaved

\* One step of a slot: what it remembers of stops.
LEMMA SlotStep ==
  ASSUME IInv, SaveState, Grown, NEW r \in Requests, Handle(r)
  PROVE  SlotSaved(r)'
<1> USE DEF IInv, TypeOK
<1>1. Follows(req[r].pc, req'[r].pc) /\ req[r] \in Handler /\ req[r] \in Good
  BY HandleFlow, HandlerGood
<1>2. CASE OpenTrips(r)
  <2>1. CASE req'[r].pc = "OpenPassengers"
    <3>1. PICK t \in DOMAIN trips :
            req'[r] = [Then(r, "OpenPassengers") EXCEPT !.trip = t, !.bus = None,
                          !.route = trips[t].route, !.visited = trips[t].visited]
      <4>1. ~Read(r, "OpenTrips", Idle)
        BY <2>1 DEF Read, Go, Idle
      <4>2. PICK t \in DOMAIN trips : Read(r, "OpenTrips",
                [Then(r, "OpenPassengers") EXCEPT !.trip = t, !.bus = None,
                     !.route = trips[t].route, !.visited = trips[t].visited])
        BY <1>2, <4>1 DEF OpenTrips
      <4> QED
        BY <4>2 DEF Read, Go
    <3>2. req'[r].trip = t /\ req'[r].visited = trips[t].visited
      BY <1>1, <3>1 DEF Then, Handler
    <3>3. trips' = trips
      BY <1>2 DEF OpenTrips, Read, tables
    <3> QED
      BY <2>1, <3>2, <3>3 DEF SlotSaved, At
  <2>2. CASE req'[r].pc # "OpenPassengers"
    BY <1>1, <1>2, <2>2, Place, SlotElsewhere DEF Follows, At
  <2> QED
    BY <2>1, <2>2
<1>3. CASE VisitRead(r)
  <2> DEFINE old == trips[req[r].trip].visited
             g == [Then(r, "VisitWrite") EXCEPT !.visited = Append(old, req[r].stop)]
             f == Then(r, "NotifyFind")
  <2>1. /\ trips' = trips
        /\ req'[r] = IF req[r].trip \in DOMAIN trips /\ req[r].stop \notin ToSet(old) THEN g ELSE f
    BY <1>3 DEF VisitRead, Read, Go, tables
  <2>2. /\ g.pc = "VisitWrite" /\ g.stop = req[r].stop /\ g.visited = Append(old, req[r].stop)
        /\ f.pc = "NotifyFind" /\ f.stop = req[r].stop /\ f.trip = req[r].trip
    BY <1>1 DEF Then, Handler
  <2>3. req[r].trip \in DOMAIN trips => old \in Seq(Stops)
    BY DEF TripsOK, Trip
  <2>4. req[r].stop \in Stops
    BY <1>1 DEF Handler
  <2> HIDE DEF g, f
  <2>5. CASE req[r].trip \in DOMAIN trips /\ req[r].stop \notin ToSet(old)
    BY <2>1, <2>2, <2>3, <2>4, <2>5, AppendSet DEF SlotSaved, At
  <2>6. CASE ~(req[r].trip \in DOMAIN trips /\ req[r].stop \notin ToSet(old))
    BY <2>1, <2>2, <2>6 DEF SlotSaved, At
  <2> QED
    BY <2>5, <2>6
<1>4. CASE VisitWrite(r)
  <2> DEFINE g == [Then(r, "NotifyFind") EXCEPT !.visited = <<>>]
  <2>1. g.pc = "NotifyFind" /\ g.trip = req[r].trip /\ g.stop = req[r].stop
    BY <1>1 DEF Then, Handler
  <2>2. req'[r] = g
    BY <1>4 DEF VisitWrite, Go
  <2>3. req[r].trip \in DOMAIN trips => trips'[req[r].trip].visited = req[r].visited
    BY <1>4 DEF VisitWrite, TripsOK, Trip
  <2>4. req[r].stop \in ToSet(req[r].visited) /\ DOMAIN trips' = DOMAIN trips
    BY <1>4, Place DEF VisitWrite, SaveState, SlotSaved
  <2> HIDE DEF g
  <2> QED
    BY <2>1, <2>2, <2>3, <2>4 DEF SlotSaved, At
<1>5. CASE NotifyFind(r)
  <2>1. PICK rows : req'[r] \in {Finish(req[r]), [Then(r, "NotifySend") EXCEPT !.rows = rows]}
    BY <1>5 DEF NotifyFind, Read, Go
  <2>2. Finish(req[r]).pc \in {"CompleteFind", "idle"}
    BY <1>1 DEF Idle, Finish, Handler
  <2> DEFINE g == [Then(r, "NotifySend") EXCEPT !.rows = rows]
  <2>3. g.pc = "NotifySend" /\ g.trip = req[r].trip /\ g.stop = req[r].stop
    BY <1>1 DEF Then, Handler
  <2>4. req[r].pc = "NotifyFind"
    BY <1>5, Place DEF At
  <2> HIDE DEF g
  <2>5. CASE req'[r] = g
    BY <2>3, <2>4, <2>5 DEF SlotSaved, SaveState, At, Grown
  <2>6. CASE req'[r] = Finish(req[r])
    BY <2>2, <2>6, SlotElsewhere
  <2> QED
    BY <2>1, <2>5, <2>6 DEF g
<1>6. CASE NotifySend(r)
  <2>1. PICK rows : req'[r] \in {Finish(req[r]), [req[r] EXCEPT !.rows = rows]}
    BY <1>6 DEF NotifySend, Go
  <2>2. Finish(req[r]).pc \in {"CompleteFind", "idle"}
    BY <1>1 DEF Idle, Finish, Handler
  <2> DEFINE g == [req[r] EXCEPT !.rows = rows]
  <2>3. /\ g.pc = req[r].pc /\ g.trip = req[r].trip /\ g.stop = req[r].stop
        /\ g.visited = req[r].visited
    BY <1>1 DEF Handler
  <2> HIDE DEF g
  <2>4. CASE req'[r] = g
    BY <2>3, <2>4, SlotFrame DEF SaveState
  <2>5. CASE req'[r] = Finish(req[r])
    BY <2>2, <2>5, SlotElsewhere
  <2> QED
    BY <2>1, <2>4, <2>5 DEF g
<1>7. CASE ~OpenTrips(r) /\ ~VisitRead(r) /\ ~VisitWrite(r) /\ ~NotifyFind(r) /\ ~NotifySend(r)
  <2>1. req[r].pc \notin {"OpenTrips", "VisitRead", "VisitWrite", "NotifyFind", "NotifySend"}
    BY <1>7, Place DEF Handle, At
  <2> QED
    BY <1>1, <2>1, SlotElsewhere DEF Follows
<1> QED
  BY <1>2, <1>3, <1>4, <1>5, <1>6, <1>7

\* One step of a slot: what the page shows.
LEMMA PageStep ==
  ASSUME IInv, SaveState, Grown, SamePage, NEW r \in Requests, Handle(r)
  PROVE  PageSaved'
<1> USE DEF IInv, TypeOK
<1>1. /\ Follows(req[r].pc, req'[r].pc) /\ req[r] \in Handler /\ req[r] \in Good
      /\ \A q \in Requests \ {r} : req'[q] = req[q]
  BY HandleFlow, HandlerGood
<1>2. CASE ArriveShow(r)
  <2>1. /\ Shows(r, [page EXCEPT !.arrived = @ \cup {req[r].stop}])
        /\ req'[r] = Then(r, "VisitRead") /\ At(r, "ArriveShow")
    BY <1>2 DEF ArriveShow, Go
  <2>2. Then(r, "VisitRead").pc = "VisitRead" /\ Then(r, "VisitRead").trip = req[r].trip
        /\ Then(r, "VisitRead").stop = req[r].stop
    BY <1>1 DEF Then, Handler
  <2>3. \A q \in Requests : req[q].pc \in {"VisitRead", "VisitWrite"} => req'[q] = req[q]
    BY <1>1, <2>1 DEF At
  <2>4. CASE ~req[r].here
    BY <2>1, <2>3, <2>4, PageFrame DEF Shows, SaveState
  <2>5. CASE req[r].here
    <3>1. page'.trip = page.trip /\ page'.arrived = page.arrived \cup {req[r].stop}
      BY <2>1, <2>5 DEF Shows, Page
    <3>2. page.trip = req[r].trip
      BY <1>2, <2>5 DEF SamePage
    <3>3. req[r].stop \in BeingSaved'
      BY <2>1, <2>2, <3>1, <3>2 DEF BeingSaved
    <3>4. BeingSaved \subseteq BeingSaved'
      BY <2>3, <3>1 DEF BeingSaved
    <3> QED
      BY <3>1, <3>3, <3>4 DEF SaveState, PageSaved, Grown
  <2> QED
    BY <2>4, <2>5
<1>3. CASE OpenPassengers(r)
  <2>1. Shows(r, Opened(req[r].trip, req[r])) /\ req'[r] = Idle /\ At(r, "OpenPassengers")
    BY <1>3 DEF OpenPassengers, Go
  <2>2. \A q \in Requests : req[q].pc \in {"VisitRead", "VisitWrite"} => req'[q] = req[q]
    BY <1>1, <2>1 DEF At
  <2>3. CASE ~req[r].here
    BY <2>1, <2>2, <2>3, PageFrame DEF Shows, SaveState
  <2>4. CASE req[r].here
    <3>1. page'.trip = req[r].trip /\ page'.arrived = ToSet(req[r].visited)
      BY <2>1, <2>4 DEF Shows, Opened
    <3> QED
      BY <2>1, <3>1 DEF SaveState, SlotSaved, PageSaved, Grown
  <2> QED
    BY <2>3, <2>4
<1>4. CASE VisitRead(r) \/ VisitWrite(r)
  <2>1. page' = page
    BY <1>4 DEF VisitRead, VisitWrite, Read
  <2>2. SlotSaved(r)'
    BY SlotStep
  <2>3. req'[r].trip = req[r].trip /\ req'[r].stop = req[r].stop
        /\ req'[r].pc \in {"VisitWrite", "NotifyFind"}
    <3>1. CASE VisitRead(r)
      <4>1. req'[r] \in {[Then(r, "VisitWrite") EXCEPT
                             !.visited = Append(trips[req[r].trip].visited, req[r].stop)],
                         Then(r, "NotifyFind")}
        BY <3>1 DEF VisitRead, Read, Go
      <4> QED
        BY <1>1, <4>1 DEF Then, Handler
    <3>2. CASE VisitWrite(r)
      <4>1. req'[r] = [Then(r, "NotifyFind") EXCEPT !.visited = <<>>]
        BY <3>2 DEF VisitWrite, Go
      <4> QED
        BY <1>1, <4>1 DEF Then, Handler
    <3> QED
      BY <1>4, <3>1, <3>2
  <2>4. \A q \in Requests : req[q].pc \in {"VisitRead", "VisitWrite"} =>
             \/ /\ req'[q].pc \in {"VisitRead", "VisitWrite"}
                /\ req'[q].trip = req[q].trip /\ req'[q].stop = req[q].stop
             \/ req[q].trip \in DOMAIN trips' => req[q].stop \in ToSet(trips'[req[q].trip].visited)
    BY <1>1, <2>2, <2>3 DEF SlotSaved
  <2> QED
    BY <2>1, <2>4, PageFrame DEF SaveState
<1>5. CASE ~ArriveShow(r) /\ ~OpenPassengers(r) /\ ~VisitRead(r) /\ ~VisitWrite(r)
  <2>1. req[r].pc \notin {"ArriveShow", "OpenPassengers", "VisitRead", "VisitWrite"}
    BY <1>5, Place DEF Handle, At
  <2>2. page'.trip = page.trip /\ page'.arrived = page.arrived
    <3>1. CASE CompleteWrite(r)
      BY <3>1 DEF CompleteWrite, Shows, Finished, Page
    <3>2. CASE PresentUpdate(r)
      BY <3>2 DEF PresentUpdate, Shows, Page
    <3>3. CASE ~CompleteWrite(r) /\ ~PresentUpdate(r)
      <4>1. req[r].pc \notin {"CompleteWrite", "PresentUpdate"}
        BY <3>3, Place DEF Handle, At
      <4> QED
        BY <2>1, <4>1, HandleFrame
    <3> QED
      BY <3>1, <3>2, <3>3
  <2> QED
    BY <1>1, <2>1, <2>2, PageFrame DEF SaveState
<1> QED
  BY <1>2, <1>3, <1>4, <1>5

\* One step of a slot: what passengers were told.
LEMMA ToldStep ==
  ASSUME IInv, SaveState, Grown, NEW r \in Requests, Handle(r)
  PROVE  ToldSaved'
<1>1. CASE NotifySend(r)
  <2>1. PICK b \in req[r].rows : told' \in {told, told \cup {<<b, req[r].trip, req[r].stop>>}}
    BY <1>1 DEF NotifySend
  <2>2. req[r].trip \in DOMAIN trips => req[r].stop \in ToSet(trips[req[r].trip].visited)
    BY <1>1, Place DEF SaveState, SlotSaved, At
  <2> DEFINE n == <<b, req[r].trip, req[r].stop>>
  <2>3. n[2] = req[r].trip /\ n[3] = req[r].stop
    OBVIOUS
  <2> HIDE DEF n
  <2>4. \A m \in told' : m \in told \/ m = n
    BY <2>1 DEF n
  <2> QED
    BY <2>2, <2>3, <2>4 DEF SaveState, ToldSaved, Grown
<1>2. CASE ~NotifySend(r)
  <2>1. req[r].pc # "NotifySend"
    BY <1>2, Place DEF Handle, At
  <2> QED
    BY <2>1, HandleFrame, ToldFrame DEF SaveState
<1> QED
  BY <1>1, <1>2

LEMMA SaveStep ==
  ASSUME IInv, StopInv, SaveInv, Next, broken' = broken \cup Breaks,
         Kept({"visit", "page", "crash"})'
  PROVE  SaveState'
<1> USE DEF IInv, TypeOK
<1>1. SaveState /\ Grown /\ SamePage /\ ~Crash
  <2>1. \A d \in {"visit", "page", "crash"} : d \notin broken /\ d \notin Breaks
    BY DEF Kept
  <2>2. SamePage /\ ~Crash
    BY <2>1 DEF Breaks
  <2>3. Kept({"visit"}) /\ Kept({"visit", "page", "crash"})
    BY <2>1 DEF Kept
  <2> QED
    BY <2>2, <2>3, TripsGrow DEF SaveInv
<1>2. CASE \E r \in Requests : Click(r)
  <2>1. PICK r \in Requests : Click(r)
    BY <1>2
  <2>2. /\ At(r, "idle") /\ told' = told /\ page' = page /\ Follows(req[r].pc, req'[r].pc)
        /\ \A q \in Requests \ {r} : req'[q] = req[q]
    BY <2>1, ClickFlow DEF tables
  <2>3. SlotSaved(r)'
    BY <2>2, SlotElsewhere DEF At, Follows
  <2>4. \A q \in Requests : SlotSaved(q)'
    BY <1>1, <2>2, <2>3, SlotFrame DEF SaveState
  <2>5. PageSaved'
    BY <1>1, <2>2, PageFrame DEF SaveState, At
  <2> QED
    BY <1>1, <2>2, <2>4, <2>5, ToldFrame DEF SaveState
<1>3. CASE \E r \in Requests : Handle(r)
  <2>1. PICK r \in Requests : Handle(r)
    BY <1>3
  <2>2. SlotSaved(r)' /\ PageSaved' /\ ToldSaved'
    BY <1>1, <2>1, SlotStep, PageStep, ToldStep
  <2>3. \A q \in Requests \ {r} : req'[q] = req[q]
    BY <2>1, HandleFlow
  <2>4. \A q \in Requests : SlotSaved(q)'
    BY <1>1, <2>2, <2>3, SlotFrame DEF SaveState
  <2> QED
    BY <2>2, <2>4 DEF SaveState
<1>4. CASE OpenAccept
  <2>1. page' = Blank /\ told' = told
    BY <1>4, OpenFlow DEF tables
  <2>2. PageSaved'
    <3>1. page'.trip = 0 /\ 0 \notin DOMAIN trips'
      BY <1>1, <2>1, TripsAssumption DEF Blank, TripsOK, Grown
    <3> QED
      BY <3>1 DEF PageSaved
  <2>3. ASSUME NEW q \in Requests PROVE SlotSaved(q)'
    <3>1. \/ req'[q].pc \in {"idle", "OpenBus"}
          \/ /\ req'[q].pc = req[q].pc /\ req'[q].trip = req[q].trip
             /\ req'[q].stop = req[q].stop /\ req'[q].visited = req[q].visited
      BY <1>4, OpenFlow
    <3> QED
      BY <1>1, <3>1, SlotFrame, SlotElsewhere DEF SaveState
  <2> QED
    BY <1>1, <2>1, <2>2, <2>3, ToldFrame DEF SaveState
<1>5. CASE Book \/ Update \/ RemoveCall \/ RemoveTrip
  <2>1. told' = told /\ page' = page /\ req' = req
    BY <1>5 DEF Book, Update, RemoveCall, RemoveTrip
  <2>2. \A q \in Requests : SlotSaved(q)'
    BY <1>1, <2>1, SlotFrame DEF SaveState
  <2>3. PageSaved'
    BY <1>1, <2>1, PageFrame DEF SaveState
  <2> QED
    BY <1>1, <2>1, <2>2, <2>3, ToldFrame DEF SaveState
<1> QED
  BY <1>1, <1>2, <1>3, <1>4, <1>5 DEF Next

LEMMA SaveStart == DisciplineInit => SaveInv
<1> SUFFICES ASSUME DisciplineInit PROVE SaveState
  BY DEF SaveInv
<1>1. told = {} /\ \A r \in Requests : req[r].pc = "idle"
  BY DEF DisciplineInit, Init, Idle
<1>2. page.arrived = {}
  <2>1. PICK b \in ToSet(drivers), route \in Routes :
          trips = [t \in TripIds |-> [bus |-> b, route |-> route, visited |-> <<>>]]
    BY DEF DisciplineInit, Init
  <2>2. \A t \in TripIds : Opened(t, trips[t]).arrived = {}
    BY <2>1 DEF Opened, ToSet
  <2> QED
    BY <2>2 DEF DisciplineInit, Init, Blank
<1> QED
  BY <1>1, <1>2 DEF SaveState, ToldSaved, PageSaved, SlotSaved, At

\* Passengers are told of a stop only once it is saved, and a stop that the driver's page
\* shows as reached is saved or about to be, for any number of trips, stops and clicks:
\* as long as no two stops of a trip are saved at the same time, no request is lost in a
\* crash and the second fetch of the page does not change its trip under a click.
THEOREM StopsSaved == DisciplineSpec => []Saved
<1> DEFINE step == Next /\ broken' = broken \cup Breaks
<1>1. DisciplineInit => IInv /\ StopInv /\ SaveInv
  BY InitInv, StopInit, SaveStart DEF DisciplineInit
<1>2. IInv /\ StopInv /\ SaveInv /\ [step]_<<vars, broken>> => (IInv /\ StopInv /\ SaveInv)'
  <2> SUFFICES ASSUME IInv, StopInv, SaveInv, [step]_<<vars, broken>>
               PROVE  IInv' /\ StopInv' /\ SaveInv'
    OBVIOUS
  <2>1. IInv'
    BY NextInv
  <2>2. CASE step
    BY <2>1, <2>2, StopStep, SaveStep DEF StopInv, SaveInv
  <2>3. CASE UNCHANGED <<vars, broken>>
    <3>1. StopInv'
      BY <2>3 DEF StopInv, OneVisit, Visiting, Extending, Kept, At, vars, tables
    <3>2. SaveInv'
      BY <2>3 DEF SaveInv, SaveState, ToldSaved, PageSaved, SlotSaved, BeingSaved, Kept, At, vars, tables
    <3> QED
      BY <2>1, <3>1, <3>2
  <2> QED
    BY <2>2, <2>3
<1>3. SaveInv => Saved
  BY DEF SaveInv, SaveState, ToldSaved, PageSaved, BeingSaved, Saved
<1> QED
  BY <1>1, <1>2, <1>3, PTL DEF DisciplineSpec

-----------------------------------------------------------------------------
(* Trips that are counted. *)

\* A booking keeps its passenger and its trip, and is not taken out of its table.
RowsStay == \A b \in Bookings :
    /\ bookings'[b].user = bookings[b].user /\ bookings'[b].trip = bookings[b].trip
    /\ bookings'[b].status = "Absent" => bookings[b].status = "Absent"

\* A slot whose completion goes on as before.
SameSlot(q) == /\ Counting(q)' <=> Counting(q)
               /\ Counting(q) => req'[q].trip = req[q].trip /\ req'[q].rows = req[q].rows

\* No user's trips are counted, and no booking counts that did not.
Fewer == /\ \A b \in Bookings : InCount(b)' => InCount(b)
         /\ \A u \in Users : counts[u] <= counts'[u]

Steady == (\A b \in Bookings : InCount(b)' <=> InCount(b)) /\ counts' = counts

\* One booking is counted.
One(b) == /\ \A c \in Bookings : InCount(c)' <=> InCount(c) \/ c = b
          /\ counts' = [counts EXCEPT ![bookings[b].user] = @ + 1]

\* A booking that was completed is given no other status.
Settled == \A b \in Bookings : bookings[b].status # bookings'[b].status =>
    bookings[b].status # "Completed" /\ bookings'[b].status # "Expired"

LEMMA SteadyFrame ==
  ASSUME bookings' = bookings, counts' = counts, \A q \in Requests : SameSlot(q)
  PROVE  Steady
BY DEF Steady, SameSlot, InCount

LEMMA SteadyFewer ==
  ASSUME counts \in [Users -> Nat], Steady
  PROVE  Fewer
BY DEF Steady, Fewer

LEMMA FindCounts ==
  ASSUME IInv, NEW r \in Requests, CompleteFind(r)
  PROVE  /\ Steady /\ bookings' = bookings /\ Counting(r)' /\ ~Counting(r)
         /\ req'[r].trip = req[r].trip /\ req'[r].rows = BookingsOf(req[r].trip)
         /\ At(r, "CompleteWrite")' => req'[r].rows = {}
<1> USE DEF IInv, TypeOK
<1> DEFINE rows == BookingsOf(req[r].trip)
           statement == IF rows = {} THEN "CompleteWrite" ELSE "CompleteCount"
           g == [Then(r, statement) EXCEPT !.rows = rows]
<1>1. /\ req'[r] = g /\ \A q \in Requests \ {r} : req'[q] = req[q]
      /\ bookings' = bookings /\ counts' = counts /\ req[r].pc = "CompleteFind"
  BY DEF CompleteFind, Read, Go, At, tables
<1> HIDE DEF rows, statement
<1>2. g.pc = statement /\ g.trip = req[r].trip /\ g.rows = rows
  BY HandlerGood DEF Then, Handler
<1>3. statement \in {"CompleteWrite", "CompleteCount"} /\ (statement = "CompleteWrite" => rows = {})
  BY DEF statement
<1>4. Counting(r)' /\ ~Counting(r) /\ (At(r, "CompleteWrite")' => req'[r].rows = {})
  BY <1>1, <1>2, <1>3 DEF Counting, At
<1>5. ASSUME NEW b \in Bookings PROVE InCount(b)' <=> InCount(b)
  <2>1. bookings[b].status # "Absent" /\ bookings[b].trip = req[r].trip => b \in rows
    BY DEF rows, BookingsOf
  <2>2. bookings[b].status # "Absent" => ~(req'[r].trip = bookings[b].trip /\ b \notin req'[r].rows)
    BY <1>1, <1>2, <2>1
  <2>3. \A q \in Requests \ {r} : Counting(q)' <=> Counting(q)
    BY <1>1 DEF Counting
  <2> QED
    BY <1>1, <1>4, <2>2, <2>3 DEF InCount
<1> QED
  BY <1>1, <1>2, <1>4, <1>5 DEF Steady, rows

LEMMA CountCounts ==
  ASSUME IInv, RowState, NEW r \in Requests, CompleteCount(r)
  PROVE  \E b \in req[r].rows :
            /\ One(b) /\ b \in Bookings /\ bookings' = bookings
            /\ bookings[b].trip = req[r].trip /\ Counting(r) /\ Counting(r)'
            /\ req'[r].trip = req[r].trip /\ req'[r].rows = req[r].rows \ {b}
            /\ At(r, "CompleteWrite")' => req'[r].rows = {}
<1> USE DEF IInv, TypeOK
<1>1. PICK b \in req[r].rows :
        /\ counts' = [counts EXCEPT ![bookings[b].user] = @ + 1]
        /\ Go(r, [Then(r, IF req[r].rows \ {b} = {} THEN "CompleteWrite" ELSE "CompleteCount")
                     EXCEPT !.rows = req[r].rows \ {b}])
  BY DEF CompleteCount
<1> DEFINE left == req[r].rows \ {b}
           statement == IF left = {} THEN "CompleteWrite" ELSE "CompleteCount"
           g == [Then(r, statement) EXCEPT !.rows = left]
<1>2. /\ req'[r] = g /\ \A q \in Requests \ {r} : req'[q] = req[q]
      /\ bookings' = bookings /\ At(r, "CompleteCount")
  BY <1>1 DEF CompleteCount, Go
<1> HIDE DEF left, statement
<1>3. g.pc = statement /\ g.trip = req[r].trip /\ g.rows = left
  BY HandlerGood DEF Then, Handler
<1>4. statement \in {"CompleteWrite", "CompleteCount"} /\ (statement = "CompleteWrite" => left = {})
  BY DEF statement
<1>5. Counting(r) /\ Counting(r)' /\ (At(r, "CompleteWrite")' => req'[r].rows = {})
  BY <1>2, <1>3, <1>4 DEF Counting, At
<1>6. b \in Bookings /\ bookings[b].status # "Absent" /\ bookings[b].trip = req[r].trip
  BY <1>2 DEF RowState, SlotRows, BookingsOf
<1>7. ASSUME NEW c \in Bookings PROVE InCount(c)' <=> InCount(c) \/ c = b
  <2>1. c \notin left <=> c \notin req[r].rows \/ c = b
    BY DEF left
  <2>2. \A q \in Requests \ {r} : Counting(q)' <=> Counting(q)
    BY <1>2 DEF Counting
  <2>3. req'[r].trip = req[r].trip /\ req'[r].rows = left
    BY <1>2, <1>3
  <2> HIDE DEF g
  <2>4. CASE c = b
    BY <1>2, <1>5, <1>6, <2>1, <2>3, <2>4 DEF InCount
  <2>5. CASE c # b
    BY <1>2, <1>5, <2>1, <2>2, <2>3, <2>5 DEF InCount
  <2> QED
    BY <2>4, <2>5
<1>8. One(b)
  BY <1>1, <1>7 DEF One
<1> QED
  BY <1>2, <1>3, <1>5, <1>6, <1>8 DEF left

LEMMA WriteCounts ==
  ASSUME IInv, RowState, NEW r \in Requests, CompleteWrite(r)
  PROVE  /\ Steady /\ RowsStay /\ ~Counting(r)' /\ Counting(r)
         /\ \A b \in Bookings : bookings'[b] = IF b \in BookingsOf(req[r].trip)
               THEN [bookings[b] EXCEPT !.status = "Completed"] ELSE bookings[b]
<1> USE DEF IInv, TypeOK
<1>1. /\ req'[r] = Idle /\ \A q \in Requests \ {r} : req'[q] = req[q]
      /\ counts' = counts /\ At(r, "CompleteWrite")
      /\ \A b \in Bookings : bookings'[b] = IF b \in BookingsOf(req[r].trip)
            THEN [bookings[b] EXCEPT !.status = "Completed"] ELSE bookings[b]
  BY DEF CompleteWrite, Go
<1>2. req[r].rows = {} /\ Counting(r) /\ ~Counting(r)'
  BY <1>1 DEF RowState, SlotRows, Counting, At, Idle
<1>3. ASSUME NEW b \in Bookings
      PROVE  /\ bookings'[b].user = bookings[b].user /\ bookings'[b].trip = bookings[b].trip
             /\ bookings'[b].status = IF b \in BookingsOf(req[r].trip)
                                      THEN "Completed" ELSE bookings[b].status
  BY <1>1 DEF Booking
<1>4. \A q \in Requests \ {r} : Counting(q)' <=> Counting(q)
  BY <1>1 DEF Counting
<1>5. ASSUME NEW b \in Bookings PROVE InCount(b)' <=> InCount(b)
  <2>1. CASE b \in BookingsOf(req[r].trip)
    BY <1>2, <1>3, <2>1 DEF InCount, BookingsOf
  <2>2. CASE b \notin BookingsOf(req[r].trip)
    BY <1>1, <1>2, <1>3, <1>4, <2>2 DEF InCount, BookingsOf
  <2> QED
    BY <2>1, <2>2
<1> QED
  BY <1>1, <1>2, <1>3, <1>5 DEF Steady, RowsStay

\* A slot that does not move, or is not at a statement with rows of bookings.
LEMMA RowsFrame ==
  ASSUME IInv, RowsStay, NEW q \in Requests, SlotRows(q),
         req'[q].pc = req[q].pc, req'[q].trip = req[q].trip, req'[q].rows = req[q].rows
  PROVE  SlotRows(q)'
<1>1. At(q, "PresentUpdate") => req[q].rows \subseteq Bookings
  BY HandlerGood DEF IInv, TypeOK, Good, At
<1>2. ASSUME At(q, "CompleteCount")', NEW b \in req'[q].rows
      PROVE  b \in BookingsOf(req[q].trip)'
  <2>1. b \in Bookings /\ bookings[b].status # "Absent" /\ bookings[b].trip = req[q].trip
    BY <1>2 DEF SlotRows, BookingsOf, At
  <2> QED
    BY <2>1 DEF BookingsOf, RowsStay
<1>3. At(q, "PresentUpdate")' => \A b \in req'[q].rows : bookings'[b].status # "Absent"
  BY <1>1 DEF SlotRows, RowsStay, At
<1>4. At(q, "CompleteWrite")' => req'[q].rows = {}
  BY DEF SlotRows, At
<1> QED
  BY <1>2, <1>3, <1>4 DEF SlotRows

LEMMA RowsElsewhere ==
  ASSUME NEW q \in Requests, req'[q].pc \notin {"CompleteCount", "CompleteWrite", "PresentUpdate"}
  PROVE  SlotRows(q)'
BY DEF SlotRows, At

LEMMA PresentCounts ==
  ASSUME IInv, RowState, NEW r \in Requests, PresentUpdate(r)
  PROVE  /\ Fewer /\ RowsStay /\ ~Counting(r) /\ ~Counting(r)' /\ (Settled => Steady)
         /\ \A b \in Bookings : bookings'[b].status \in {bookings[b].status, "OnRoad"}
<1> USE DEF IInv, TypeOK
<1>1. PICK b \in req[r].rows : bookings' = [bookings EXCEPT ![b].status = "OnRoad"]
  BY DEF PresentUpdate
<1>2. /\ At(r, "PresentUpdate") /\ req'[r] = Idle /\ counts' = counts
      /\ \A q \in Requests \ {r} : req'[q] = req[q]
  BY DEF PresentUpdate, Go
<1>3. b \in Bookings /\ bookings[b].status # "Absent"
  BY <1>2, HandlerGood DEF RowState, SlotRows, At, Good
<1>4. ~Counting(r) /\ ~Counting(r)'
  BY <1>2 DEF Counting, At, Idle
<1>5. \A q \in Requests : (Counting(q)' <=> Counting(q)) /\ (Counting(q) => req'[q] = req[q])
  BY <1>2, <1>4 DEF Counting
<1>6. ASSUME NEW c \in Bookings
      PROVE  /\ bookings'[c].user = bookings[c].user /\ bookings'[c].trip = bookings[c].trip
             /\ bookings'[c].status = IF c = b THEN "OnRoad" ELSE bookings[c].status
  BY <1>1, <1>3 DEF Booking
<1>7. RowsStay
  BY <1>6 DEF RowsStay
<1>8. ASSUME NEW c \in Bookings
      PROVE  /\ InCount(c)' => InCount(c)
             /\ bookings[c].status # "Completed" \/ c # b => (InCount(c)' <=> InCount(c))
  BY <1>3, <1>5, <1>6 DEF InCount
<1>9. Settled => bookings[b].status # "Completed"
  BY <1>3, <1>6 DEF Settled
<1>10. Fewer
  BY <1>2, <1>8 DEF Fewer
<1>11. Settled => Steady
  BY <1>2, <1>8, <1>9 DEF Steady
<1> QED
  BY <1>4, <1>6, <1>7, <1>10, <1>11

\* The rows are rewritten by completions and marks only.
LEMMA HandleRows ==
  ASSUME IInv, RowState, NEW r \in Requests, Handle(r)
  PROVE  RowsStay /\ RowState'
<1> USE DEF IInv, TypeOK
<1>1. /\ Follows(req[r].pc, req'[r].pc) /\ \A q \in Requests \ {r} : req'[q] = req[q]
  BY HandleFlow
<1>2. RowsStay
  <2>1. CASE CompleteWrite(r) \/ PresentUpdate(r)
    BY <2>1, WriteCounts, PresentCounts
  <2>2. CASE ~CompleteWrite(r) /\ ~PresentUpdate(r)
    <3>1. req[r].pc \notin {"CompleteWrite", "PresentUpdate"}
      BY <2>2, Place DEF Handle, At
    <3> QED
      BY <3>1, HandleFrame DEF RowsStay
  <2> QED
    BY <2>1, <2>2
<1>3. SlotRows(r)'
  <2>1. CASE CompleteFind(r)
    <3>1. /\ bookings' = bookings /\ Counting(r)' /\ req'[r].trip = req[r].trip
          /\ req'[r].rows = BookingsOf(req[r].trip)
          /\ At(r, "CompleteWrite")' => req'[r].rows = {}
      BY <2>1, FindCounts
    <3> QED
      BY <3>1 DEF SlotRows, Counting, At, BookingsOf
  <2>2. CASE CompleteCount(r)
    <3>1. PICK b : /\ bookings' = bookings /\ Counting(r)'
                   /\ req'[r].trip = req[r].trip /\ req'[r].rows = req[r].rows \ {b}
                   /\ At(r, "CompleteWrite")' => req'[r].rows = {}
      BY <2>2, CountCounts
    <3>2. req[r].rows \subseteq BookingsOf(req[r].trip)
      BY <2>2, Place DEF RowState, SlotRows
    <3> QED
      BY <3>1, <3>2 DEF SlotRows, Counting, At, BookingsOf
  <2>3. CASE PresentFind(r)
    <3>1. CASE req'[r].pc = "PresentUpdate"
      <4>1. ~Read(r, "PresentFind", Idle)
        BY <3>1 DEF Read, Go, Idle
      <4>2. PICK b \in Bookings :
                /\ bookings[b].status # "Absent"
                /\ Read(r, "PresentFind", [Then(r, "PresentUpdate") EXCEPT !.rows = {b}])
        BY <2>3, <4>1 DEF PresentFind
      <4>3. req'[r] = [Then(r, "PresentUpdate") EXCEPT !.rows = {b}] /\ bookings' = bookings
        BY <4>2 DEF Read, Go, tables
      <4>4. req'[r].rows = {b}
        BY <4>3, HandlerGood DEF Then, Handler
      <4> QED
        BY <3>1, <4>2, <4>3, <4>4 DEF SlotRows, At
    <3>2. CASE req'[r].pc # "PresentUpdate"
      BY <1>1, <2>3, <3>2, Place, RowsElsewhere DEF Follows, At
    <3> QED
      BY <3>1, <3>2
  <2>4. CASE ~CompleteFind(r) /\ ~CompleteCount(r) /\ ~PresentFind(r)
    <3>1. req[r].pc \notin {"CompleteFind", "CompleteCount", "PresentFind"}
      BY <2>4, Place DEF Handle, At
    <3> QED
      BY <1>1, <3>1, RowsElsewhere DEF Follows
  <2> QED
    BY <2>1, <2>2, <2>3, <2>4
<1> QED
  BY <1>1, <1>2, <1>3, RowsFrame DEF RowState

\* A statement of a slot counts one booking, or none and forgets none that it need not.
LEMMA HandleCounts ==
  ASSUME IInv, RowState, NEW r \in Requests, Handle(r)
  PROVE  \/ Fewer /\ (Settled => Steady)
         \/ \E b \in req[r].rows \cap Bookings :
               /\ One(b) /\ bookings' = bookings
               /\ bookings[b].trip = req[r].trip /\ Counting(r)
<1> USE DEF IInv, TypeOK
<1>1. CASE CompleteFind(r) \/ CompleteWrite(r)
  BY <1>1, FindCounts, WriteCounts, SteadyFewer
<1>2. CASE CompleteCount(r)
  BY <1>2, CountCounts
<1>3. CASE PresentUpdate(r)
  BY <1>3, PresentCounts
<1>4. CASE ~CompleteFind(r) /\ ~CompleteCount(r) /\ ~CompleteWrite(r) /\ ~PresentUpdate(r)
  <2>1. req[r].pc \notin {"CompleteFind", "CompleteCount", "CompleteWrite", "PresentUpdate"}
    BY <1>4, Place DEF Handle, At
  <2>2. bookings' = bookings /\ counts' = counts
    BY <2>1, HandleFrame
  <2>3. \A q \in Requests : SameSlot(q)
    BY <2>1, HandleFlow DEF Follows, SameSlot, Counting
  <2> QED
    BY <2>2, <2>3, SteadyFrame, SteadyFewer
<1> QED
  BY <1>1, <1>2, <1>3, <1>4

\* A crash leaves no slot in a completion, nor in marking a passenger.
LEMMA CrashSlots ==
  ASSUME IInv, Crash
  PROVE  /\ bookings' = bookings /\ counts' = counts
         /\ \A q \in Requests :
               req'[q].pc \notin {"CompleteCount", "CompleteWrite", "PresentUpdate"}
<1>1. ASSUME NEW q \in Requests
      PROVE  req'[q].pc \notin {"CompleteCount", "CompleteWrite", "PresentUpdate"}
  <2>1. req'[q] \in {Finish(req[q]), Idle} \/ (req'[q] = req[q] /\ At(q, "ArriveShow"))
    BY DEF Crash
  <2>2. Finish(req[q]).pc \in {"CompleteFind", "idle"} /\ Idle.pc = "idle"
    BY HandlerGood DEF IInv, TypeOK, Idle, Finish, Handler
  <2> QED
    BY <2>1, <2>2 DEF At
<1> QED
  BY <1>1 DEF Crash, tables

LEMMA UpdateCounts ==
  ASSUME IInv, Update
  PROVE  /\ Fewer /\ RowsStay /\ req' = req /\ (Settled => Steady)
         /\ \A b \in Bookings : bookings'[b].status \in {bookings[b].status, "Cancelled", "Expired"}
<1> USE DEF IInv, TypeOK
<1>1. PICK b \in Bookings, status \in {"Cancelled", "Expired"} :
        /\ bookings[b].status \notin {"Absent", status}
        /\ bookings' = [bookings EXCEPT ![b].status = status]
        /\ counts' = IF status = "Expired"
                     THEN [counts EXCEPT ![bookings[b].user] = @ + 1] ELSE counts
        /\ req' = req
  BY DEF Update
<1>2. ASSUME NEW c \in Bookings
      PROVE  /\ bookings'[c].user = bookings[c].user /\ bookings'[c].trip = bookings[c].trip
             /\ bookings'[c].status = IF c = b THEN status ELSE bookings[c].status
  BY <1>1 DEF Booking
<1>3. RowsStay
  BY <1>1, <1>2 DEF RowsStay
<1>4. ASSUME NEW c \in Bookings
      PROVE  /\ InCount(c)' => InCount(c)
             /\ bookings[c].status # "Completed" \/ c # b => (InCount(c)' <=> InCount(c))
  BY <1>1, <1>2 DEF InCount, Counting
<1>5. \A u \in Users : counts[u] <= counts'[u]
  <2>1. bookings[b].user \in Users
    BY DEF Booking
  <2> QED
    BY <1>1, <2>1
<1>6. Settled => bookings[b].status # "Completed" /\ status # "Expired"
  BY <1>1, <1>2 DEF Settled
<1>7. Settled => Steady
  BY <1>1, <1>4, <1>6 DEF Steady
<1>8. \A c \in Bookings : bookings'[c].status \in {bookings[c].status, "Cancelled", "Expired"}
  BY <1>2
<1> QED
  BY <1>1, <1>3, <1>4, <1>5, <1>7, <1>8 DEF Fewer

LEMMA BookCounts ==
  ASSUME IInv, Book, NoLateBooking
  PROVE  Steady
<1> USE DEF IInv, TypeOK
<1>1. PICK b \in Bookings :
        /\ bookings[b].status = "Absent"
        /\ bookings' = [bookings EXCEPT ![b].status = "Booked"]
        /\ counts' = counts /\ req' = req
  BY DEF Book
<1>2. ASSUME NEW c \in Bookings
      PROVE  /\ bookings'[c].user = bookings[c].user /\ bookings'[c].trip = bookings[c].trip
             /\ bookings'[c].status = IF c = b THEN "Booked" ELSE bookings[c].status
  BY <1>1 DEF Booking
<1>3. \A r \in Requests : ~(Counting(r) /\ req[r].trip = bookings[b].trip)
  <2>1. Completing(bookings[b].trip) = {}
    BY <1>1, <1>2 DEF NoLateBooking
  <2> QED
    BY <2>1 DEF Completing, Counting
<1>4. ASSUME NEW c \in Bookings PROVE InCount(c)' <=> InCount(c)
  BY <1>1, <1>2, <1>3 DEF InCount, Counting
<1> QED
  BY <1>1, <1>4 DEF Steady

LEMMA BookRows ==
  ASSUME IInv, Book
  PROVE  /\ RowsStay /\ req' = req
         /\ \A b \in Bookings : bookings'[b].status \in {bookings[b].status, "Booked"}
<1>1. PICK b \in Bookings :
        /\ bookings[b].status = "Absent"
        /\ bookings' = [bookings EXCEPT ![b].status = "Booked"] /\ req' = req
  BY DEF Book
<1> QED
  BY <1>1 DEF IInv, TypeOK, Booking, RowsStay

LEMMA NextRows ==
  ASSUME IInv, RowState, [Next]_vars
  PROVE  RowsStay /\ RowState'
<1> USE DEF IInv, TypeOK
<1>1. CASE \E r \in Requests : Handle(r)
  BY <1>1, HandleRows
<1>2. CASE \E r \in Requests : Click(r)
  <2>1. PICK r \in Requests : Click(r)
    BY <1>2
  <2>2. /\ At(r, "idle") /\ bookings' = bookings /\ Follows(req[r].pc, req'[r].pc)
        /\ \A q \in Requests \ {r} : req'[q] = req[q]
    BY <2>1, ClickFlow DEF tables
  <2>3. RowsStay /\ SlotRows(r)'
    BY <2>2, RowsElsewhere DEF At, Follows, RowsStay
  <2> QED
    BY <2>2, <2>3, RowsFrame DEF RowState
<1>3. CASE OpenAccept
  <2>1. RowsStay
    BY <1>3, OpenFlow DEF tables, RowsStay
  <2>2. ASSUME NEW q \in Requests PROVE SlotRows(q)'
    <3>1. \/ req'[q].pc \in {"idle", "OpenBus"}
          \/ req'[q].pc = req[q].pc /\ req'[q].trip = req[q].trip /\ req'[q].rows = req[q].rows
      BY <1>3, OpenFlow
    <3> QED
      BY <2>1, <3>1, RowsFrame, RowsElsewhere DEF RowState
  <2> QED
    BY <2>1, <2>2 DEF RowState
<1>4. CASE Crash
  <2>1. RowsStay
    BY <1>4, CrashSlots DEF RowsStay
  <2> QED
    BY <1>4, <2>1, CrashSlots, RowsElsewhere DEF RowState
<1>5. CASE Book \/ Update \/ RemoveTrip \/ RemoveCall \/ UNCHANGED vars
  <2>1. RowsStay /\ req' = req
    <3>1. CASE Book \/ Update
      BY <3>1, BookRows, UpdateCounts
    <3>2. CASE RemoveTrip \/ RemoveCall \/ UNCHANGED vars
      BY <3>2 DEF RemoveTrip, RemoveCall, vars, tables, RowsStay
    <3> QED
      BY <1>5, <3>1, <3>2
  <2> QED
    BY <2>1, RowsFrame DEF RowState
<1> QED
  BY <1>1, <1>2, <1>3, <1>4, <1>5 DEF Next

\* Any step counts one booking that a completion still had to count, or none.
LEMMA NextCounts ==
  ASSUME IInv, RowState, [Next]_vars, NoLateBooking \/ UNCHANGED vars
  PROVE  \/ Fewer /\ (Settled /\ ~Crash => Steady)
         \/ \E r \in Requests : \E b \in req[r].rows \cap Bookings :
               /\ One(b) /\ bookings' = bookings
               /\ bookings[b].trip = req[r].trip /\ Counting(r)
<1> USE DEF IInv, TypeOK
<1>1. CASE \E r \in Requests : Handle(r)
  BY <1>1, HandleCounts
<1>2. CASE \E r \in Requests : Click(r)
  <2>1. PICK r \in Requests : Click(r)
    BY <1>2
  <2>2. /\ At(r, "idle") /\ bookings' = bookings /\ counts' = counts
        /\ Follows(req[r].pc, req'[r].pc) /\ \A q \in Requests \ {r} : req'[q] = req[q]
    BY <2>1, ClickFlow DEF tables
  <2>3. \A q \in Requests : SameSlot(q)
    BY <2>2 DEF At, Follows, SameSlot, Counting
  <2> QED
    BY <2>2, <2>3, SteadyFrame, SteadyFewer
<1>3. CASE OpenAccept
  <2>1. \A q \in Requests : SameSlot(q)
    BY <1>3, OpenFlow DEF SameSlot, Counting
  <2> QED
    BY <1>3, <2>1, OpenFlow, SteadyFrame, SteadyFewer DEF tables
<1>4. CASE Crash
  <2>1. bookings' = bookings /\ counts' = counts /\ \A q \in Requests : ~Counting(q)'
    BY <1>4, CrashSlots DEF Counting
  <2>2. Fewer
    BY <2>1 DEF Fewer, InCount
  <2> QED
    BY <1>4, <2>2
<1>5. CASE Book /\ NoLateBooking
  BY <1>5, BookCounts, SteadyFewer
<1>6. CASE Update
  BY <1>6, UpdateCounts
<1>7. CASE RemoveTrip \/ RemoveCall \/ UNCHANGED vars
  <2>1. bookings' = bookings /\ counts' = counts /\ req' = req
    BY <1>7 DEF RemoveTrip, RemoveCall, vars, tables
  <2>2. \A q \in Requests : SameSlot(q)
    BY <2>1 DEF SameSlot, Counting
  <2> QED
    BY <2>1, <2>2, SteadyFrame, SteadyFewer
<1> QED
  BY <1>1, <1>2, <1>3, <1>4, <1>5, <1>6, <1>7 DEF Next

LEMMA CountedFinite ==
  ASSUME NEW u
  PROVE  IsFiniteSet(Counted(u)) /\ Cardinality(Counted(u)) \in Nat
BY FS_Subset, FS_CardinalityType, TripsAssumption DEF Counted

LEMMA OneMore ==
  ASSUME NEW S, IsFiniteSet(S), NEW x
  PROVE  /\ Cardinality(S \cup {x}) \in Nat
         /\ Cardinality(S \cup {x}) <= Cardinality(S) + 1
         /\ x \notin S => Cardinality(S \cup {x}) = Cardinality(S) + 1
<1>1. Cardinality(S) \in Nat
  BY FS_CardinalityType
<1>2. Cardinality(S \cup {x}) = IF x \in S THEN Cardinality(S) ELSE Cardinality(S) + 1
  BY FS_AddElement
<1> QED
  BY <1>1, <1>2

\* Where no booking is counted, nobody has more that count.
LEMMA FewerSets ==
  ASSUME IInv, RowsStay, Fewer, NEW u
  PROVE  Cardinality(Counted(u)') <= Cardinality(Counted(u))
<1>1. Counted(u)' \subseteq Counted(u)
  BY DEF Counted, RowsStay, Fewer
<1> QED
  BY <1>1, CountedFinite, FS_Subset

\* One more of the bookings of its passenger counts, and no other.
LEMMA OneSets ==
  ASSUME IInv, NEW b \in Bookings, One(b), bookings' = bookings, NEW u
  PROVE  Counted(u)' = IF u = bookings[b].user THEN Counted(u) \cup {b} ELSE Counted(u)
BY DEF Counted, One

LEMMA OneCount ==
  ASSUME IInv, NEW b \in Bookings, One(b), NEW u \in Users
  PROVE  counts'[u] = IF u = bookings[b].user THEN counts[u] + 1 ELSE counts[u]
BY DEF IInv, TypeOK, One

LEMMA NotUnderStep ==
  ASSUME IInv, RowState, NotUnder, [Next /\ broken' = broken \cup Breaks]_<<vars, broken>>
  PROVE  NotUnder'
<1> USE DEF IInv, TypeOK
<1> SUFFICES ASSUME Kept({"late"})', NEW u \in Users
             PROVE  Cardinality(Counted(u)') <= counts'[u]
  BY DEF NotUnder
<1>1. [Next]_vars /\ (NoLateBooking \/ UNCHANGED vars) /\ Kept({"late"})
  BY DEF Kept, Breaks
<1>2. Cardinality(Counted(u)) <= counts[u]
  BY <1>1 DEF NotUnder
<1>3. counts[u] \in Nat /\ IsFiniteSet(Counted(u)) /\ Cardinality(Counted(u)) \in Nat
  BY CountedFinite
<1>4. RowsStay
  BY <1>1, NextRows
<1>5. CASE Fewer
  <2>1. Cardinality(Counted(u)') <= Cardinality(Counted(u)) /\ counts[u] <= counts'[u]
    BY <1>4, <1>5, FewerSets DEF Fewer
  <2>2. counts'[u] \in Nat /\ Cardinality(Counted(u)') \in Nat
    <3>1. IInv'
      BY <1>1, NextInv
    <3>2. Counted(u)' \subseteq Bookings
      BY DEF Counted
    <3> QED
      BY <3>1, <3>2, FS_Subset, FS_CardinalityType, TripsAssumption
  <2> QED
    BY <1>2, <1>3, <2>1, <2>2
<1>6. ASSUME NEW b \in Bookings, One(b), bookings' = bookings
      PROVE  Cardinality(Counted(u)') <= counts'[u]
  <2>1. CASE u = bookings[b].user
    <3>1. Counted(u)' = Counted(u) \cup {b} /\ counts'[u] = counts[u] + 1
      BY <1>6, <2>1, OneSets, OneCount
    <3>2. /\ Cardinality(Counted(u) \cup {b}) \in Nat
          /\ Cardinality(Counted(u) \cup {b}) <= Cardinality(Counted(u)) + 1
      BY <1>3, OneMore
    <3> HIDE DEF IInv, TypeOK
    <3> QED
      BY <1>2, <1>3, <3>1, <3>2
  <2>2. CASE u # bookings[b].user
    BY <1>2, <1>6, <2>2, OneSets, OneCount
  <2> QED
    BY <2>1, <2>2
<1> QED
  BY <1>1, <1>5, <1>6, NextCounts

\* At the start nothing counts and no slot is under way.
LEMMA CountStart ==
  ASSUME DisciplineInit
  PROVE  /\ RowState /\ \A r \in Requests : ~Counting(r)
         /\ \A b \in Bookings : bookings[b].status # "Completed"
         /\ \A u \in Users : Counted(u) = {} /\ Cardinality(Counted(u)) = 0 /\ counts[u] = 0
<1>1. \A r \in Requests : req[r].pc = "idle"
  BY DEF DisciplineInit, Init, Idle
<1>2. \A b \in Bookings : bookings[b].status \in {"Absent", "Booked"}
  BY DEF DisciplineInit, Init
<1>3. \A u \in Users : counts[u] = 0
  BY DEF DisciplineInit, Init
<1>4. \A u \in Users : Counted(u) = {}
  BY <1>1, <1>2 DEF Counted, InCount, Counting
<1>5. RowState
  BY <1>1, RowsElsewhere DEF RowState, SlotRows, At
<1>6. \A u \in Users : Cardinality(Counted(u)) = 0
  BY <1>4, FS_EmptySet
<1> QED
  BY <1>1, <1>2, <1>3, <1>4, <1>5, <1>6 DEF Counting

\* A user's completed bookings.
CompletedOf(u) == {b \in Bookings : bookings[b].user = u /\ bookings[b].status = "Completed"}

\* Nobody's trips are undercounted, for any number of users, bookings, trips and clicks:
\* through crashes in the middle of a completion, completions that are repeated or overlap
\* and whatever the office does to the statuses, as long as nothing is booked on a trip
\* while it is being completed.
THEOREM TripsNotUndercounted == DisciplineSpec => []NotUndercounted
<1> DEFINE step == Next /\ broken' = broken \cup Breaks
<1>1. DisciplineInit => IInv /\ RowState /\ NotUnder
  BY InitInv, CountStart DEF DisciplineInit, NotUnder
<1>2. IInv /\ RowState /\ NotUnder /\ [step]_<<vars, broken>> => (IInv /\ RowState /\ NotUnder)'
  BY NextInv, NextRows, NotUnderStep
<1>3. IInv /\ NotUnder => NotUndercounted
  <2> SUFFICES ASSUME IInv, NotUnder, Kept({"late"}), NEW u \in Users
               PROVE  Cardinality(CompletedOf(u)) <= counts[u]
    BY DEF NotUndercounted, CompletedOf
  <2>1. CompletedOf(u) \subseteq Counted(u)
    BY DEF CompletedOf, Counted, InCount
  <2>2. Cardinality(CompletedOf(u)) <= Cardinality(Counted(u)) /\ Cardinality(CompletedOf(u)) \in Nat
    BY <2>1, CountedFinite, FS_Subset, FS_CardinalityType
  <2> QED
    BY <2>2, CountedFinite DEF NotUnder, IInv, TypeOK
<1> QED
  BY <1>1, <1>2, <1>3, PTL DEF DisciplineSpec

\* Only a trip that is not completed is being completed, as long as completions of a trip
\* neither overlap nor are repeated.
LEMMA OnceStep ==
  ASSUME IInv, RowState, OnceOnly, OneCompletion, [Next]_vars,
         (\A r \in Requests : CompleteFind(r) => NoRepeat) /\ ~Crash
  PROVE  OnceOnly'
<1> USE DEF IInv, TypeOK
<1>1. RowsStay
  BY NextRows
<1>2. CASE \E r \in Requests : CompleteFind(r)
  <2>1. PICK r \in Requests : CompleteFind(r)
    BY <1>2
  <2>2. /\ bookings' = bookings /\ req'[r].trip = req[r].trip
        /\ \A q \in Requests \ {r} : req'[q] = req[q]
    BY <2>1, FindCounts, HandleFlow DEF Handle
  <2>3. \A b \in BookingsOf(req[r].trip) : bookings[b].status # "Completed"
    BY <2>1 DEF NoRepeat
  <2> QED
    BY <2>2, <2>3 DEF OnceOnly, BookingsOf, Counting
<1>3. CASE \E r \in Requests : CompleteWrite(r)
  <2>1. PICK r \in Requests : CompleteWrite(r)
    BY <1>3
  <2>2. /\ ~Counting(r)' /\ Counting(r) /\ \A q \in Requests \ {r} : req'[q] = req[q]
        /\ \A b \in Bookings : bookings'[b] = IF b \in BookingsOf(req[r].trip)
               THEN [bookings[b] EXCEPT !.status = "Completed"] ELSE bookings[b]
    BY <2>1, WriteCounts, HandleFlow DEF Handle
  <2>3. ASSUME NEW q \in Requests, Counting(q)', NEW b \in Bookings,
               bookings'[b].trip = req'[q].trip
        PROVE  bookings'[b].status # "Completed"
    <3>1. q # r /\ req'[q] = req[q] /\ Counting(q) /\ bookings[b].trip = req[q].trip
      BY <1>1, <2>2, <2>3 DEF RowsStay, Counting
    <3>2. req[q].trip # req[r].trip
      <4> SUFFICES ASSUME req[q].trip = req[r].trip PROVE FALSE
        OBVIOUS
      <4>1. q \in Completing(bookings[b].trip) /\ r \in Completing(bookings[b].trip)
        BY <2>2, <3>1 DEF Completing, Counting
      <4>2. bookings[b].trip \in TripIds
        BY DEF Booking
      <4>3. /\ Completing(bookings[b].trip) \in SUBSET Requests
            /\ Cardinality(Completing(bookings[b].trip)) <= 1
        BY <4>2 DEF Completing, OneCompletion
      <4> QED
        BY <3>1, <4>1, <4>3, AtMostOne
    <3> QED
      BY <2>2, <3>1, <3>2 DEF BookingsOf, OnceOnly
  <2> QED
    BY <2>3 DEF OnceOnly
<1>4. CASE (\A r \in Requests : ~CompleteFind(r) /\ ~CompleteWrite(r))
  <2>1. ASSUME NEW q \in Requests
        PROVE  Counting(q)' => Counting(q) /\ req'[q].trip = req[q].trip
    <3>1. CASE \E r \in Requests : Handle(r)
      <4>1. PICK r \in Requests : Handle(r)
        BY <3>1
      <4>2. /\ Follows(req[r].pc, req'[r].pc) /\ \A p \in Requests \ {r} : req'[p] = req[p]
        BY <4>1, HandleFlow
      <4>3. CASE q = r
        <5>1. CASE CompleteCount(r)
          BY <4>3, <5>1, CountCounts
        <5>2. CASE ~CompleteCount(r)
          <6>1. req[r].pc \notin {"CompleteFind", "CompleteCount", "CompleteWrite"}
            BY <1>4, <4>1, <5>2, Place DEF Handle, At
          <6> QED
            BY <4>2, <4>3, <6>1 DEF Follows, Counting
        <5> QED
          BY <5>1, <5>2
      <4>4. CASE q # r
        BY <4>2, <4>4 DEF Counting
      <4> QED
        BY <4>3, <4>4
    <3>2. CASE \E r \in Requests : Click(r)
      <4>1. PICK r \in Requests : Click(r)
        BY <3>2
      <4>2. /\ At(r, "idle") /\ Follows(req[r].pc, req'[r].pc)
            /\ \A p \in Requests \ {r} : req'[p] = req[p]
        BY <4>1, ClickFlow
      <4> QED
        BY <4>2 DEF At, Follows, Counting
    <3>3. CASE OpenAccept
      BY <3>3, OpenFlow DEF Counting
    <3>4. CASE Book \/ Update \/ RemoveTrip \/ RemoveCall \/ UNCHANGED vars
      BY <3>4 DEF Book, Update, RemoveTrip, RemoveCall, vars, tables, Counting
    <3> QED
      BY <3>1, <3>2, <3>3, <3>4 DEF Next
  <2>2. ASSUME NEW b \in Bookings
        PROVE  bookings'[b].status = "Completed" => bookings[b].status = "Completed"
    <3>1. CASE \E r \in Requests : Handle(r)
      <4>1. PICK r \in Requests : Handle(r)
        BY <3>1
      <4>2. CASE PresentUpdate(r)
        BY <4>2, PresentCounts
      <4>3. CASE ~PresentUpdate(r)
        <5>1. req[r].pc \notin {"CompleteWrite", "PresentUpdate"}
          BY <1>4, <4>1, <4>3, Place DEF Handle, At
        <5> QED
          BY <4>1, <5>1, HandleFrame
      <4> QED
        BY <4>2, <4>3
    <3>2. CASE \E r \in Requests : Click(r)
      BY <3>2, ClickFlow DEF tables
    <3>3. CASE OpenAccept
      BY <3>3, OpenFlow DEF tables
    <3>4. CASE Book \/ Update
      BY <3>4, BookRows, UpdateCounts
    <3>5. CASE RemoveTrip \/ RemoveCall \/ UNCHANGED vars
      BY <3>5 DEF RemoveTrip, RemoveCall, vars, tables
    <3> QED
      BY <3>1, <3>2, <3>3, <3>4, <3>5 DEF Next
  <2> QED
    BY <1>1, <2>1, <2>2 DEF OnceOnly, RowsStay
<1> QED
  BY <1>2, <1>3, <1>4

\* A booking is counted only by the completion that has it in hand: it did not count before.
LEMMA NotCounted ==
  ASSUME IInv, OnceOnly, OneCompletion, NEW r \in Requests, Counting(r),
         NEW b \in req[r].rows, b \in Bookings, bookings[b].trip = req[r].trip
  PROVE  ~InCount(b)
<1>1. bookings[b].status # "Completed"
  BY DEF OnceOnly
<1>2. ASSUME NEW q \in Requests, Counting(q), req[q].trip = bookings[b].trip PROVE q = r
  <2>1. bookings[b].trip \in TripIds
    BY DEF IInv, TypeOK, Booking
  <2>2. /\ Completing(bookings[b].trip) \in SUBSET Requests
        /\ Cardinality(Completing(bookings[b].trip)) <= 1
    BY <2>1 DEF Completing, OneCompletion
  <2>3. q \in Completing(bookings[b].trip) /\ r \in Completing(bookings[b].trip)
    BY <1>2 DEF Completing, Counting
  <2> QED
    BY <2>2, <2>3, AtMostOne
<1> QED
  BY <1>1, <1>2 DEF InCount

LEMMA ExactStep ==
  ASSUME IInv, RowState, Exact, [Next /\ broken' = broken \cup Breaks]_<<vars, broken>>
  PROVE  Exact'
<1> USE DEF IInv, TypeOK
<1> SUFFICES ASSUME Kept({"complete", "late", "status", "crash"})'
             PROVE  /\ OneCompletion' /\ OnceOnly'
                    /\ \A u \in Users : Cardinality(Counted(u)') = counts'[u]
  BY DEF Exact
<1>1. /\ [Next]_vars /\ Kept({"complete", "late", "status", "crash"})
      /\ UNCHANGED vars \/ (OneCompletion' /\ NoRepeat /\ NoLateBooking /\ Settled /\ ~Crash)
  <2>1. \A d \in {"complete", "late", "status", "crash"} : d \notin broken' /\
           (broken' = broken \cup Breaks => d \notin broken /\ d \notin Breaks)
    BY DEF Kept
  <2>2. CASE UNCHANGED <<vars, broken>>
    BY <2>1, <2>2 DEF Kept
  <2>3. CASE Next /\ broken' = broken \cup Breaks
    <3>1. OneCompletion' /\ NoRepeat /\ NoLateBooking /\ NoOfficeStatus /\ ~Crash
      BY <2>1, <2>3 DEF Breaks
    <3> QED
      BY <2>1, <2>3, <3>1 DEF NoOfficeStatus, Settled, Kept
  <2> QED
    BY <2>2, <2>3
<1>2. OneCompletion /\ OnceOnly /\ \A u \in Users : Cardinality(Counted(u)) = counts[u]
  BY <1>1 DEF Exact
<1>3. CASE UNCHANGED vars
  BY <1>2, <1>3 DEF OneCompletion, Completing, OnceOnly, Counted, InCount, Counting, vars, tables
<1>4. CASE OneCompletion' /\ NoRepeat /\ NoLateBooking /\ Settled /\ ~Crash
  <2>1. OnceOnly'
    BY <1>1, <1>2, <1>4, OnceStep
  <2>2. ASSUME NEW u \in Users PROVE Cardinality(Counted(u)') = counts'[u]
    <3>1. CASE Steady
      <4>1. Counted(u)' = Counted(u)
        BY <1>1, <3>1, NextRows DEF Counted, Steady, RowsStay
      <4> QED
        BY <1>2, <3>1, <4>1 DEF Steady
    <3>2. ASSUME NEW r \in Requests, NEW b \in req[r].rows \cap Bookings, One(b),
                 bookings' = bookings, bookings[b].trip = req[r].trip, Counting(r)
          PROVE  Cardinality(Counted(u)') = counts'[u]
      <4>1. CASE u = bookings[b].user
        <5>1. Counted(u)' = Counted(u) \cup {b} /\ counts'[u] = counts[u] + 1
          BY <3>2, <4>1, OneSets, OneCount
        <5>2. b \notin Counted(u)
          BY <1>2, <3>2, NotCounted DEF Counted
        <5>3. Cardinality(Counted(u) \cup {b}) = Cardinality(Counted(u)) + 1
          BY <5>2, CountedFinite, OneMore
        <5> QED
          BY <1>2, <5>1, <5>3
      <4>2. CASE u # bookings[b].user
        BY <1>2, <3>2, <4>2, OneSets, OneCount
      <4> QED
        BY <4>1, <4>2
    <3> QED
      BY <1>1, <1>4, <3>1, <3>2, NextCounts
  <2> QED
    BY <1>4, <2>1, <2>2
<1> QED
  BY <1>1, <1>3, <1>4

LEMMA ExactStart ==
  ASSUME DisciplineInit
  PROVE  Exact
<1>1. /\ \A r \in Requests : ~Counting(r)
      /\ \A u \in Users : Cardinality(Counted(u)) = counts[u]
  BY CountStart
<1>2. \A t \in TripIds : Completing(t) = {}
  BY <1>1 DEF Completing, Counting
<1>3. OneCompletion
  BY <1>2, FS_EmptySet DEF OneCompletion
<1> QED
  BY <1>1, <1>3 DEF Exact, OnceOnly

\* Between completions count_trips is the number of a user's completed bookings, for any
\* number of users, bookings, trips and clicks: as long as a trip is completed once, by a
\* completion that no crash cuts and no booking joins, and the office leaves the statuses alone.
THEOREM TripsCountedExactly == DisciplineSpec => []CountExact
<1> DEFINE step == Next /\ broken' = broken \cup Breaks
<1>1. DisciplineInit => IInv /\ RowState /\ Exact
  BY InitInv, CountStart, ExactStart DEF DisciplineInit
<1>2. IInv /\ RowState /\ Exact /\ [step]_<<vars, broken>> => (IInv /\ RowState /\ Exact)'
  BY NextInv, NextRows, ExactStep
<1>3. IInv /\ Exact => CountExact
  <2> SUFFICES ASSUME IInv, Exact, Kept({"complete", "late", "status", "crash"}),
                      \A t \in TripIds : Completing(t) = {}, NEW u \in Users
               PROVE  counts[u] = Cardinality(CompletedOf(u))
    BY DEF CountExact, CompletedOf
  <2>1. ASSUME NEW b \in Bookings PROVE InCount(b) <=> bookings[b].status = "Completed"
    <3>1. bookings[b].trip \in TripIds
      BY DEF IInv, TypeOK, Booking
    <3> QED
      BY <3>1 DEF InCount, Counting, Completing
  <2>2. Counted(u) = CompletedOf(u)
    BY <2>1 DEF Counted, CompletedOf
  <2> QED
    BY <2>2 DEF Exact
<1> QED
  BY <1>1, <1>2, <1>3, PTL DEF DisciplineSpec
=============================================================================
