------------------------------- MODULE Trips -------------------------------
(***************************************************************************)
(* The running of trips: the driver's page, the statements it sets off on  *)
(* the server, and the office that moves drivers and answers their calls.  *)
(*   backend/src/busschedules/busschedules.service.ts                      *)
(*   backend/src/bookings/bookings.service.ts    (update, complete...)     *)
(*   backend/src/notifications/notifications.service.ts                    *)
(*   backend/src/drivers/drivers.service.ts                                *)
(*   backend/src/urgentcalls/urgentcalls.service.ts                        *)
(*   frontend/.../DriverPage/context/DriverContext.tsx                     *)
(*   frontend/.../Dashboard/components/UngentCallsManagment.tsx            *)
(*                                                                         *)
(* A slot is one click and the chain of requests the page sends for it;    *)
(* the buttons are not disabled meanwhile, so clicks overlap.              *)
(***************************************************************************)
EXTENDS Integers, FiniteSets, SequencesExt

CONSTANTS
    TripIds, Routes,    \* ids of trips and of routes: numbers from 1 on
    LastStop,           \* stops are 0 .. LastStop
    Users, Linked,      \* users with a Telegram chat
    Bookings,           \* booking ids
    Buses, Drivers,
    Me,                 \* the driver whose page is modelled
    None,
    Requests, Calls,
    MaxRequests         \* bound: clicks in a behaviour

ASSUME TripsAssumption ==
    /\ TripIds \subseteq Nat \ {0} /\ Routes \subseteq Nat \ {0}
    /\ LastStop \in Nat \ {0} /\ MaxRequests \in Nat
    /\ Linked \subseteq Users /\ Me \in Drivers
    /\ None \notin Users \cup Bookings \cup Buses \cup Drivers
    /\ IsFiniteSet(Bookings) /\ IsFiniteSet(Requests)

Stops == 0 .. LastStop
Statuses == {"Absent", "Booked", "Cancelled", "Expired", "OnRoad", "Completed"}

VARIABLES
    trips,      \* rows of busschedules: bus, route, visited_stops
    drivers,    \* drivers.bus_id
    calls,      \* rows of urgentcalls
    bookings,   \* rows of bookings; "Absent" before the insert
    counts,     \* users.count_trips
    told,       \* <<booking, trip, stop>> of the messages delivered by Telegram
    page,       \* what the driver's page shows
    req,        \* the slots
    served      \* clicks so far

tables == <<trips, drivers, calls, bookings, counts, told>>
vars == <<tables, page, req, served>>

Trip == [bus: Buses, route: Routes, visited: Seq(Stops)]
Booking == [user: Users, trip: TripIds, status: Statuses]
Call == [trip: TripIds, driver: Drivers, accepted: BOOLEAN]
Page == [trip: TripIds \cup {0}, route: Routes \cup {0},
         arrived: SUBSET Stops, shown: SUBSET Users, present: SUBSET Users]

Blank == [trip |-> 0, route |-> 0, arrived |-> {}, shown |-> {}, present |-> {}]

\* here: the page that was clicked is still shown.
Idle == [pc |-> "idle", trip |-> 0, route |-> 0, stop |-> 0, visited |-> <<>>,
         rows |-> {}, who |-> None, bus |-> None, here |-> TRUE]

BookingsOf(t) == {b \in Bookings : bookings[b].status # "Absent" /\ bookings[b].trip = t}

At(r, statement) == req[r].pc = statement
Go(r, handler) == req' = [req EXCEPT ![r] = handler]
Then(r, statement) == [req[r] EXCEPT !.pc = statement]

Accept(r, call, handler) ==
    /\ req[r] = Idle /\ call \in Calls /\ served < MaxRequests
    /\ served' = served + 1
    /\ Go(r, handler)

\* A request of the page or the office whose acceptance changes nothing else.
Request(r, call, handler) == Accept(r, call, handler) /\ UNCHANGED <<tables, page>>

\* A page that is left shows nothing any more.
Shows(r, shown) == page' = IF req[r].here THEN shown ELSE page

\* A statement that only reads.
Read(r, statement, handler) ==
    /\ At(r, statement)
    /\ Go(r, handler)
    /\ UNCHANGED <<tables, page, served>>

-----------------------------------------------------------------------------
(* Opening the page: fetchDriverData *)

\* The page of the driver is opened anew, with nothing to click on yet.  It is fetched
\* by the provider and by the component, so twice, unless one of the two fails.
OpenAccept == \E slots \in SUBSET Requests :
    /\ Cardinality(slots) \in {1, 2} /\ \A r \in slots : req[r] = Idle
    /\ "open" \in Calls /\ served < MaxRequests /\ served' = served + 1
    /\ page' = Blank
    /\ req' = [r \in Requests |->
          IF r \in slots THEN [Idle EXCEPT !.pc = "OpenBus"]
          ELSE IF req[r] = Idle THEN Idle ELSE [req[r] EXCEPT !.here = FALSE]]
    /\ UNCHANGED tables

OpenBus(r) == Read(r, "OpenBus", [Then(r, "OpenTrips") EXCEPT !.bus = drivers[Me]])

\* One of today's trips on the bus, by the clock; without any the page stays.
OpenTrips(r) ==
    LET mine == {t \in DOMAIN trips : trips[t].bus = req[r].bus} IN
    \/ mine = {} /\ Read(r, "OpenTrips", Idle)
    \/ \E t \in mine : Read(r, "OpenTrips",
          [Then(r, "OpenPassengers") EXCEPT !.trip = t, !.bus = None,
               !.route = trips[t].route, !.visited = trips[t].visited])

\* What the page shows of a trip whose row was read before.
Opened(t, row) ==
    [trip |-> t, route |-> row.route, arrived |-> ToSet(row.visited),
     shown |-> {bookings[b].user : b \in BookingsOf(t)},
     present |-> {bookings[b].user : b \in {c \in BookingsOf(t) : bookings[c].status = "OnRoad"}}]

OpenPassengers(r) ==
    /\ At(r, "OpenPassengers")
    /\ Shows(r, Opened(req[r].trip, req[r]))
    /\ Go(r, Idle)
    /\ UNCHANGED <<tables, served>>

-----------------------------------------------------------------------------
(* Arriving at a stop: handleArrived *)

ArriveAccept(r) == \E s \in Stops :
    /\ page.trip # 0
    /\ Request(r, "arrive", [Idle EXCEPT !.pc = "ArriveShow", !.trip = page.trip, !.stop = s])

\* After a pause the page shows the stop as reached, before it is saved and
\* whatever trip it shows by then.
ArriveShow(r) ==
    /\ At(r, "ArriveShow")
    /\ Shows(r, [page EXCEPT !.arrived = @ \cup {req[r].stop}])
    /\ Go(r, Then(r, "VisitRead"))
    /\ UNCHANGED <<tables, served>>

\* Mutant: the list is not searched for the stop.
VisitReadBlind(r) ==
    LET h == req[r] IN
    Read(r, "VisitRead",
         IF h.trip \in DOMAIN trips
         THEN [Then(r, "VisitWrite") EXCEPT !.visited = Append(trips[h.trip].visited, h.stop)]
         ELSE Then(r, "NotifyFind"))

VisitRead(r) ==
    LET h == req[r] IN
    Read(r, "VisitRead",
         IF h.trip \in DOMAIN trips /\ h.stop \notin ToSet(trips[h.trip].visited)
         THEN [Then(r, "VisitWrite") EXCEPT !.visited = Append(trips[h.trip].visited, h.stop)]
         ELSE Then(r, "NotifyFind"))

\* Mutant: only the newest stop is stored.
VisitWriteLast(r) ==
    LET h == req[r] IN
    /\ At(r, "VisitWrite")
    /\ trips' = [t \in DOMAIN trips |->
                    IF t = h.trip THEN [trips[t] EXCEPT !.visited = <<h.stop>>] ELSE trips[t]]
    /\ Go(r, [Then(r, "NotifyFind") EXCEPT !.visited = <<>>])
    /\ UNCHANGED <<drivers, calls, bookings, counts, told, page, served>>

VisitWrite(r) ==
    LET h == req[r] IN
    /\ At(r, "VisitWrite")
    /\ trips' = [t \in DOMAIN trips |->
                    IF t = h.trip THEN [trips[t] EXCEPT !.visited = h.visited] ELSE trips[t]]
    /\ Go(r, [Then(r, "NotifyFind") EXCEPT !.visited = <<>>])
    /\ UNCHANGED <<drivers, calls, bookings, counts, told, page, served>>

\* After the messages: the last stop finishes the trip (finishTrip).
Finish(h) == IF h.stop = LastStop
             THEN [h EXCEPT !.pc = "CompleteFind", !.stop = 0, !.visited = <<>>, !.rows = {}]
             ELSE Idle

NotifyFind(r) ==
    LET rows == {b \in BookingsOf(req[r].trip) : bookings[b].user \in Linked} IN
    Read(r, "NotifyFind",
         IF rows = {} THEN Finish(req[r]) ELSE [Then(r, "NotifySend") EXCEPT !.rows = rows])

\* Telegram may refuse a message: the error is swallowed.
NotifySend(r) == \E b \in req[r].rows :
    LET left == req[r].rows \ {b} IN
    /\ At(r, "NotifySend")
    /\ told' \in {told, told \cup {<<b, req[r].trip, req[r].stop>>}}
    /\ Go(r, IF left = {} THEN Finish(req[r]) ELSE [req[r] EXCEPT !.rows = left])
    /\ UNCHANGED <<trips, drivers, calls, bookings, counts, page, served>>

\* Mutant: trips are counted for the bookings that were not cancelled.
CompleteFindLive(r) ==
    LET rows == {b \in BookingsOf(req[r].trip) : bookings[b].status # "Cancelled"} IN
    Read(r, "CompleteFind",
         [Then(r, IF rows = {} THEN "CompleteWrite" ELSE "CompleteCount") EXCEPT !.rows = rows])

CompleteFind(r) ==
    LET rows == BookingsOf(req[r].trip) IN
    Read(r, "CompleteFind",
         [Then(r, IF rows = {} THEN "CompleteWrite" ELSE "CompleteCount") EXCEPT !.rows = rows])

\* One increment per booking, whatever its status.
CompleteCount(r) == \E b \in req[r].rows :
    LET left == req[r].rows \ {b} IN
    /\ At(r, "CompleteCount")
    /\ counts' = [counts EXCEPT ![bookings[b].user] = @ + 1]
    /\ Go(r, [Then(r, IF left = {} THEN "CompleteWrite" ELSE "CompleteCount") EXCEPT !.rows = left])
    /\ UNCHANGED <<trips, drivers, calls, bookings, told, page, served>>

\* The page of a trip that is finished.
Finished == [page EXCEPT !.present = {}]

\* Mutant: a cancelled booking is not completed, although it was counted.
CompleteWriteLive(r) ==
    /\ At(r, "CompleteWrite")
    /\ bookings' = [b \in Bookings |->
          IF b \in BookingsOf(req[r].trip) /\ bookings[b].status # "Cancelled"
          THEN [bookings[b] EXCEPT !.status = "Completed"] ELSE bookings[b]]
    /\ Shows(r, Finished)
    /\ Go(r, Idle)
    /\ UNCHANGED <<trips, drivers, calls, counts, told, served>>

CompleteWrite(r) ==
    /\ At(r, "CompleteWrite")
    /\ bookings' = [b \in Bookings |->
          IF b \in BookingsOf(req[r].trip)
          THEN [bookings[b] EXCEPT !.status = "Completed"] ELSE bookings[b]]
    /\ Shows(r, Finished)
    /\ Go(r, Idle)
    /\ UNCHANGED <<trips, drivers, calls, counts, told, served>>

-----------------------------------------------------------------------------
(* Warning of a delay: the messages name no stop and change nothing *)

DelayAccept(r) ==
    /\ page.trip # 0
    /\ Request(r, "delay", [Idle EXCEPT !.pc = "DelayFind", !.trip = page.trip])

DelayFind(r) ==
    LET rows == {b \in BookingsOf(req[r].trip) : bookings[b].user \in Linked} IN
    Read(r, "DelayFind", IF rows = {} THEN Idle ELSE [Then(r, "DelaySend") EXCEPT !.rows = rows])

DelaySend(r) == \E b \in req[r].rows :
    Read(r, "DelaySend",
         IF req[r].rows = {b} THEN Idle ELSE [req[r] EXCEPT !.rows = @ \ {b}])

-----------------------------------------------------------------------------
(* Marking a passenger present: markPassengerPresent *)

PresentAccept(r) == \E u \in page.shown \ page.present :
    Request(r, "present",
            [Idle EXCEPT !.pc = "PresentFind", !.trip = page.trip, !.route = page.route, !.who = u])

\* The first of the user's bookings whose trip has the id of the page's trip or
\* of its route.
PresentFind(r) ==
    LET rows == {b \in Bookings : /\ bookings[b].status # "Absent"
                                  /\ bookings[b].user = req[r].who
                                  /\ bookings[b].trip \in {req[r].route, req[r].trip}} IN
    \/ rows = {} /\ Read(r, "PresentFind", Idle)
    \/ \E b \in rows : Read(r, "PresentFind", [Then(r, "PresentUpdate") EXCEPT !.rows = {b}])

PresentUpdate(r) == \E b \in req[r].rows :
    /\ At(r, "PresentUpdate")
    /\ bookings' = [bookings EXCEPT ![b].status = "OnRoad"]
    /\ Shows(r, [page EXCEPT !.present = @ \cup {req[r].who}])
    /\ Go(r, Idle)
    /\ UNCHANGED <<trips, drivers, calls, counts, told, served>>

-----------------------------------------------------------------------------
(* Bookings of passengers, as far as they matter here: one statement each. *)

Book == \E b \in Bookings :
    /\ "book" \in Calls /\ served < MaxRequests
    /\ bookings[b].status = "Absent" /\ bookings[b].trip \in DOMAIN trips
    /\ bookings' = [bookings EXCEPT ![b].status = "Booked"]
    /\ served' = served + 1
    /\ UNCHANGED <<trips, drivers, calls, counts, told, page, req>>

\* PATCH /bookings/:id, with the trigger increment_user_trips.
Update == \E b \in Bookings, status \in {"Cancelled", "Expired"} :
    /\ "update" \in Calls /\ served < MaxRequests
    /\ bookings[b].status \notin {"Absent", status}
    /\ bookings' = [bookings EXCEPT ![b].status = status]
    /\ counts' = IF status = "Expired"
                 THEN [counts EXCEPT ![bookings[b].user] = @ + 1] ELSE counts
    /\ served' = served + 1
    /\ UNCHANGED <<trips, drivers, calls, told, page, req>>

-----------------------------------------------------------------------------
(* The office *)

\* PATCH /drivers/:id
DriverAccept(r) == \E d \in Drivers, b \in Buses :
    Request(r, "driver", [Idle EXCEPT !.pc = "DriverFind", !.who = d, !.bus = b])

DriverFind(r) ==
    Read(r, "DriverFind", [Then(r, "DriverWrite") EXCEPT !.rows = {drivers[req[r].who]}])

DriverWrite(r) ==
    LET h == req[r] IN
    /\ At(r, "DriverWrite")
    /\ drivers' = [drivers EXCEPT ![h.who] = h.bus]
    /\ Go(r, IF h.rows = {h.bus} THEN Idle ELSE Then(r, "DriverMove"))
    /\ UNCHANGED <<trips, calls, bookings, counts, told, page, served>>

\* Mutant: the trips of the new bus are looked for.
DriverMoveNew(r) ==
    LET h == req[r] IN
    /\ At(r, "DriverMove")
    /\ trips' = [t \in DOMAIN trips |->
          IF trips[t].bus = h.bus THEN [trips[t] EXCEPT !.bus = h.bus] ELSE trips[t]]
    /\ Go(r, Idle)
    /\ UNCHANGED <<drivers, calls, bookings, counts, told, page, served>>

DriverMove(r) ==
    LET h == req[r] IN
    /\ At(r, "DriverMove")
    /\ trips' = [t \in DOMAIN trips |->
          IF trips[t].bus \in h.rows THEN [trips[t] EXCEPT !.bus = h.bus] ELSE trips[t]]
    /\ Go(r, Idle)
    /\ UNCHANGED <<drivers, calls, bookings, counts, told, page, served>>

\* PATCH /bus-schedules/:id: validated (or refused) against bus and schedule first.
AssignAccept(r) == \E t \in TripIds, b \in Buses :
    Request(r, "assign", [Idle EXCEPT !.pc = "AssignCheck", !.trip = t, !.bus = b])

AssignCheck(r) == \E valid \in {req[r].trip \in DOMAIN trips, FALSE} :
    Read(r, "AssignCheck", IF valid THEN Then(r, "AssignWrite") ELSE Idle)

AssignWrite(r) ==
    LET h == req[r] IN
    /\ At(r, "AssignWrite")
    /\ trips' = [t \in DOMAIN trips |->
          IF t = h.trip THEN [trips[t] EXCEPT !.bus = h.bus] ELSE trips[t]]
    /\ Go(r, Idle)
    /\ UNCHANGED <<drivers, calls, bookings, counts, told, page, served>>

\* DELETE /bus-schedules/:id: bookings and calls refer to the row.
RemoveTrip == \E t \in DOMAIN trips :
    /\ "remove" \in Calls /\ served < MaxRequests
    /\ BookingsOf(t) = {} /\ \A c \in calls : c.trip # t
    /\ trips' = Restrict(trips, DOMAIN trips \ {t})
    /\ served' = served + 1
    /\ UNCHANGED <<drivers, calls, bookings, counts, told, page, req>>

\* The emergency button, disabled while its call is sent.  It is shown with a trip only,
\* so that the search for one in sendUrgentCall is never made.
CallAccept(r) ==
    /\ page.trip # 0
    /\ \A q \in Requests : req[q].here => req[q].pc \notin {"CallFind", "CallInsert"}
    /\ Request(r, "call", [Idle EXCEPT !.pc = "CallFind", !.trip = page.trip])

CallFind(r) == Read(r, "CallFind", Then(r, "CallInsert"))

NewCall(t) == [trip |-> t, driver |-> Me, accepted |-> FALSE]

\* The trip may be gone by now: the foreign key refuses the call.
CallInsert(r) ==
    /\ At(r, "CallInsert")
    /\ calls' = calls \cup {NewCall(t) : t \in {req[r].trip} \cap DOMAIN trips}
    /\ Go(r, Idle)
    /\ UNCHANGED <<trips, drivers, bookings, counts, told, page, served>>

\* The calls that show a button.
Waiting == {c \in calls : ~c.accepted}

\* The dashboard: PATCH replace-driver, then, whatever its answer, PATCH
\* /urgentcalls/:id {accepted: true}.  The repository that is injected is not
\* the one with replaceDriverAndBus: the call throws, is caught, and the answer
\* is {success: false}.  So the first request writes nothing.
ReplaceAccept(r) == \E c \in Waiting :
    Request(r, "replace", [Idle EXCEPT !.pc = "ReplaceFind", !.rows = {c}])

ReplaceFind(r) == Read(r, "ReplaceFind", Then(r, "CallAnswer"))

CallAnswer(r) ==
    /\ At(r, "CallAnswer")
    /\ calls' = {IF c \in req[r].rows THEN [c EXCEPT !.accepted = TRUE] ELSE c : c \in calls}
    /\ Go(r, Idle)
    /\ UNCHANGED <<trips, drivers, bookings, counts, told, page, served>>

\* DELETE /urgentcalls/:id
RemoveCall == \E c \in calls :
    /\ "uncall" \in Calls /\ served < MaxRequests
    /\ calls' = calls \ {c}
    /\ served' = served + 1
    /\ UNCHANGED <<trips, drivers, bookings, counts, told, page, req>>

-----------------------------------------------------------------------------

\* The process ends.  The page swallows the error of a stop or a message that
\* was being sent, and goes on to finish the trip at the last stop, when the
\* server may be up again.
Crash ==
    /\ \E r \in Requests : req[r] # Idle
    /\ \E up \in BOOLEAN :
          req' = [r \in Requests |->
              IF At(r, "ArriveShow") THEN req[r]
              ELSE IF up /\ req[r].pc \in {"VisitRead", "VisitWrite", "NotifyFind", "NotifySend"}
              THEN Finish(req[r]) ELSE Idle]
    /\ UNCHANGED <<tables, page, served>>

Click(r) ==
    \/ ArriveAccept(r) \/ DelayAccept(r) \/ PresentAccept(r) \/ CallAccept(r)
    \/ DriverAccept(r) \/ AssignAccept(r) \/ ReplaceAccept(r)

Handle(r) ==
    \/ OpenBus(r) \/ OpenTrips(r) \/ OpenPassengers(r)
    \/ ArriveShow(r) \/ VisitRead(r) \/ VisitWrite(r) \/ NotifyFind(r) \/ NotifySend(r)
    \/ CompleteFind(r) \/ CompleteCount(r) \/ CompleteWrite(r)
    \/ DelayFind(r) \/ DelaySend(r) \/ PresentFind(r) \/ PresentUpdate(r)
    \/ DriverFind(r) \/ DriverWrite(r) \/ DriverMove(r)
    \/ AssignCheck(r) \/ AssignWrite(r)
    \/ CallFind(r) \/ CallInsert(r) \/ ReplaceFind(r) \/ CallAnswer(r)

Init ==
    /\ drivers \in {f \in [Drivers -> Buses] : IsInjective(f)}
    /\ \E b \in ToSet(drivers), route \in Routes :
          trips = [t \in TripIds |-> [bus |-> b, route |-> route, visited |-> <<>>]]
    /\ calls = {} /\ told = {}
    /\ bookings \in [Bookings -> [user: Users, trip: TripIds, status: {"Absent", "Booked"}]]
    /\ counts = [u \in Users |-> 0]
    /\ page \in {Blank} \cup {Opened(t, trips[t]) : t \in {u \in TripIds : trips[u].bus = drivers[Me]}}
    /\ req = [r \in Requests |-> Idle] /\ served = 0

Next == OpenAccept \/ (\E r \in Requests : Click(r) \/ Handle(r)) \/ Book \/ Update \/ RemoveTrip \/ RemoveCall
        \/ Crash

Spec == Init /\ [][Next]_vars
=============================================================================
