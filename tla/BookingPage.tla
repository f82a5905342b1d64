---------------------------- MODULE BookingPage ----------------------------
(***************************************************************************)
(* The booking page of one user and the requests it has in flight.         *)
(*   frontend/.../Booking/context/BookingContext.tsx                       *)
(*   frontend/.../Booking/components/BookingPage.tsx                       *)
(* The server answers each request at once (SeatBooking is about how it    *)
(* does that); what matters here is that answers arrive later, out of      *)
(* order, or not at all, and find the page changed.                        *)
(***************************************************************************)
EXTENDS Integers, FiniteSets, Sequences, FiniteSetsExt

CONSTANTS
    Seats,
    Limit,          \* holds and tickets of a user
    HoldTime,       \* ticks until a hold expires
    Clicks,         \* slots: a click and the requests it leads to
    Timer,          \* the slot of the requests nobody clicked for
    Offsets,        \* ticks by which the browser's clock may be behind the server's
    MaxTime, MaxClicks  \* bounds

ASSUME PageAssumption ==
    /\ {Limit, HoldTime, MaxTime, MaxClicks} \subseteq Nat \ {0}
    /\ Seats # {} /\ Clicks # {} /\ Timer \notin Clicks
    /\ Offsets # {} /\ Offsets \subseteq Int

VARIABLES
    holds,      \* the user's rows of seat_reservations: id, seat, child, expires
    mine,       \* seats of the user's tickets
    others,     \* seat -> what others have of it
    now,        \* the server's clock
    serial,
    page,       \* the state of BookingProvider, and the clock of its browser
    req,        \* the slots
    served

server == <<holds, mine, others, now, serial>>
vars == <<server, page, req, served>>

Slots == Clicks \cup {Timer}
NewPage(offset) ==
           [list |-> {},                \* reservations
            selected |-> {},            \* selectedSeats
            kids |-> {},                \* childSeats
            map |-> {},                 \* seatMap: the seats that are occupied
            loading |-> TRUE, error |-> FALSE, left |-> FALSE,
            timeLeft |-> HoldTime,
            due |-> FALSE,              \* the interval of the countdown may fire
            behind |-> offset]          \* of the browser's clock: Date.now() is now - behind

\* pc: the request to be served, or the answer to be handled; todo: the
\* requests that follow; seat, id, child, list: what the click remembers.
Idle == [pc |-> "idle", todo |-> <<>>, seat |-> 0, id |-> 0, child |-> FALSE,
         list |-> {}, map |-> {}, ok |-> TRUE]

Unexpired(hs) == {h \in hs : h.expires >= now}
Seats_(hs) == {h.seat : h \in hs}
Children(hs) == {h.seat : h \in {g \in hs : g.child}}

At(r, stage) == req[r].pc = stage
\* The next request of the chain; fetchSeatMap hides the page at once.
Continue(h) == IF h.todo = <<>> THEN Idle
               ELSE IF Head(h.todo) = "Reserve" THEN [h EXCEPT !.pc = "Reserve", !.todo = Tail(h.todo)]
               ELSE [Idle EXCEPT !.pc = Head(h.todo), !.todo = Tail(h.todo)]
Loading(h, p) == [p EXCEPT !.loading = @ \/ Continue(h).pc = "Map",
                           !.error = @ /\ Continue(h).pc # "Map"]

\* The server's part of a request.
Serve(r, stage, answer) ==
    /\ At(r, stage)
    /\ req' = [req EXCEPT ![r] = answer]
    /\ UNCHANGED <<others, now, page, served>>

\* The page's part: what it makes of the answer, and the next request.
Show(r, stage, shown) ==
    /\ At(r, stage)
    /\ page' = Loading(req[r], shown)
    /\ req' = [req EXCEPT ![r] = Continue(req[r])]
    /\ UNCHANGED <<server, served>>

-----------------------------------------------------------------------------
(* What the page shows, and the clicks on it *)

\* While the page loads, or after an error, there is nothing to click on.
Shown == ~page.loading /\ ~page.error /\ ~page.left

\* A seat that is selected looks so, whatever the map says of it.
SeatStatus(s) == IF s \in page.selected THEN "selected"
                 ELSE IF s \in page.map THEN "occupied" ELSE "free"

\* The buttons of the grid.
Clickable == {s \in Seats : SeatStatus(s) # "occupied"}

\* The rows of the selected seats, as far as the page knows their holds.
Chosen == {h \in page.list : h.seat \in page.selected}

Click(r, handler) ==
    /\ r \in Clicks /\ req[r] = Idle /\ served < MaxClicks
    /\ Shown
    /\ served' = served + 1
    /\ req' = [req EXCEPT ![r] = handler]
    /\ UNCHANGED <<server, page>>

\* toggleSeat of a selected seat, which is not always in the list
ToggleOff(r) == \E h \in Chosen :
    /\ h.seat \in Clickable
    /\ Click(r, [Idle EXCEPT !.pc = "Delete", !.todo = <<"List", "Map">>, !.seat = h.seat, !.id = h.id])

\* toggleSeat of any other seat that was not occupied
ToggleOn(r) == \E s \in Clickable \ page.selected :
    Click(r, [Idle EXCEPT !.pc = "Reserve", !.todo = <<"List", "Map">>, !.seat = s])

\* Mutant: the list is not fetched again.
ToggleChildBlind(r) == \E h \in Chosen :
    Click(r, [Idle EXCEPT !.pc = "Delete", !.todo = <<"Reserve">>, !.seat = h.seat,
                          !.id = h.id, !.child = h.seat \notin page.kids])

\* toggleChildTicket: the hold is deleted and made anew
ToggleChild(r) == \E h \in Chosen :
    Click(r, [Idle EXCEPT !.pc = "Delete", !.todo = <<"Reserve", "List">>, !.seat = h.seat,
                          !.id = h.id, !.child = h.seat \notin page.kids])

\* with a boarding point chosen
ConfirmClick(r) ==
    /\ page.list # {} /\ page.selected # {}
    /\ Click(r, [Idle EXCEPT !.pc = "Confirm", !.list = page.list])

CancelAllClick(r) ==
    /\ page.selected # {}
    /\ Click(r, [Idle EXCEPT !.pc = "CancelAll", !.todo = <<"Map">>])

-----------------------------------------------------------------------------
(* The server *)

\* Refusals are answers like any other: the page does not look at them.
Delete(r) ==
    /\ Serve(r, "Delete", [req[r] EXCEPT !.pc = "Deleted"])
    /\ holds' = {h \in holds : h.id # req[r].id}
    /\ UNCHANGED <<mine, serial>>

Reserve(r) ==
    LET s == req[r].seat
        live == Unexpired(holds)
        own == s \in Seats_(live)
        ok == others[s] = "free" /\ s \notin mine
              /\ Cardinality(live) + Cardinality(mine) < Limit IN
    /\ Serve(r, "Reserve", [req[r] EXCEPT !.pc = "Reserved", !.ok = ok])
    /\ holds' = live \cup {h \in {[id |-> serial, seat |-> s, child |-> req[r].child,
                                   expires |-> now + HoldTime]} : ok /\ ~own}
    /\ serial' = IF ok /\ ~own THEN serial + 1 ELSE serial
    /\ UNCHANGED mine

List(r) ==
    /\ Serve(r, "List", [req[r] EXCEPT !.pc = "Listed", !.list = Unexpired(holds)])
    /\ holds' = Unexpired(holds)
    /\ UNCHANGED <<mine, serial>>

Map(r) ==
    /\ Serve(r, "Map", [req[r] EXCEPT !.pc = "Mapped",
                                      !.map = mine \cup {s \in Seats : others[s] = "sold"}])
    /\ holds' = Unexpired(holds)
    /\ UNCHANGED <<mine, serial>>

Confirm(r) ==
    LET live == Unexpired(holds) IN
    /\ Serve(r, "Confirm", [req[r] EXCEPT !.pc = "Confirmed", !.ok = live # {}])
    /\ mine' = mine \cup Seats_(live)
    /\ holds' = {}
    /\ UNCHANGED serial

CancelAll(r) ==
    /\ Serve(r, "CancelAll", [req[r] EXCEPT !.pc = "Cancelled"])
    /\ holds' = {}
    /\ UNCHANGED <<mine, serial>>

-----------------------------------------------------------------------------
(* The answers *)

\* Only toggleSeat takes the seat off the page.
Deleted(r) ==
    LET s == {req[r].seat} IN
    Show(r, "Deleted", IF Head(req[r].todo) = "Reserve" THEN page
                       ELSE [page EXCEPT !.selected = @ \ s, !.kids = @ \ s])

\* The seat becomes a child's on the page once the server has it, or any seat
\* that is taken anew an adult's: childSeats changes in toggleChildTicket alone.
Reserved(r) ==
    LET s == {req[r].seat}
        toggled == req[r].todo = <<"List">> IN
    /\ req[r].ok
    /\ Show(r, "Reserved", IF ~toggled THEN page
                           ELSE [page EXCEPT !.kids = IF req[r].child THEN @ \cup s ELSE @ \ s])

\* A refusal ends the chain with a notification.
ReserveRefused(r) ==
    /\ At(r, "Reserved") /\ ~req[r].ok
    /\ req' = [req EXCEPT ![r] = Idle]
    /\ UNCHANGED <<server, page, served>>

\* Date.now() in the browser
Clock == now - page.behind

\* Mutant: the list is added to the one that is shown.
ListedUnion(r) ==
    LET list == page.list \cup req[r].list IN
    Show(r, "Listed",
         [page EXCEPT !.list = list, !.selected = Seats_(list), !.kids = Children(list),
                      !.due = @ /\ list # {},
                      !.timeLeft = IF list = {} THEN @
                                   ELSE Max({0, Min({h.expires : h \in list}) - Clock})])

\* Mutant: the countdown is to the last expiry.
ListedLatest(r) ==
    LET list == req[r].list IN
    Show(r, "Listed",
         [page EXCEPT !.list = list, !.selected = Seats_(list), !.kids = Children(list),
                      !.due = @ /\ list # {},
                      !.timeLeft = IF list = {} THEN @
                                   ELSE Max({0, Max({h.expires : h \in list}) - Clock})])

Listed(r) ==
    LET list == req[r].list IN
    Show(r, "Listed",
         [page EXCEPT !.list = list, !.selected = Seats_(list), !.kids = Children(list),
                      !.due = @ /\ list # {},
                      !.timeLeft = IF list = {} THEN @
                                   ELSE Max({0, Min({h.expires : h \in list}) - Clock})])

Mapped(r) == Show(r, "Mapped", [page EXCEPT !.map = req[r].map, !.loading = FALSE])

\* Success leaves for the pending bookings, a refusal stays.
Confirmed(r) == Show(r, "Confirmed", [page EXCEPT !.left = @ \/ req[r].ok])

Cancelled(r) == Show(r, "Cancelled", [page EXCEPT !.list = {}, !.selected = {}, !.kids = {},
                                                !.due = FALSE])

\* Mutant: a failed fetch of the map does not end the loading.
LostStuck(r) ==
    /\ req[r].pc \in {"Map", "Mapped"}
    /\ page' = [page EXCEPT !.error = TRUE]
    /\ req' = [req EXCEPT ![r] = Idle]
    /\ UNCHANGED <<server, served>>

\* A request or its answer is lost.  The two fetches catch that themselves, a
\* click ends with a notification.
Lost(r) ==
    /\ req[r] # Idle
    /\ \/ /\ req[r].pc \in {"Map", "Mapped"}
          /\ page' = [page EXCEPT !.loading = FALSE, !.error = TRUE]
          /\ req' = [req EXCEPT ![r] = Idle]
       \/ /\ req[r].pc \in {"List", "Listed"}
          /\ page' = Loading(req[r], page)
          /\ req' = [req EXCEPT ![r] = Continue(req[r])]
       \/ /\ req[r].pc \notin {"Map", "Mapped", "List", "Listed"}
          /\ req' = [req EXCEPT ![r] = Idle]
          /\ UNCHANGED page
    /\ UNCHANGED <<server, served>>

-----------------------------------------------------------------------------
(* The rest of the world *)

\* The countdown of a page that shows holds: at its end it forgets them all.
Counted(p) ==
    IF p.timeLeft > 1 THEN [p EXCEPT !.timeLeft = @ - 1, !.due = FALSE]
    ELSE [p EXCEPT !.timeLeft = 0, !.list = {}, !.selected = {}, !.kids = {}, !.loading = TRUE,
                   !.error = FALSE, !.due = FALSE]

RunsOut == page.timeLeft <= 1

\* A second passes at the server, and for the interval of a page that shows holds.  A
\* callback that still waits then, since the tab is hidden or the computer asleep, is
\* not queued twice.
Tick ==
    /\ now < MaxTime
    /\ now' = now + 1
    /\ page' = [page EXCEPT !.due = page.list # {} /\ ~page.left]
    /\ UNCHANGED <<holds, mine, others, serial, req, served>>

\* The callback of the interval, whenever the browser gets to it; it looks at no clock.
\* A countdown that ends fetches the map.
Count ==
    /\ page.due /\ ~page.left
    /\ RunsOut => req[Timer] = Idle
    /\ page' = Counted(page)
    /\ req' = IF RunsOut THEN [req EXCEPT ![Timer] = [Idle EXCEPT !.pc = "Map"]] ELSE req
    /\ UNCHANGED <<server, served>>

\* Another user takes a seat, buys it, or lets it go.
Other == \E s \in Seats, kind \in {"free", "held", "sold"} :
    /\ kind # others[s]
    /\ kind # "free" => s \notin mine \cup Seats_(Unexpired(holds))
    /\ others[s] # "sold" /\ served < MaxClicks
    /\ others' = [others EXCEPT ![s] = kind]
    /\ served' = served + 1
    /\ UNCHANGED <<holds, mine, now, serial, page, req>>

-----------------------------------------------------------------------------

Answer(r) ==
    \/ Delete(r) \/ Reserve(r) \/ List(r) \/ Map(r) \/ Confirm(r) \/ CancelAll(r)
    \/ Deleted(r) \/ Reserved(r) \/ ReserveRefused(r) \/ Listed(r) \/ Mapped(r)
    \/ Confirmed(r) \/ Cancelled(r)

\* The page is opened: both fetches are sent at once.
Init ==
    /\ others = [s \in Seats |-> "free"] /\ mine = {}
    /\ holds \in {{}, {[id |-> 0, seat |-> CHOOSE s \in Seats : TRUE, child |-> FALSE, expires |-> 1]}}
    /\ now = 0 /\ serial = 1 /\ served = 0
    /\ \E offset \in Offsets : page = NewPage(offset)
    /\ req = [r \in Slots |->
                 CASE r = Timer -> [Idle EXCEPT !.pc = "Map"]
                   [] r = CHOOSE c \in Clicks : TRUE -> [Idle EXCEPT !.pc = "List"]
                   [] OTHER -> Idle]

Next ==
    \/ \E r \in Slots : Answer(r) \/ Lost(r)
    \/ \E r \in Clicks : ToggleOff(r) \/ ToggleOn(r) \/ ToggleChild(r)
                         \/ ConfirmClick(r) \/ CancelAllClick(r)
    \/ Tick \/ Count \/ Other

Spec == Init /\ [][Next]_vars
Fairness == \A r \in Slots : WF_vars(Answer(r))
=============================================================================
