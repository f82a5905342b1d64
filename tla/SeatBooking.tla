---------------------------- MODULE SeatBooking ----------------------------
(***************************************************************************)
(* Seats, holds, bookings and tickets of ONE bus schedule (every query the *)
(* two services below make is filtered by bus_schedule_id or by the id of  *)
(* a row of one schedule):                                                 *)
(*   backend/src/seat-reservations/seat-reservations.service.ts            *)
(*   backend/src/bookings/bookings.service.ts                              *)
(*                                                                         *)
(* The server is one Node process: a handler runs alone from one `await`   *)
(* to the next, every awaited repository call is one SQL statement, and    *)
(* no transaction spans two of them.  So a handler is a slot of req that   *)
(* moves from statement to statement; one action is one statement with the *)
(* code that runs up to the next await.  Slots interleave freely, the      *)
(* clock advances between any two steps, and a crash forgets every handler *)
(* where it stands and keeps the tables.                                   *)
(***************************************************************************)
EXTENDS Integers, FiniteSets

CONSTANTS
    Users, Seats,
    Capacity,       \* bus.capacity: the seats of the bus
    None,           \* "no user", "no seat", "no status" in a handler's locals
    Requests,       \* handler slots: how many requests overlap at most
    Calls,          \* the operations that clients call in this instance
    Updates,        \* the statuses clients send to PATCH /bookings/:id
    Limit,          \* seats a user may have on a trip (5 in the code)
    HoldTime,       \* how long a hold lasts (10 minutes in the code)
    MaxTime,        \* bound: the last tick of the clock
    MaxRequests     \* bound: requests accepted in a behaviour

\* "Selected" is 'Выбран', "Booked" stands for 'Забронирован', 'В дороге' and
\* 'Завершен' (no query of these services tells them apart), "Cancelled" is
\* 'Отменен' and "Lapsed" is 'истек'.
Statuses == {"Selected", "Booked", "Cancelled", "Lapsed"}
Inactive == {"Cancelled", "Lapsed"}

ASSUME ConstantsAssumption ==
    /\ Capacity \subseteq Seats
    /\ None \notin Users \cup Seats \cup Statuses
    /\ Updates \subseteq Statuses
    /\ Limit \in Nat /\ HoldTime \in Nat
    /\ MaxTime \in Nat /\ MaxRequests \in Nat

VARIABLES
    reservations,   \* rows of seat_reservations
    bookings,       \* rows of bookings
    tickets,        \* rows of tickets
    serial,         \* the next id of each table
    req,            \* the handler slots
    now,            \* the clock
    served          \* requests accepted so far

db == <<reservations, bookings, tickets, serial>>
env == <<now, served>>
vars == <<reservations, bookings, tickets, serial, req, now, served>>

Reservation == [id: Nat, user: Users, seat: Seats,
                status: {"reserved", "confirmed"}, expires: Nat]
Booking == [id: Nat, user: Users, status: Statuses]
Ticket == [id: Nat, booking: Nat, seat: Seats]

\* Where a handler can be: before one of its statements.
ReserveSteps == {"ReservePurge", "ReserveCountTickets", "ReserveCountHolds",
                 "ReserveCheckTaken", "ReserveCheckHeld", "ReserveSave"}
CancelSteps == {"CancelFind", "CancelRemove", "CancelAllDelete"}
SellSteps == {"ConfirmFind", "ConfirmCount", "ConfirmCheckTaken", "ConfirmDrop",
              "ConfirmFindBooking", "ConfirmAddBooking", "ConfirmAddTicket",
              "ConfirmMark", "ConfirmPurge", "ConfirmReply",
              "SelectFind", "SelectInsert"}
ViewSteps == {"ViewPurge", "ViewTickets", "ViewHolds", "ListPurge"}
FindSteps == {"UpdateFind", "RemoveFind"}
ChangeSteps == {"UpdateRelease", "UpdateWrite", "RemoveRelease", "RemoveDelete"}
Statements == {"idle"} \cup ReserveSteps \cup CancelSteps \cup SellSteps
                \cup ViewSteps \cup FindSteps \cup ChangeSteps

\* A handler: the statement it is at, its parameters (user, seat, target id,
\* status), the time it took as `now`, and what it has read and still uses.
Locals == [pc: Statements, user: Users \cup {None}, seat: Seats \cup {None},
           id: Nat, status: Statuses \cup {None}, at: Nat,
           rows: SUBSET Reservation, booking: Nat, count: Nat,
           taken: SUBSET Seats]
Handler == {q \in Locals :
    /\ q.pc \in Statements \ ({"idle"} \cup ViewSteps \cup FindSteps) => q.user \in Users
    /\ q.pc \in ReserveSteps => q.seat \in Seats
    /\ q.pc \in {"UpdateFind", "UpdateRelease", "UpdateWrite"} => q.status \in Statuses}

Idle == [pc |-> "idle", user |-> None, seat |-> None, id |-> 0,
         status |-> None, at |-> 0, rows |-> {}, booking |-> 0, count |-> 0,
         taken |-> {}]

-----------------------------------------------------------------------------
(* What the queries select. *)

Live(b) == b.status \notin Inactive

\* tickets INNER JOIN bookings WHERE booking.status NOT IN ('Отменен', 'истек')
ActiveTickets == {t \in tickets : \E b \in bookings : b.id = t.booking /\ Live(b)}
ActiveTicketsOf(u) ==
    {t \in tickets : \E b \in bookings : b.id = t.booking /\ Live(b) /\ b.user = u}
TakenSeats == {t.seat : t \in ActiveTickets}

Holds == {h \in reservations : h.status = "reserved"}
HoldsOf(u) == {h \in Holds : h.user = u}
SelectedOf(u) == {b \in bookings : b.user = u /\ b.status = "Selected"}

\* reservationRepository.delete({status: 'reserved', expires_at: LessThan(t)})
Unexpired(t) == {h \in reservations : ~(h.status = "reserved" /\ h.expires < t)}
\* reservationRepository.remove(rows): by primary key, whatever the row says now
Without(rows) == {h \in reservations : \A g \in rows : g.id # h.id}

-----------------------------------------------------------------------------
(* How a handler moves. *)

Accept(r, call, handler) ==
    /\ req[r] = Idle /\ call \in Calls /\ served < MaxRequests
    /\ req' = [req EXCEPT ![r] = handler]
    /\ served' = served + 1
    /\ UNCHANGED <<db, now>>

At(r, statement) == req[r].pc = statement

\* The next state of a slot: on to another statement, or the answer is sent.
Go(r, handler) == req' = [req EXCEPT ![r] = handler]
Answer(r) == Go(r, Idle)

\* A statement that only reads.
Read(r, statement, handler) ==
    /\ At(r, statement)
    /\ Go(r, handler)
    /\ UNCHANGED <<db, env>>

OnlyReservations == UNCHANGED <<bookings, tickets, serial, env>>
-----------------------------------------------------------------------------
(* POST /seat-reservations/reserve *)

ReserveAccept(r) == \E u \in Users, s \in Seats :
    Accept(r, "reserve", [Idle EXCEPT !.pc = "ReservePurge", !.user = u,
                                      !.seat = s, !.at = now])

ReservePurge(r) ==
    /\ At(r, "ReservePurge")
    /\ reservations' = Unexpired(req[r].at)
    /\ Go(r, [req[r] EXCEPT !.pc = "ReserveCountTickets"])
    /\ OnlyReservations

ReserveCountTickets(r) ==
    Read(r, "ReserveCountTickets",
         [req[r] EXCEPT !.pc = "ReserveCountHolds",
                        !.count = Cardinality(ActiveTicketsOf(req[r].user))])

\* Mutant: the limit counts tickets only, not the seats already held.
ReserveCountHoldsNot(r) ==
    Read(r, "ReserveCountHolds",
         IF req[r].count >= Limit \/ req[r].seat \notin Capacity THEN Idle
         ELSE [req[r] EXCEPT !.pc = "ReserveCheckTaken", !.count = 0])

\* This count looks at the clock again (new Date()), not at req[r].at.
ReserveCountHolds(r) ==
    LET holds == {h \in HoldsOf(req[r].user) : h.expires > now} IN
    Read(r, "ReserveCountHolds",
         IF req[r].count + Cardinality(holds) >= Limit \/ req[r].seat \notin Capacity
         THEN Idle
         ELSE [req[r] EXCEPT !.pc = "ReserveCheckTaken", !.count = 0])

ReserveCheckTaken(r) ==
    Read(r, "ReserveCheckTaken",
         IF req[r].seat \in TakenSeats THEN Idle
         ELSE [req[r] EXCEPT !.pc = "ReserveCheckHeld"])

\* Mutant: only somebody else's hold is looked for.
ReserveCheckOthers(r) ==
    Read(r, "ReserveCheckHeld",
         IF \E h \in Holds : h.seat = req[r].seat /\ h.user # req[r].user THEN Idle
         ELSE [req[r] EXCEPT !.pc = "ReserveSave"])

\* Somebody else's hold is an error, the user's own is returned as it is.
ReserveCheckHeld(r) ==
    Read(r, "ReserveCheckHeld",
         IF \E h \in Holds : h.seat = req[r].seat THEN Idle
         ELSE [req[r] EXCEPT !.pc = "ReserveSave"])

ReserveSave(r) ==
    /\ At(r, "ReserveSave")
    /\ reservations' = reservations \cup
            {[id |-> serial.reservation, user |-> req[r].user,
              seat |-> req[r].seat, status |-> "reserved",
              expires |-> req[r].at + HoldTime]}
    /\ serial' = [serial EXCEPT !.reservation = @ + 1]
    /\ Answer(r)
    /\ UNCHANGED <<bookings, tickets, env>>

Reserve(r) ==
    \/ ReservePurge(r) \/ ReserveCountTickets(r) \/ ReserveCountHolds(r)
    \/ ReserveCheckTaken(r) \/ ReserveCheckHeld(r) \/ ReserveSave(r)

-----------------------------------------------------------------------------
(* DELETE /seat-reservations/:id and /seat-reservations/cancel-all/:id *)

CancelAccept(r) == \E u \in Users, id \in 1 .. serial.reservation - 1 :
    Accept(r, "cancel", [Idle EXCEPT !.pc = "CancelFind", !.user = u, !.id = id])

\* Mutant: the hold is not checked to be the user's.
CancelFindAnyones(r) ==
    LET found == {h \in Holds : h.id = req[r].id} IN
    Read(r, "CancelFind",
         IF found = {} THEN Idle
         ELSE [req[r] EXCEPT !.pc = "CancelRemove", !.rows = found])

CancelFind(r) ==
    LET mine == {h \in HoldsOf(req[r].user) : h.id = req[r].id} IN
    Read(r, "CancelFind",
         IF mine = {} THEN Idle
         ELSE [req[r] EXCEPT !.pc = "CancelRemove", !.rows = mine])

CancelRemove(r) ==
    /\ At(r, "CancelRemove")
    /\ reservations' = Without(req[r].rows)
    /\ Answer(r)
    /\ OnlyReservations

CancelAllAccept(r) == \E u \in Users :
    Accept(r, "cancelAll", [Idle EXCEPT !.pc = "CancelAllDelete", !.user = u])

CancelAllDelete(r) ==
    /\ At(r, "CancelAllDelete")
    /\ reservations' = reservations \ HoldsOf(req[r].user)
    /\ Answer(r)
    /\ OnlyReservations

Cancel(r) == CancelFind(r) \/ CancelRemove(r) \/ CancelAllDelete(r)

-----------------------------------------------------------------------------
(* POST /seat-reservations/confirm: rows holds the reservations read at the *)
(* start and not yet dealt with, id the one the loop is at.                 *)

ConfirmAccept(r) == \E u \in Users :
    Accept(r, "confirm", [Idle EXCEPT !.pc = "ConfirmFind", !.user = u, !.at = now])

Valid(q) == {h \in q.rows : h.expires > q.at}
Current(r) == {h \in req[r].rows : h.id = req[r].id}

\* The head of the loop: the next valid reservation; after the last one, the
\* rows that had expired at the start are removed (if any), then the answer.
Loop(q) == [q EXCEPT !.id = 0, !.booking = 0, !.count = 0,
                     !.pc = IF Valid(q) # {} THEN "ConfirmCheckTaken"
                            ELSE IF q.rows # {} THEN "ConfirmPurge"
                            ELSE "ConfirmReply"]

ConfirmFind(r) ==
    LET found == [req[r] EXCEPT !.pc = "ConfirmCount", !.rows = HoldsOf(req[r].user)] IN
    Read(r, "ConfirmFind", IF Valid(found) = {} THEN Idle ELSE found)

\* Mutant: the limit does not count the tickets the user has.
ConfirmCountNew(r) ==
    Read(r, "ConfirmCount",
         IF Cardinality(Valid(req[r])) > Limit THEN Idle ELSE Loop(req[r]))

ConfirmCount(r) ==
    Read(r, "ConfirmCount",
         IF Cardinality(ActiveTicketsOf(req[r].user)) + Cardinality(Valid(req[r])) > Limit
         THEN Idle ELSE Loop(req[r]))

\* Mutant: the loop does not look for a ticket for the seat.
ConfirmSkipCheck(r) == \E h \in Valid(req[r]) :
    Read(r, "ConfirmCheckTaken", [req[r] EXCEPT !.id = h.id, !.pc = "ConfirmFindBooking"])

\* The rows come in no given order.
ConfirmCheckTaken(r) == \E h \in Valid(req[r]) :
    Read(r, "ConfirmCheckTaken",
         [req[r] EXCEPT !.id = h.id,
                        !.pc = IF h.seat \in TakenSeats THEN "ConfirmDrop"
                               ELSE "ConfirmFindBooking"])

\* Mutant: the loop takes the dropped row again.
ConfirmDropAgain(r) ==
    /\ At(r, "ConfirmDrop")
    /\ reservations' = Without(Current(r))
    /\ Go(r, Loop(req[r]))
    /\ OnlyReservations

ConfirmDrop(r) ==
    /\ At(r, "ConfirmDrop")
    /\ reservations' = Without(Current(r))
    /\ Go(r, Loop([req[r] EXCEPT !.rows = @ \ Current(r)]))
    /\ OnlyReservations

ConfirmFindBooking(r) ==
    \/ /\ SelectedOf(req[r].user) = {}
       /\ Read(r, "ConfirmFindBooking", [req[r] EXCEPT !.pc = "ConfirmAddBooking"])
    \/ \E b \in SelectedOf(req[r].user) :
          Read(r, "ConfirmFindBooking",
               [req[r] EXCEPT !.pc = "ConfirmAddTicket", !.booking = b.id])

ConfirmAddBooking(r) ==
    /\ At(r, "ConfirmAddBooking")
    /\ bookings' = bookings \cup
            {[id |-> serial.booking, user |-> req[r].user, status |-> "Selected"]}
    /\ serial' = [serial EXCEPT !.booking = @ + 1]
    /\ Go(r, [req[r] EXCEPT !.pc = "ConfirmAddTicket", !.booking = serial.booking])
    /\ UNCHANGED <<reservations, tickets, env>>

\* Mutant: an error of the insert is caught and the loop goes on.
ConfirmAddTicketAnyway(r) ==
    /\ At(r, "ConfirmAddTicket")
    /\ Go(r, [req[r] EXCEPT !.pc = "ConfirmMark"])
    /\ IF \E b \in bookings : b.id = req[r].booking
       THEN /\ serial' = [serial EXCEPT !.ticket = @ + 1]
            /\ \E h \in Current(r) : tickets' = tickets \cup
                {[id |-> serial.ticket, booking |-> req[r].booking, seat |-> h.seat]}
       ELSE UNCHANGED <<tickets, serial>>
    /\ UNCHANGED <<reservations, bookings, env>>

\* The foreign key refuses a ticket whose booking has been deleted meanwhile.
ConfirmAddTicket(r) ==
    /\ At(r, "ConfirmAddTicket")
    /\ \/ /\ \E b \in bookings : b.id = req[r].booking
          /\ \E h \in Current(r) : tickets' = tickets \cup
                {[id |-> serial.ticket, booking |-> req[r].booking, seat |-> h.seat]}
          /\ serial' = [serial EXCEPT !.ticket = @ + 1]
          /\ Go(r, [req[r] EXCEPT !.pc = "ConfirmMark"])
       \/ /\ \A b \in bookings : b.id # req[r].booking
          /\ Answer(r)
          /\ UNCHANGED <<tickets, serial>>
    /\ UNCHANGED <<reservations, bookings, env>>

\* save(res) is a SELECT by id, then an UPDATE, or an INSERT with the same id
\* when no row was found.  A row that goes away between the two stays away.
ConfirmMark(r) ==
    /\ At(r, "ConfirmMark")
    /\ \/ \E h \in Current(r) :
             reservations' = Without({h}) \cup {[h EXCEPT !.status = "confirmed"]}
       \/ /\ \A h \in reservations : h.id # req[r].id
          /\ UNCHANGED reservations
    /\ Go(r, Loop([req[r] EXCEPT !.rows = @ \ Current(r)]))
    /\ OnlyReservations

ConfirmPurge(r) ==
    /\ At(r, "ConfirmPurge")
    /\ reservations' = Without(req[r].rows)
    /\ Go(r, [req[r] EXCEPT !.pc = "ConfirmReply", !.rows = {}])
    /\ OnlyReservations

\* booking!.id: answers with the booking, or throws when there is none.
ConfirmReply(r) == Read(r, "ConfirmReply", Idle)

Confirm(r) ==
    \/ ConfirmFind(r) \/ ConfirmCount(r) \/ ConfirmCheckTaken(r) \/ ConfirmDrop(r)
    \/ ConfirmFindBooking(r) \/ ConfirmAddBooking(r) \/ ConfirmAddTicket(r)
    \/ ConfirmMark(r) \/ ConfirmPurge(r) \/ ConfirmReply(r)

-----------------------------------------------------------------------------
(* GET /seat-reservations/bus-schedule/:id (the seat map) and               *)
(* GET /seat-reservations/user/:id.  Both delete expired holds before they  *)
(* read; the time is taken after the schedule has been looked up.           *)

ViewAccept(r) == Accept(r, "view", [Idle EXCEPT !.pc = "ViewPurge", !.at = now])
ListAccept(r) == Accept(r, "list", [Idle EXCEPT !.pc = "ListPurge", !.at = now])

ViewPurge(r) ==
    /\ At(r, "ViewPurge")
    /\ reservations' = Unexpired(req[r].at)
    /\ Go(r, [req[r] EXCEPT !.pc = "ViewTickets"])
    /\ OnlyReservations

ViewTickets(r) ==
    Read(r, "ViewTickets", [req[r] EXCEPT !.pc = "ViewHolds", !.taken = TakenSeats])

ViewHolds(r) == Read(r, "ViewHolds", Idle)

ListPurge(r) ==
    /\ At(r, "ListPurge")
    /\ reservations' = Unexpired(req[r].at)
    /\ Answer(r)
    /\ OnlyReservations

View(r) == ViewPurge(r) \/ ViewTickets(r) \/ ViewHolds(r) \/ ListPurge(r)
-----------------------------------------------------------------------------
(* POST, PATCH /:id and DELETE /:id of /bookings *)

SelectAccept(r) == \E u \in Users :
    Accept(r, "select", [Idle EXCEPT !.pc = "SelectFind", !.user = u])

\* Mutant: the booking is created without looking for one.
SelectFindNot(r) == Read(r, "SelectFind", [req[r] EXCEPT !.pc = "SelectInsert"])

SelectFind(r) ==
    Read(r, "SelectFind", IF SelectedOf(req[r].user) # {} THEN Idle
                          ELSE [req[r] EXCEPT !.pc = "SelectInsert"])

SelectInsert(r) ==
    /\ At(r, "SelectInsert")
    /\ bookings' = bookings \cup
            {[id |-> serial.booking, user |-> req[r].user, status |-> "Selected"]}
    /\ serial' = [serial EXCEPT !.booking = @ + 1]
    /\ Answer(r)
    /\ UNCHANGED <<reservations, tickets, env>>

UpdateAccept(r) == \E id \in 1 .. serial.booking - 1, st \in Updates :
    Accept(r, "update", [Idle EXCEPT !.pc = "UpdateFind", !.id = id, !.status = st])

UpdateFind(r) ==
    \/ /\ \A b \in bookings : b.id # req[r].id
       /\ Read(r, "UpdateFind", Idle)
    \/ \E b \in bookings :
          /\ b.id = req[r].id
          /\ Read(r, "UpdateFind",
                  [req[r] EXCEPT !.user = b.user,
                                 !.pc = IF req[r].status \in Inactive
                                        THEN "UpdateRelease" ELSE "UpdateWrite"])

UpdateRelease(r) ==
    /\ At(r, "UpdateRelease")
    /\ reservations' = reservations \ HoldsOf(req[r].user)
    /\ Go(r, [req[r] EXCEPT !.pc = "UpdateWrite"])
    /\ OnlyReservations

UpdateWrite(r) ==
    /\ At(r, "UpdateWrite")
    /\ bookings' = {IF b.id = req[r].id THEN [b EXCEPT !.status = req[r].status]
                    ELSE b : b \in bookings}
    /\ Answer(r)
    /\ UNCHANGED <<reservations, tickets, serial, env>>

RemoveAccept(r) == \E id \in 1 .. serial.booking - 1 :
    Accept(r, "remove", [Idle EXCEPT !.pc = "RemoveFind", !.id = id])

RemoveFind(r) ==
    \/ /\ \A b \in bookings : b.id # req[r].id
       /\ Read(r, "RemoveFind", Idle)
    \/ \E b \in bookings :
          /\ b.id = req[r].id
          /\ Read(r, "RemoveFind", [req[r] EXCEPT !.pc = "RemoveRelease", !.user = b.user])

RemoveRelease(r) ==
    /\ At(r, "RemoveRelease")
    /\ reservations' = reservations \ HoldsOf(req[r].user)
    /\ Go(r, [req[r] EXCEPT !.pc = "RemoveDelete"])
    /\ OnlyReservations

\* The foreign key of tickets refuses to delete a booking that has any: the
\* request fails, and its holds are already gone.
RemoveDelete(r) ==
    /\ At(r, "RemoveDelete")
    /\ bookings' = IF \E t \in tickets : t.booking = req[r].id THEN bookings
                   ELSE {b \in bookings : b.id # req[r].id}
    /\ Answer(r)
    /\ UNCHANGED <<reservations, tickets, serial, env>>

Book(r) ==
    \/ SelectFind(r) \/ SelectInsert(r)
    \/ UpdateFind(r) \/ UpdateRelease(r) \/ UpdateWrite(r)
    \/ RemoveFind(r) \/ RemoveRelease(r) \/ RemoveDelete(r)

-----------------------------------------------------------------------------
(* The cron job, the clock, and the end of the process. *)

\* Mutant: the cron job deletes expired rows of the other status.
CleanupConfirmed ==
    /\ reservations' = {h \in reservations : ~(h.status = "confirmed" /\ h.expires < now)}
    /\ UNCHANGED <<bookings, tickets, serial, req, env>>

Cleanup ==
    /\ reservations' = Unexpired(now)
    /\ UNCHANGED <<bookings, tickets, serial, req, env>>

Tick ==
    /\ now < MaxTime
    /\ now' = now + 1
    /\ UNCHANGED <<db, req, served>>

Crash ==
    /\ \E r \in Requests : req[r] # Idle
    /\ req' = [r \in Requests |-> Idle]
    /\ UNCHANGED <<db, env>>

NewRequest(r) ==
    \/ ReserveAccept(r) \/ CancelAccept(r) \/ CancelAllAccept(r)
    \/ ConfirmAccept(r) \/ ViewAccept(r) \/ ListAccept(r)
    \/ SelectAccept(r) \/ UpdateAccept(r) \/ RemoveAccept(r)

Handle(r) == Reserve(r) \/ Cancel(r) \/ Confirm(r) \/ View(r) \/ Book(r)

Init ==
    /\ reservations = {} /\ bookings = {} /\ tickets = {}
    /\ serial = [reservation |-> 1, booking |-> 1, ticket |-> 1]
    /\ req = [r \in Requests |-> Idle]
    /\ now = 0 /\ served = 0

Next ==
    \/ \E r \in Requests : NewRequest(r) \/ Handle(r)
    \/ Cleanup \/ Tick \/ Crash

Spec == Init /\ [][Next]_vars

\* Time passes, node-cron fires every minute, and the event loop resumes every
\* handler whose query has returned.  Clients promise nothing.
Fairness == WF_vars(Tick) /\ WF_vars(Cleanup) /\ \A r \in Requests : WF_vars(Handle(r))
FairSpec == Spec /\ Fairness

-----------------------------------------------------------------------------
(* Properties of the code as it runs: any overlap of requests, any crash. *)

\* Every table holds finitely many rows of its columns' types, and a handler
\* has locals of their types.
TypeOK ==
    /\ reservations \in SUBSET Reservation /\ IsFiniteSet(reservations)
    /\ bookings \in SUBSET Booking
    /\ tickets \in SUBSET Ticket /\ IsFiniteSet(tickets)
    /\ serial \in [reservation: Nat, booking: Nat, ticket: Nat]
    /\ req \in [Requests -> Handler]
    /\ now \in Nat /\ served \in Nat

\* A reservation row says 'confirmed' only when a ticket for its seat has been
\* written in a booking of its user, wherever the process crashes in
\* confirmReservations and whatever runs beside it.
ConfirmedHasTicket == \A h \in reservations :
    h.status = "confirmed" =>
        \E t \in tickets, b \in bookings :
            t.seat = h.seat /\ t.booking = b.id /\ b.user = h.user

\* While it has not expired, a hold is never taken from its user by somebody
\* else's request, by the cron job or by a stale read: it only stops being a
\* 'reserved' row in a step of one of the user's own requests (confirm,
\* cancel, cancel-all, a booking cancelled or removed).
OwnerStep(h) == \E r \in Requests : req[r].user = h.user /\ req'[r] # req[r]
HoldKept ==
    [][\A h \in Holds : h.expires >= now /\ h \notin reservations' => OwnerStep(h)]_vars

\* A hold that nobody confirms or cancels goes away after it has expired, also
\* when handlers crash: the cron job releases the seat.  (The clock of the
\* model stops at MaxTime, so this is about holds that expire before.)
HoldReleased == \A i \in 1 .. MaxRequests :
    (\E h \in Holds : h.id = i /\ h.expires < MaxTime) ~> (\A h \in Holds : h.id # i)

\* Every request is answered or dies with the process: the loop of confirm
\* ends, and no handler waits for another.
Answered == \A r \in Requests : req[r] # Idle ~> req[r] = Idle

-----------------------------------------------------------------------------
(* Properties that the code's messages and tests state, and that overlapping *)
(* requests violate.  SeatDisciplines says which overlaps do.                *)

\* No seat of the trip is sold twice: two tickets in bookings that are neither
\* cancelled nor lapsed are for different seats ('Место уже занято').
SeatExclusive == \A s, t \in ActiveTickets : s.seat = t.seat => s = t
=============================================================================
