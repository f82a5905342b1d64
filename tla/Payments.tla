----------------------------- MODULE Payments -----------------------------
(***************************************************************************)
(* Paying for the bookings of one user and one trip:                       *)
(*   backend/src/payments/payments.service.ts                              *)
(*   backend/src/bookings/bookings.service.ts    (update)                  *)
(*   backend/src/tickets/tickets.service.ts      (update, cansel)          *)
(*   features/Profile/context/ProfileContext.tsx (the profile page)        *)
(* with Stripe as the code uses it: it keeps the sessions, is paid by the  *)
(* client, and calls the webhook until it has an answer.                   *)
(*                                                                         *)
(* The statements that only read what does not matter here, or touch holds *)
(* and the capacity, are in SeatBooking and Tickets.                       *)
(***************************************************************************)
EXTENDS Integers, FiniteSets, Sequences

CONSTANTS
    Bookings,       \* rows of bookings, written or not (a bound)
    Fare,           \* price of a ticket; a child's ticket costs nothing
    Requests,       \* handler slots
    MaxRequests,    \* bounds: requests of the client (so tickets and sessions too)
    MaxCrashes      \* and crashes in a behaviour

ASSUME PaymentsAssumption ==
    /\ Fare \in Nat \ {0}
    /\ MaxRequests \in Nat /\ MaxCrashes \in Nat

Statuses == {"None", "Selected", "Booked", "Cancelled"}     \* "None": no such row

VARIABLES
    status,     \* bookings.status
    tickets,    \* rows of tickets
    serial,     \* the next id of tickets
    sessions,   \* Stripe: the checkout sessions, in the order of creation
    events,     \* Stripe: events whose delivery has not been answered
    page,       \* what the profile page knows of each booking while it loads
    req,        \* the handler slots
    served,     \* requests accepted so far
    crashes     \* crashes so far

paymentsVars == <<status, tickets, serial, sessions, events, page, req, served, crashes>>
tables == <<status, tickets, serial>>
stripe == <<sessions, events>>

Ticket == [id: Nat, booking: Bookings, price: {0, Fare}]
Session == [booking: Bookings, amount: Nat, state: {"open", "paid", "expired"}]
Event == [session: DOMAIN sessions, type: {"completed", "expired"}]

Idle == [pc |-> "idle"]
NoEvent == [session |-> 0, type |-> "none"]

TicketsOf(b) == {t \in tickets : t.booking = b}

\* Prices are 0 or Fare, so their sum is a count.
Sum(S) == Fare * Cardinality({t \in S : t.price = Fare})

At(r, statement) == req[r].pc = statement
Go(r, handler) == req' = [req EXCEPT ![r] = handler]
Answer(r) == Go(r, Idle)

\* A request of the client is taken into a free slot.
Accept(r, handler) ==
    /\ req[r] = Idle /\ served < MaxRequests
    /\ Go(r, handler)
    /\ served' = served + 1
    /\ UNCHANGED <<tables, stripe, crashes>>

-----------------------------------------------------------------------------
(* POST /seat-reservations/confirm: the booking, then a ticket in it. *)

ConfirmAccept(r) == Accept(r, [pc |-> "ConfirmFind"]) /\ UNCHANGED page

ConfirmFind(r) ==
    /\ At(r, "ConfirmFind")
    /\ IF \A b \in Bookings : status[b] # "Selected"
       THEN Go(r, [pc |-> "ConfirmAdd"])
       ELSE \E b \in Bookings :
                /\ status[b] = "Selected"
                /\ Go(r, [pc |-> "ConfirmTicket", booking |-> b])
    /\ UNCHANGED <<tables, stripe, page, served, crashes>>

ConfirmAdd(r) ==
    /\ At(r, "ConfirmAdd")
    /\ \/ \E b \in Bookings :
             /\ status[b] = "None"
             /\ status' = [status EXCEPT ![b] = "Selected"]
             /\ Go(r, [pc |-> "ConfirmTicket", booking |-> b])
       \/ /\ \A b \in Bookings : status[b] # "None"     \* the bound: no row is left
          /\ Answer(r)
          /\ UNCHANGED status
    /\ UNCHANGED <<tickets, serial, stripe, page, served, crashes>>

\* A child's hold becomes a ticket without a price.
ConfirmTicket(r) ==
    /\ At(r, "ConfirmTicket")
    /\ \E price \in {0, Fare} :
          tickets' = tickets \cup {[id |-> serial, booking |-> req[r].booking, price |-> price]}
    /\ serial' = serial + 1
    /\ Answer(r)
    /\ UNCHANGED <<status, stripe, page, served, crashes>>

-----------------------------------------------------------------------------
(* PATCH /tickets/:id for a child's ticket, PATCH /tickets/cansel/:id *)

ChildAccept(r) == \E t \in tickets :
    Accept(r, [pc |-> "ChildWrite", id |-> t.id]) /\ UNCHANGED page

ChildWrite(r) ==
    /\ At(r, "ChildWrite")
    /\ tickets' = {IF t.id = req[r].id THEN [t EXCEPT !.price = 0] ELSE t : t \in tickets}
    /\ Answer(r)
    /\ UNCHANGED <<status, serial, stripe, page, served, crashes>>

\* The page offers it in a booking that is paid.
CanselAccept(r) == \E t \in {u \in tickets : status[u.booking] = "Booked"} :
    Accept(r, [pc |-> "CanselDelete", id |-> t.id]) /\ UNCHANGED page

CanselDelete(r) ==
    /\ At(r, "CanselDelete")
    /\ tickets' = {t \in tickets : t.id # req[r].id}
    /\ Answer(r)
    /\ UNCHANGED <<status, serial, stripe, page, served, crashes>>

-----------------------------------------------------------------------------
(* POST /payments/create-checkout-session; the status is not looked at. *)

CheckoutAccept(r) == \E b \in {c \in Bookings : status[c] # "None"} :
    Accept(r, [pc |-> "CheckoutTickets", booking |-> b]) /\ UNCHANGED page

CheckoutTickets(r) ==
    /\ At(r, "CheckoutTickets")
    /\ Go(r, [pc |-> "CheckoutSession", booking |-> req[r].booking,
              amount |-> Sum(TicketsOf(req[r].booking))])
    /\ UNCHANGED <<tables, stripe, page, served, crashes>>

\* A crash of ours after this call leaves the session at Stripe.
CheckoutSession(r) ==
    /\ At(r, "CheckoutSession")
    /\ sessions' = Append(sessions, [booking |-> req[r].booking,
                                     amount |-> req[r].amount, state |-> "open"])
    /\ Answer(r)
    /\ UNCHANGED <<tables, events, page, served, crashes>>

-----------------------------------------------------------------------------
(* Stripe *)

\* The session ends and an event tells so.
End(s, state, type) ==
    /\ sessions[s].state = "open"
    /\ sessions' = [sessions EXCEPT ![s].state = state]
    /\ events' = events \cup {[session |-> s, type |-> type]}
    /\ UNCHANGED <<tables, page, req, served, crashes>>

Pay == \E s \in DOMAIN sessions : End(s, "paid", "completed")
Expire == \E s \in DOMAIN sessions : End(s, "expired", "expired")

\* Mutant: the event is answered before the booking is written.
DeliverAnswered(r, e) ==
    /\ e \in events /\ req[r] = Idle
    /\ Go(r, IF e.type = "completed"
             THEN [pc |-> "Update", booking |-> sessions[e.session].booking,
                   status |-> "Booked", event |-> e]
             ELSE [pc |-> "Reply", event |-> e])
    /\ events' = events \ {e}
    /\ UNCHANGED <<tables, sessions, page, served, crashes>>

\* Mutant: the type of the event is not looked at.
DeliverAnyType(r, e) ==
    /\ e \in events /\ req[r] = Idle
    /\ Go(r, [pc |-> "Update", booking |-> sessions[e.session].booking,
              status |-> "Booked", event |-> e])
    /\ UNCHANGED <<tables, stripe, page, served, crashes>>

\* POST /payments/webhook: now, again after a time without an answer, and
\* beside an earlier delivery.  Only a completed session updates its booking.
Deliver(r, e) ==
    /\ e \in events /\ req[r] = Idle
    /\ Go(r, IF e.type = "completed"
             THEN [pc |-> "Update", booking |-> sessions[e.session].booking,
                   status |-> "Booked", event |-> e]
             ELSE [pc |-> "Reply", event |-> e])
    /\ UNCHANGED <<tables, stripe, page, served, crashes>>

\* { received: true }, which Stripe gets or not: then it delivers again.
Reply(r) ==
    /\ At(r, "Reply")
    /\ events' \in {events, events \ {req[r].event}}
    /\ Answer(r)
    /\ UNCHANGED <<tables, sessions, page, served, crashes>>

-----------------------------------------------------------------------------
(* PATCH /bookings/:id, and the same update from the webhook.  The holds it *)
(* deletes are in SeatBooking.                                              *)

CancelAccept(r) == \E b \in {c \in Bookings : status[c] # "None"} :
    /\ Accept(r, [pc |-> "Update", booking |-> b, status |-> "Cancelled", event |-> NoEvent])
    /\ UNCHANGED page

Update(r) ==
    /\ At(r, "Update")
    /\ status' = [status EXCEPT ![req[r].booking] = req[r].status]
    /\ Go(r, IF req[r].event = NoEvent THEN Idle
             ELSE [pc |-> "Reply", event |-> req[r].event])
    /\ UNCHANGED <<tickets, serial, stripe, page, served, crashes>>

-----------------------------------------------------------------------------
(* The profile page cancels what it finds without tickets. *)

\* GET /users/:id/tickets
PageList ==
    /\ \A b \in Bookings : page[b] = "away"
    /\ page' = [b \in Bookings |->
                   IF status[b] \in {"None", "Cancelled"} THEN "away" ELSE "listed"]
    /\ UNCHANGED <<tables, stripe, req, served, crashes>>

\* GET /tickets/booking/:id, one for every booking, in any order
PageTickets(b) ==
    /\ page[b] = "listed"
    /\ page' = [page EXCEPT ![b] = IF TicketsOf(b) = {} THEN "empty" ELSE "away"]
    /\ UNCHANGED <<tables, stripe, req, served, crashes>>

\* PATCH /bookings/:id for each, after all answers have come
PageCancel(r) == \E b \in Bookings :
    /\ page[b] = "empty" /\ \A c \in Bookings : page[c] # "listed"
    /\ Accept(r, [pc |-> "Update", booking |-> b, status |-> "Cancelled", event |-> NoEvent])
    /\ page' = [page EXCEPT ![b] = "away"]

-----------------------------------------------------------------------------

Crash ==
    /\ crashes < MaxCrashes /\ \E r \in Requests : req[r] # Idle
    /\ req' = [r \in Requests |-> Idle]
    /\ crashes' = crashes + 1
    /\ UNCHANGED <<tables, stripe, page, served>>

NewRequest(r) ==
    \/ ConfirmAccept(r) \/ ChildAccept(r) \/ CanselAccept(r)
    \/ CheckoutAccept(r) \/ CancelAccept(r) \/ PageCancel(r)

Handle(r) ==
    \/ ConfirmFind(r) \/ ConfirmAdd(r) \/ ConfirmTicket(r)
    \/ ChildWrite(r) \/ CanselDelete(r)
    \/ CheckoutTickets(r) \/ CheckoutSession(r)
    \/ Update(r) \/ Reply(r)

PaymentsInit ==
    /\ status = [b \in Bookings |-> "None"]
    /\ tickets = {} /\ serial = 1
    /\ sessions = <<>> /\ events = {}
    /\ page = [b \in Bookings |-> "away"]
    /\ req = [r \in Requests |-> Idle]
    /\ served = 0 /\ crashes = 0

PaymentsNext ==
    \/ \E r \in Requests : NewRequest(r) \/ Handle(r)
    \/ \E r \in Requests, e \in events : Deliver(r, e)
    \/ Pay \/ Expire
    \/ PageList \/ \E b \in Bookings : PageTickets(b)
    \/ Crash

PaymentsSpec == PaymentsInit /\ [][PaymentsNext]_paymentsVars

\* Node resumes a handler when its query has returned; Stripe delivers an event
\* again until it is answered.  Slots are a bound of the model, not of Node: an
\* event is not kept waiting for one for ever, hence SF.
FairSpec ==
    /\ PaymentsSpec
    /\ \A r \in Requests : WF_paymentsVars(Handle(r))
    /\ \A s \in 1 .. MaxRequests :
          SF_paymentsVars(\E r \in Requests, e \in events : e.session = s /\ Deliver(r, e))

-----------------------------------------------------------------------------
(* Properties *)

PCs == {"idle", "ConfirmFind", "ConfirmAdd", "ConfirmTicket", "ChildWrite", "CanselDelete",
        "CheckoutTickets", "CheckoutSession", "Update", "Reply"}

\* Rows and sessions are well formed, ids of tickets are keys, and tickets are in
\* bookings that exist, as the foreign key of tickets demands.
TypeOK ==
    /\ status \in [Bookings -> Statuses]
    /\ tickets \subseteq Ticket /\ serial \in Nat \ {0}
    /\ \A t \in tickets : t.id < serial /\ status[t.booking] # "None"
    /\ \A t, u \in tickets : t.id = u.id => t = u
    /\ sessions \in Seq(Session) /\ events \subseteq Event
    /\ page \in [Bookings -> {"away", "listed", "empty"}]
    /\ \A r \in Requests : req[r].pc \in PCs
    /\ served \in Nat /\ crashes \in Nat

Paid(b) == \E s \in DOMAIN sessions : sessions[s].booking = b /\ sessions[s].state = "paid"

\* No booking is 'Забронирован' that nobody paid for: whatever crosses the
\* webhook, only an event of a completed session gets a booking there.
BookedIsPaid == \A b \in Bookings : status[b] = "Booked" => Paid(b)

PaidBy(s) == s \in DOMAIN sessions /\ sessions[s].state = "paid"

\* Whoever pays gets his booking marked 'Забронирован' at some later time, although
\* deliveries cross, are repeated, and handlers crash.  It need not stay so: the
\* client may cancel it, now or in a request that was on its way.
PaidIsBooked == \A s \in 1 .. MaxRequests :
    <>PaidBy(s) => <>(PaidBy(s) /\ status[sessions[s].booking] = "Booked")

-----------------------------------------------------------------------------
(* Why BookedIsPaid holds: the booking of a handler, of a session and on the *)
(* page exists, and a handler that will write 'Забронирован' works for a     *)
(* session that is paid.                                                     *)

HandlerOK(r) ==
    /\ req[r].pc \in {"ConfirmTicket", "CheckoutTickets", "CheckoutSession", "Update"} =>
          req[r].booking \in Bookings /\ status[req[r].booking] # "None"
    /\ At(r, "CheckoutSession") => req[r].amount \in Nat
    /\ At(r, "Update") =>
          /\ req[r].status \in {"Booked", "Cancelled"}
          /\ req[r].status = "Booked" => Paid(req[r].booking)

HandlerInv ==
    /\ req = [r \in Requests |-> req[r]]
    /\ \A r \in Requests : HandlerOK(r)
    /\ IsFiniteSet(tickets)
    /\ \A s \in DOMAIN sessions : status[sessions[s].booking] # "None"
    /\ \A b \in Bookings : page[b] # "away" => status[b] # "None"

EventInv == \A e \in events :
    e.type = "completed" => sessions[e.session].state = "paid"

\* The inductive invariant: rows, handlers and undelivered events agree on what
\* exists and on what is paid.
PaymentsInv == TypeOK /\ HandlerInv /\ EventInv /\ BookedIsPaid
=============================================================================
