------------------------------ MODULE Tickets ------------------------------
(***************************************************************************)
(* The tickets of one bus, on one trip, and the array buses.capacity, the  *)
(* seat numbers that the ticket service treats as still free and the seat  *)
(* map as all seats:                                                       *)
(*   backend/src/tickets/tickets.service.ts   (create, cansel)             *)
(*   backend/src/buses/buses.service.ts       (update)                     *)
(* and, as one step, the ticket that confirmReservations writes without    *)
(* touching the array (SeatBooking has its statements).                    *)
(*                                                                         *)
(* create and cansel read the array, change a copy, write it back, and     *)
(* then insert or delete the ticket: three statements, no transaction.     *)
(***************************************************************************)
EXTENDS Integers, FiniteSets, SequencesExt

CONSTANTS
    Total,          \* seats of the bus when it is entered: 1 .. Total
    Bookings,
    Requests,       \* handler slots
    Calls,          \* the operations called in this instance
    MaxRequests     \* bound: requests accepted in a behaviour

ASSUME TicketsAssumption ==
    /\ Total \in Nat \ {0} /\ MaxRequests \in Nat
    /\ Calls \subseteq {"create", "cansel", "confirm", "resize"}

Seats == 1 .. Total

VARIABLES
    capacity,   \* buses.capacity
    tickets,    \* rows of tickets
    serial,     \* the next id of tickets
    issued,     \* every ticket a client has seen, on pages it may not reload
    req,        \* the handler slots
    served      \* requests accepted so far

vars == <<capacity, tickets, serial, issued, req, served>>

Ticket == [id: Nat, booking: Bookings, seat: Seats]

Idle == [pc |-> "idle"]

\* Array.from({length: n}, (_, i) => i + 1)
Numbered(n) == [i \in 1 .. n |-> i]

At(r, statement) == req[r].pc = statement
Go(r, handler) == req' = [req EXCEPT ![r] = handler]
Answer(r) == Go(r, Idle)

Accept(r, call, handler) ==
    /\ req[r] = Idle /\ call \in Calls /\ served < MaxRequests
    /\ Go(r, handler)
    /\ served' = served + 1
    /\ UNCHANGED <<capacity, tickets, serial, issued>>

\* A statement that only reads.
Read(r, statement, handler) ==
    /\ At(r, statement)
    /\ Go(r, handler)
    /\ UNCHANGED <<capacity, tickets, serial, issued, served>>

\* busRepository.update(bus.id, {capacity: ...})
Write(r, statement, seats, handler) ==
    /\ At(r, statement)
    /\ capacity' = seats
    /\ Go(r, handler)
    /\ UNCHANGED <<tickets, serial, issued, served>>

Insert(ticket) ==
    /\ tickets' = tickets \cup {ticket}
    /\ issued' = issued \cup {ticket}
    /\ serial' = serial + 1

-----------------------------------------------------------------------------
(* POST /tickets *)

CreateAccept(r) == \E b \in Bookings :
    Accept(r, "create", [pc |-> "CreateRead", booking |-> b])

\* [...capacity].sort((a, b) => a - b): the k-th seat s is the one with fewer than k
\* seats below it and at least k that are not above it.
InOrder(seats) == [k \in DOMAIN seats |-> CHOOSE s \in ToSet(seats) :
    /\ Cardinality({i \in DOMAIN seats : seats[i] < s}) < k
    /\ k <= Cardinality({i \in DOMAIN seats : seats[i] <= s})]

CreateRead(r) ==
    LET sorted == InOrder(capacity) IN
    Read(r, "CreateRead",
         IF capacity = <<>> THEN Idle   \* throws 'No available seats'
         ELSE [pc |-> "CreateWrite", booking |-> req[r].booking,
               seat |-> Head(sorted), rest |-> Tail(sorted)])

CreateWrite(r) ==
    Write(r, "CreateWrite", req[r].rest,
          [pc |-> "CreateSave", booking |-> req[r].booking, seat |-> req[r].seat])

CreateSave(r) ==
    /\ At(r, "CreateSave")
    /\ Insert([id |-> serial, booking |-> req[r].booking, seat |-> req[r].seat])
    /\ Answer(r)
    /\ UNCHANGED <<capacity, served>>

-----------------------------------------------------------------------------
(* PATCH /tickets/cansel/:id with the ticket as the client shows it *)

CanselAccept(r) == \E t \in issued :
    Accept(r, "cansel", [pc |-> "CanselRead", ticket |-> t])

\* The while loop: the first place whose seat is not smaller.
InsertSorted(seats, s) ==
    LET before == {i \in DOMAIN seats : \A j \in 1 .. i : seats[j] < s} IN
    InsertAt(seats, Cardinality(before) + 1, s)

\* Mutant: the seat is put back at the end.
CanselReadAppend(r) ==
    Read(r, "CanselRead",
         [pc |-> "CanselWrite", ticket |-> req[r].ticket,
          rest |-> Append(capacity, req[r].ticket.seat)])

CanselRead(r) ==
    Read(r, "CanselRead",
         [pc |-> "CanselWrite", ticket |-> req[r].ticket,
          rest |-> InsertSorted(capacity, req[r].ticket.seat)])

CanselWrite(r) ==
    Write(r, "CanselWrite", req[r].rest,
          [pc |-> "CanselDelete", ticket |-> req[r].ticket])

\* Mutant: the ticket stays.
CanselKeep(r) == Read(r, "CanselDelete", Idle)

CanselDelete(r) ==
    /\ At(r, "CanselDelete")
    /\ tickets' = {t \in tickets : t.id # req[r].ticket.id}
    /\ Answer(r)
    /\ UNCHANGED <<capacity, serial, issued, served>>

-----------------------------------------------------------------------------
(* Other writers *)

\* PATCH /buses/:id with capacity [n, -1], the form of the dashboard.
ResizeAccept(r) == \E n \in Seats :
    Accept(r, "resize", [pc |-> "ResizeWrite", seats |-> n])

ResizeWrite(r) == Write(r, "ResizeWrite", Numbered(req[r].seats), Idle)

\* confirmReservations: a ticket for a seat that has none.  The seat was in the
\* array when it was held, not necessarily now.
Confirm ==
    /\ "confirm" \in Calls /\ served < MaxRequests
    /\ \E b \in Bookings, s \in Seats :
          /\ \A t \in tickets : t.seat # s
          /\ Insert([id |-> serial, booking |-> b, seat |-> s])
    /\ served' = served + 1
    /\ UNCHANGED <<capacity, req>>

Crash ==
    /\ \E r \in Requests : req[r] # Idle
    /\ req' = [r \in Requests |-> Idle]
    /\ UNCHANGED <<capacity, tickets, serial, issued, served>>

NewRequest(r) == CreateAccept(r) \/ CanselAccept(r) \/ ResizeAccept(r)

Handle(r) ==
    \/ CreateRead(r) \/ CreateWrite(r) \/ CreateSave(r)
    \/ CanselRead(r) \/ CanselWrite(r) \/ CanselDelete(r)
    \/ ResizeWrite(r)

Init ==
    /\ capacity = Numbered(Total)
    /\ tickets = {} /\ serial = 1 /\ issued = {}
    /\ req = [r \in Requests |-> Idle]
    /\ served = 0

Work == (\E r \in Requests : NewRequest(r) \/ Handle(r)) \/ Confirm
Next == Work \/ Crash

Spec == Init /\ [][Next]_vars

-----------------------------------------------------------------------------

\* The array is in ascending order at any time, although cansel searches for the
\* place of a seat without sorting: every writer writes a sorted array,
\* whichever of them wins.
Sorted == \A i, j \in DOMAIN capacity : i < j => capacity[i] <= capacity[j]
=============================================================================
