-------------------------- MODULE SeatBookingInv ---------------------------
(***************************************************************************)
(* The inductive invariant of SeatBooking: what makes HoldKept and         *)
(* ConfirmedHasTicket hold although a handler works with rows it read      *)
(* several statements ago.  TLC checks it, SeatBookingProofs proves it.    *)
(***************************************************************************)
EXTENDS SeatBooking

\* The reservations in the table and those that handlers still remember.
Known == reservations \cup UNION {req[r].rows : r \in Requests}

SameHold(g, h) ==
    g.id = h.id /\ g.user = h.user /\ g.seat = h.seat /\ g.expires = h.expires

\* No handler took its time from the future.
ClockInv == \A r \in Requests : req[r].at <= now

\* An id names one hold for ever: a remembered row is, but for its status, the
\* row of the table with its id, and no future row gets that id.
NameInv ==
    /\ \A g, h \in Known : g.id = h.id => SameHold(g, h)
    /\ \A g \in Known : g.id < serial.reservation

\* A handler remembers only reservations of the user it works for.
OwnInv == \A r \in Requests :
    /\ \A g \in req[r].rows : g.user = req[r].user
    /\ req[r].pc \in FindSteps => req[r].rows = {}

HoldInv == ClockInv /\ NameInv /\ OwnInv

\* Ids are keys of bookings, every ticket has its booking (the foreign key),
\* and the booking a confirm is about to use, if it is still there, is its
\* user's.
BookingInv ==
    /\ \A b, c \in bookings : b.id = c.id => b = c
    /\ \A b \in bookings : b.id < serial.booking
    /\ \A t \in tickets : \E b \in bookings : b.id = t.booking
    /\ \A r \in Requests : At(r, "ConfirmAddTicket") =>
          /\ req[r].booking < serial.booking
          /\ \A b \in bookings : b.id = req[r].booking => b.user = req[r].user

HasTicket(h) == \E t \in tickets, b \in bookings :
    t.seat = h.seat /\ t.booking = b.id /\ b.user = h.user

\* The ticket is there before the hold is marked, and stays.
SaleInv ==
    /\ \A r \in Requests : At(r, "ConfirmMark") => \A h \in Current(r) : HasTicket(h)
    /\ \A h \in reservations : h.status = "confirmed" => HasTicket(h)

\* TypeOK, HoldInv, BookingInv and SaleInv together are preserved by every step.
IInv == TypeOK /\ HoldInv /\ BookingInv /\ SaleInv
=============================================================================
