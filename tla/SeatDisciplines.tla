-------------------------- MODULE SeatDisciplines --------------------------
(***************************************************************************)
(* Properties of SeatBooking that hold only when some requests do not      *)
(* overlap.  Nothing in the code prevents the overlap: a history variable  *)
(* records which disciplines a behaviour has broken, and each property     *)
(* names the ones it relies on.                                            *)
(***************************************************************************)
EXTENDS SeatBookingInv

VARIABLE broken     \* the disciplines broken so far

In(r, statements) == req[r].pc \in statements

\* At most one confirm (or booking creation) is in flight.
OneSeller == \A r, q \in Requests : In(r, SellSteps) /\ In(q, SellSteps) => r = q
\* At most one reserve is in flight.
OneReserver == \A r, q \in Requests : In(r, ReserveSteps) /\ In(q, ReserveSteps) => r = q
\* A user waits for the answer before sending the next request.
OnePerUser == \A r, q \in Requests : req[r].user = req[q].user /\ req[r].user # None => r = q
\* A cancelled or lapsed booking is never given a live status again.
NoRevival == \A b \in bookings, c \in bookings' : b.id = c.id /\ ~Live(b) => ~Live(c)

Breaks ==
    {d \in {"seller", "reserver", "user", "revival"} :
        \/ d = "seller" /\ ~OneSeller'
        \/ d = "reserver" /\ ~OneReserver'
        \/ d = "user" /\ ~OnePerUser'
        \/ d = "revival" /\ ~NoRevival}

Sale == {"seller", "revival"}
Holding == {"reserver"}
Counting == {"user", "revival"}
Kept(disciplines) == broken \cap disciplines = {}

DisciplineInit == Init /\ broken = {}

DisciplineSpec ==
    /\ DisciplineInit
    /\ [][Next /\ broken' = broken \cup Breaks]_<<vars, broken>>

-----------------------------------------------------------------------------

\* No seat of the trip is sold twice while sales do not overlap: two tickets in
\* bookings that are neither cancelled nor lapsed are for different seats.
SoldOnce == Kept(Sale) => SeatExclusive

\* A user has at most Limit tickets on the trip, while sales do not overlap.
TicketLimit == Kept(Sale) => \A u \in Users : Cardinality(ActiveTicketsOf(u)) <= Limit

\* A user has at most one booking in the state 'Выбран', the one that confirm
\* and checkByIsSelect look for, while neither overlaps.
OneSelected == Kept(Sale) => \A u \in Users : \A b, c \in SelectedOf(u) : b = c

\* At most one user holds a seat ('Место уже забронировано другим
\* пользователем'), and with one row only, while reserves do not overlap,
\* although confirm saves rows it read long before.
HoldExclusive == Kept(Holding) => \A g, h \in Holds : g.seat = h.seat => g = h

\* A user's tickets and unexpired holds are on at most Limit seats together,
\* while he waits for his answers, whatever the others do.
SeatLimit == Kept(Counting) => \A u \in Users :
    Cardinality({t.seat : t \in ActiveTicketsOf(u)}
                \cup {h.seat : h \in {g \in HoldsOf(u) : g.expires > now}}) <= Limit
=============================================================================
