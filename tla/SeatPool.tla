------------------------------ MODULE SeatPool ------------------------------
(***************************************************************************)
(* What the ticket service promises about the seats of a bus: each seat is *)
(* free or on one ticket, a new ticket takes the first free seat, and a    *)
(* cancelled ticket gives its seat back.  Each is one step.  The promise   *)
(* is made to orderly calls only: once they are not, anything may happen.  *)
(***************************************************************************)
EXTENDS Naturals

CONSTANTS Seats, Bookings

VARIABLES free, sold,   \* sold: [seat, booking] of every ticket
          orderly       \* the calls have been orderly so far

Init == free = Seats /\ sold = {} /\ orderly = TRUE

Take(b) == \E s \in free :
    /\ \A t \in free : s <= t
    /\ free' = free \ {s}
    /\ sold' = sold \cup {[seat |-> s, booking |-> b]}

Return(t) ==
    /\ sold' = sold \ {t}
    /\ free' = free \cup {t.seat}

Next ==
    \/ /\ orderly /\ orderly'
       /\ (\E b \in Bookings : Take(b)) \/ (\E t \in sold : Return(t))
    \/ ~orderly'

Spec == Init /\ [][Next]_<<free, sold, orderly>>
=============================================================================
