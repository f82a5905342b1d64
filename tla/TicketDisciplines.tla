------------------------- MODULE TicketDisciplines -------------------------
(***************************************************************************)
(* What create and cansel promise about the array of a bus while they are  *)
(* called in an orderly way: one request at a time, no crash in one, no    *)
(* cancellation of a ticket that is gone already (a page that was not      *)
(* reloaded), no resizing of the bus and no confirm.  Nothing in the code  *)
(* provides this order; a history variable records whether it was kept.    *)
(***************************************************************************)
EXTENDS Tickets

VARIABLE orderly

Alone == \A r, q \in Requests : req[r] # Idle /\ req[q] # Idle => r = q
Fresh == \A r \in Requests : At(r, "CanselRead") => req[r].ticket \in tickets

DisciplineNext ==
    \/ /\ Work
       /\ orderly' = (/\ orderly /\ Alone' /\ Fresh /\ ~Confirm
                      /\ \A r \in Requests : ~At(r, "ResizeWrite"))
    \/ Crash /\ orderly' = FALSE

DisciplineInit == Init /\ orderly = TRUE
DisciplineSpec == DisciplineInit /\ [][DisciplineNext]_<<vars, orderly>>

\* The seats that are free if each request happened at its last statement.
Free ==
    LET array == {capacity[i] : i \in DOMAIN capacity} IN
    (array \cup {req[r].seat : r \in {q \in Requests : At(q, "CreateSave")}})
        \ {req[r].ticket.seat : r \in {q \in Requests : At(q, "CanselDelete")}}

Pool == INSTANCE SeatPool WITH
    free <- Free, sold <- {[seat |-> t.seat, booking |-> t.booking] : t \in tickets}

\* While the calls are orderly, create and cansel are the atomic steps of SeatPool,
\* although each writes the array and the ticket in two statements.
ImplementsPool == Pool!Spec

\* No seat is in the array twice: cansel "restores" a seat that was taken out.
NoDuplicate == IsInjective(capacity)
=============================================================================
