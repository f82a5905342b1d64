----------------------------- MODULE MCTickets -----------------------------
(* Model-checking instances of Tickets and TicketDisciplines. *)
EXTENDS TicketDisciplines, TLC

\* Bookings and slots are interchangeable; seats are ordered.
Interchangeable == Permutations(Bookings) \cup Permutations(Requests)
=============================================================================
