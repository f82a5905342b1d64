------------------------------ MODULE MCTrips ------------------------------
(* Model-checking instances of Trips and TripDisciplines. *)
EXTENDS TripDisciplines, TLC

\* Bookings, buses and slots are interchangeable; Me is one of the drivers.
Interchangeable == Permutations(Bookings) \cup Permutations(Buses) \cup Permutations(Requests)
=============================================================================
