------------------------- MODULE MCSeatDisciplines -------------------------
(* Model-checking instances of SeatDisciplines. *)
EXTENDS SeatDisciplines, TLC

\* Users, seats and slots are interchangeable.
Interchangeable == Permutations(Users) \cup Permutations(Capacity) \cup Permutations(Requests)
=============================================================================
