--------------------------- MODULE MCSeatBooking ---------------------------
(* Model-checking instances of SeatBooking. *)
EXTENDS SeatBookingInv, TLC

\* Users, seats and slots are interchangeable.
Interchangeable == Permutations(Users) \cup Permutations(Capacity) \cup Permutations(Requests)
=============================================================================
