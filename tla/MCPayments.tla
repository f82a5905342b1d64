---------------------------- MODULE MCPayments ----------------------------
(* Model-checking instances of Payments. *)
EXTENDS Payments, TLC

\* Rows and slots are interchangeable; sessions are numbered.
Interchangeable == Permutations(Bookings) \cup Permutations(Requests)
=============================================================================
