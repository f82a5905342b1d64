---------------------------- MODULE MCDashboard ----------------------------
(* Model-checking instance of DashboardDisciplines. *)
EXTENDS DashboardDisciplines, TLC

\* Slots are interchangeable.
Interchangeable == Permutations(Requests)
=============================================================================
