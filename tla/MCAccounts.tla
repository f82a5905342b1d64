----------------------------- MODULE MCAccounts -----------------------------
(* The instance is in the configuration: liveness is checked without symmetry. *)
EXTENDS AccountDisciplines
=============================================================================
