--------------------------- MODULE MCBookingPage ---------------------------
(* The instance is in the configuration: liveness is checked without symmetry. *)
EXTENDS PageDisciplines
=============================================================================
