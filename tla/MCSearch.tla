------------------------------ MODULE MCSearch ------------------------------
(* Two lines that meet in one stop. *)
EXTENDS SearchDisciplines

MCLines == <<<<"a", "hub">>, <<"hub", "c">>>>
MCDates == {"today", "tomorrow"}
=============================================================================
