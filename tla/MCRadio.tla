------------------------------ MODULE MCRadio ------------------------------
EXTENDS RadioDisciplines, TLC

\* The browsers are interchangeable: their ids decide who offers.
Symmetry == Permutations(Browsers)
=============================================================================
