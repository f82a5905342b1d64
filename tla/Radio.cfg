\* Two browsers, and a lost connection, a press of the button or a page that is left.
\* Connections and turns are bounded: the radio rests in the end.
CHECK_DEADLOCK FALSE
SPECIFICATION DisciplineSpec
SYMMETRY Symmetry
CONSTANTS
    Browsers = {b1, b2}
    MaxId = 3
    MaxTurns = 1
INVARIANTS NoneLeaked NoGlare NoGhost Joins
PROPERTIES AnswerFits
