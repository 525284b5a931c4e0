CONSTANTS
    Readers = {r1, r2}
    r1 = r1
    r2 = r2
    MaxChange = 2
    Days = 2
    MaxRow = 2
SPECIFICATION Spec
SYMMETRY Symmetry
INVARIANTS TypeOK AnswersStand NothingEarly AppliedIsComplete
PROPERTIES DecisionsAreFinal
