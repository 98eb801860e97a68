SPECIFICATION Spec
CONSTANTS
    Conns = {b1, b2}
    MaxStarts = 3
    MaxSent = 3
    MaxAnswers = 3
INVARIANTS
    LivesPaired
    EndsOnlyForCause
PROPERTIES
    ImplementsUpPipe
    ImplementsDownPipe
CONSTRAINT FewFrames
SYMMETRY Symmetry
CHECK_DEADLOCK FALSE
