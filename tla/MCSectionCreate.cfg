CONSTANTS
    Calls = {c1, c2}
    Loads = 2
SPECIFICATION OneEntitySpec
INVARIANTS
    GateIsHeldOnce
    CreatedFalseIsTrue
    SuccessIsItsOwn
PROPERTIES
    ImplementsOutcome
    EveryCallEnds
