CONSTANTS
    Calls = {c1, c2}
    Loads = 1
SPECIFICATION Spec
INVARIANTS
    PagesAreItsOwn
