CONSTANTS
    Calls = {c1, c2}
    NoCall = NoCall
SPECIFICATION FairSpec
INVARIANTS
    SingleLogin
    LoginReplacesUnusable
    EveryLoginWasNeeded
    RetryUsesNewerSession
PROPERTIES
    ImplementsLease
    EveryCallReturns
