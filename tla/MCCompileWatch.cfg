CONSTANTS
    Kinds = {"full", "package"}
    Projects = 2
    MaxFaults = 1
SPECIFICATION OneErrorSpec
INVARIANTS
    SuccessIsTrue
    SuccessNeedsSilence
PROPERTIES
    ErrorsFailTheCompile
    EveryCompileEnds
