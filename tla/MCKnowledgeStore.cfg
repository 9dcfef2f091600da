CONSTANTS
    Ops = {o1, o2, o3}
    Digests = {"a", "b"}
    Bundles <- MCBundles
    None = None
    MaxFaults = 2
    MaxDamage = 1
SPECIFICATION Spec
SYMMETRY OpSymmetry
INVARIANTS
    MarkerIsComplete
    SettledWhenFree
PROPERTIES
    ImplementsActivation
    ReplacesWhatItSaw
