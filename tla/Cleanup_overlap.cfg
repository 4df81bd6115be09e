\* Two clean-ups may overlap; one execution is kept, or those that are not a
\* second old.
SPECIFICATION Spec
CONSTANTS
    MaxRuns = 2
    MaxTime = 3
    CleanUps = {c1, c2}
    c1 = c1
    c2 = c2
    Configs <- MCConfigs
    Second = 2
INVARIANTS
    RemovedForNewer
    YoungAreSafe
    EnoughRemain
    CleanUpIsThorough
SYMMETRY ThreadSymmetry
