\* A plan that is configured or not in three runs, for changing users.
SPECIFICATION Spec
CONSTANTS
    Plans = {p1}
    Rcc = {p1}
    Managed = {p1}
    current = current
    alice = alice
    bob = bob
    Sessions = {current, alice, bob}
    Current = current
    CustomProfile = TRUE
    TooLarge = {2}
    MaxStarts = 3
    MaxVersions = 2
SYMMETRY Symmetry
INVARIANTS
    AccessFits
    NothingForeign
    FormerPlansForgotten
    ArchiveIsWhole
PROPERTY HistoryIsKept
