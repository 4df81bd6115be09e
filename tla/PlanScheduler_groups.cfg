\* A group of three plans and a group whose interval is 0; any of the plans may
\* have been lost in the setup. Two clean-ups may overlap.
CONSTANTS
    p1 = p1
    p2 = p2
    p3 = p3
    p4 = p4
    g1 = g1
    g0 = g0
    Plans = {p1, p2, p3, p4}
    Groups = {g1, g0}
    Group <- MCGroup
    Position <- MCPosition
    ZeroInterval = {g0}
    MaxTicks = 2
    MaxCleanups = 2
    None = None
SPECIFICATION FairSpec
INVARIANTS
    OneAtATime
    TakeTurns
    NeverAhead
    NothingOutlives
PROPERTIES
    CatchesUp
    CancelEnds
