\* The tree grows to three processes while it is interrupted and killed, on
\* either platform.
CONSTANTS
    Procs = {p1, p2, p3}
    Child = p1
    Outside = Outside
    Unborn = Unborn
SPECIFICATION FairSpec
INVARIANTS
    TreeIsKilled
    OnlyTreeIsKilled
PROPERTIES
    KeepsContract
    CooperativeTreeEnds
    SupervisionEnds
