\* Two groups write and a plugin reads, one at a time, as the agent runs it; its
\* waits for the lock and theirs.
CONSTANTS
    t1 = t1
    t2 = t2
    phase = phase
    planA = planA
    planB = planB
    r1 = r1
    Main = Main
    Threads = {t1, t2}
    Plugins = {r1}
    TopFiles = {phase}
    PlanFiles = {planA, planB}
    Owner <- MCOwnerSplit
    Configs <- MCConfigAll
    Bodies = {1}
    MaxStarts = 1
    WalkRank <- MCWalkRank
    None = None
    Torn = Torn
SPECIFICATION FairSpec
INVARIANTS
    Exclusion
    ReadsAreCurrent
PROPERTY WaitsEnd
