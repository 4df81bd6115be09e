\* One group, one plugin, two processes, and planB may be dropped in between.
CONSTANTS
    t1 = t1
    t2 = t2
    phase = phase
    planA = planA
    planB = planB
    r1 = r1
    Main = Main
    Threads = {t1}
    Plugins = {r1}
    TopFiles = {phase}
    PlanFiles = {planA, planB}
    Owner <- MCOwnerJoint
    Configs <- MCConfigShrinks
    Bodies = {1}
    MaxStarts = 2
    WalkRank <- MCWalkRank
    None = None
    Torn = Torn
SPECIFICATION Spec
INVARIANTS
    PublishedNeverTorn
    OneRunPerSnapshot
PROPERTY ImplementsStore
