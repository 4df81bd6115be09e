\* A plugin may stall with the lock in its hands.
CONSTANTS
    t1 = t1
    t2 = t2
    phase = phase
    planA = planA
    planB = planB
    r1 = r1
    Main = Main
    Threads = {t1}
    Plugins = {r1}
    TopFiles = {phase}
    PlanFiles = {planA, planB}
    Owner <- MCOwnerJoint
    Configs <- MCConfigAll
    Bodies = {1}
    MaxStarts = 1
    WalkRank <- MCWalkRank
    None = None
    Torn = Torn
SPECIFICATION FairSchedulerSpec
PROPERTY CancelledWaitEnds
