\* Two sessions, and the stages that only Windows has.
CONSTANTS
    p1 = p1
    p2 = p2
    p3 = p3
    p4 = p4
    current = current
    user = user
    Plans = {p1, p2, p3, p4}
    Rcc = {p1, p2, p3}
    Managed = {p3, p4}
    Sessions = {current, user}
    Session <- MCSession
    Current = current
    Position <- MCPosition
    Platform = "windows"
    Absent = Absent
SPECIFICATION FairSpec
INVARIANTS
    Accounted
    SectionsPartition
    SchedulesWhatWasBuilt
    BuildsInTurn
PROPERTY
    SetupEnds
