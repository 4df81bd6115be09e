\* Two tests and three attempts, so that a retry can be wrong about both of its
\* predecessors; every strategy and environment.
CONSTANTS
    Tests = {a, b}
    NAttemptsMax = 3
    Strategies = {"Incremental", "Complete"}
    Environments = {"System", "Rcc"}
    Absent = Absent
    Torn = Torn
    NotRun = NotRun
    Error = Error
SPECIFICATION FairSpec
INVARIANTS
    ReportIsComplete
    OutputsAreReported
    PassedTestsRest
    VerdictsAgree
PROPERTY RunEnds
