\* A run with two exit codes, in which every call can fail.
SPECIFICATION FairSpec
CONSTANTS
    Codes = {c0, c1}
    c0 = c0
    c1 = c1
    NoCode = NoCode
INVARIANTS CompletedIsTrue CommandIsOver
PROPERTIES KeepsContract CallReturns
