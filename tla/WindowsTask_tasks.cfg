\* The task that could not be started, or not be deleted, stays.
SPECIFICATION Spec
CONSTANTS
    Codes = {c0}
    c0 = c0
    NoCode = NoCode
INVARIANT TasksAreGone
