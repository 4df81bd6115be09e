\* A process that starts another while the tree is being killed.
CONSTANTS
    Procs = {p1, p2, p3}
    Child = p1
    Outside = Outside
    Unborn = Unborn
SPECIFICATION Spec
INVARIANT EntireTreeIsKilled
