SPECIFICATION Spec
CONSTANTS
    a1 = a1
    a2 = a2
    a3 = a3
    p1 = p1
    p2 = p2
    p3 = p3
    Adapters = {a1, a2, a3}
    Minors = {0, 1}
    Procs = {p1, p2, p3}
    NoAdapter = NoAdapter
    NoProc = NoProc
    NoMinor = NoMinor
    Closed = Closed
SYMMETRY Symmetry
INVARIANTS
    TypeOK
    DevsParallel
    OpenFilesReachAdapter
