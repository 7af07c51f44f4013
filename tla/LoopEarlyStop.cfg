SPECIFICATION Spec
CONSTANTS
    d1 = d1
    d2 = d2
    r1 = r1
    r2 = r2
    n1 = n1
    n2 = n2
    n3 = n3
    x1 = x1
    p1 = p1
    p2 = p2
    b1 = b1
    b2 = b2
    Devices = {d1}
    Regular = {r1}
    Nodes = {n1}
    DevOf <- AllFirst
    Writable = {r1, n1}
    Offered = {r1}
    Procs = {p1, p2}
    Bios = {b1}
    Writes = {b1}
    Xfers = {}
    NoDevice = NoDevice
    NoFile = NoFile
    NoXfer = NoXfer
    NoBio = NoBio
    NoActor = NoActor
    Switch = Switch
SYMMETRY ProcSymmetry
CHECK_DEADLOCK FALSE
INVARIANTS
    ThreadDrainsQueue
