SPECIFICATION Spec
CONSTANTS
    Procs = {p1, p2, p3}
    Dirs = {d1}
    Images = {i1}
    NoDir = NoDir
    NoImage = NoImage
    Commands = {"create", "run", "run --create", "shell"}
    Faults = {"host", "docker", "disk", "crash"}
SYMMETRY ProcSymmetry
INVARIANTS
    SameRequestInv
PROPERTIES
    NeverRemoved
