SPECIFICATION Spec
CONSTANTS
    Procs = {p1, p2, p3}
    Branches = {b1, b2}
    NoBranch = NoBranch
    Commands = {"create", "run"}
    Faults = {"host", "lima", "list", "disk", "crash"}
SYMMETRY Symmetry
INVARIANTS
    TypeOK
    RecordMatchesClone
    SetsUpAlone
    OneMaker
PROPERTIES
    CreateDelivers
    ContestKept
