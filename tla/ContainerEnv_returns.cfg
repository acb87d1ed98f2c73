SPECIFICATION FairSpec
CONSTANTS
    Procs = {p1, p2}
    Dirs = {d1}
    Images = {i1, i2}
    NoDir = NoDir
    NoImage = NoImage
    Commands = {"run --create", "destroy"}
    Faults = {"docker", "inspect", "disk", "crash"}
INVARIANTS
    TypeOK
PROPERTIES
    CommandsReturn
    CallsRunOut
