SPECIFICATION Spec
CONSTANTS
    Procs = {p1}
    Dirs = {d1, d2}
    Images = {i1, i2}
    NoDir = NoDir
    NoImage = NoImage
    Commands = {"create", "run", "run --create", "shell", "destroy"}
    Faults = {"host", "docker", "prune"}
INVARIANTS
    RunSeesItsRequest
    LiveIsListed
PROPERTIES
    OnlyOutdatedRemoved
