SPECIFICATION Spec
CONSTANTS
    Procs = {p1, p2, p3}
    Dirs = {d1, d2}
    Images = {i1}
    NoDir = NoDir
    NoImage = NoImage
    Commands = {"create", "run"}
    Faults = {"host", "docker", "inspect", "disk", "crash"}
SYMMETRY Symmetry
INVARIANTS
    MetadataMatches
    CreateOnlyInv
PROPERTIES
    CreateIsListed
    ContestKept
