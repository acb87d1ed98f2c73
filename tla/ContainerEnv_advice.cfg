SPECIFICATION Spec
CONSTANTS
    Procs = {p1}
    Dirs = {d1}
    Images = {i1}
    NoDir = NoDir
    NoImage = NoImage
    Commands = {"create", "run"}
    Faults = {}
PROPERTIES
    StoppedAdviceWorks
