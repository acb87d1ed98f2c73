SPECIFICATION FairSpec
CONSTANTS
    Procs = {p1}
    Branches = {b1, b2}
    NoBranch = NoBranch
    Commands = {"create", "run", "shell", "destroy", "clone-repo"}
    Faults = {"host", "lima", "list", "broken"}
INVARIANTS
    NothingListedInVain
PROPERTIES
    CommandsReturn
    CallsRunOut
