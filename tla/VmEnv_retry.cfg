SPECIFICATION Spec
CONSTANTS
    Procs = {p1}
    Branches = {b1}
    NoBranch = NoBranch
    Commands = {"create", "clone-repo", "install-tools", "install-from-source"}
    Faults = {"lima"}
PROPERTIES
    RetryFindsVm
