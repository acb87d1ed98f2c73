SPECIFICATION Spec
CONSTANTS
    Paths = {a, b, out}
    Outside = {out}
    NoPath = NoPath
    Files = {f, g}
    Vars = {v}
    MaxScripts = 3
INVARIANTS
    TypeOK
    RunsInOrder
    SuccessMeansDone
    MissingVarsLeaveNothing
CHECK_DEADLOCK FALSE
