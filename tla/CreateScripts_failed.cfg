SPECIFICATION Spec
CONSTANTS
    Paths = {a, b, out}
    Outside = {out}
    NoPath = NoPath
    Files = {f, g}
    Vars = {v}
    MaxScripts = 1
INVARIANTS
    FailedScriptFailsCreate
CHECK_DEADLOCK FALSE
