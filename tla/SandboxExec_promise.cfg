SPECIFICATION Spec
CONSTANTS
    Leader = nono
    Descendants = {d1, d2}
    MayIgnore = {nono, d1}
    Modes = {TRUE, FALSE}
    MaxSignals = 3
INVARIANTS
    TypeOK
    GoroutinesAgree
    CodeTellsSignal
PROPERTIES
    KeepsPromise
    NoHastyKill
    NothingLeft
CHECK_DEADLOCK FALSE
