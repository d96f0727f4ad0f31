SPECIFICATION Spec
CONSTANTS
    Files = {f1}
    Requests = {r1, r2}
    OpIds = {o1, o2}
    Kinds = {"RESTORE"}
    HistoryLimit = 1
    BatchSize = 2
    InsertMayFail = TRUE
    RemoteEditLimit = 1
    NoOp = NoOp
SYMMETRY RequestSymmetry
INVARIANTS
    WriteAhead
