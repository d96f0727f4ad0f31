SPECIFICATION Spec
CONSTANTS
    Files = {f1}
    Requests = {r1, r2}
    OpIds = {o1, o2}
    Kinds = {"SAVE", "RESTORE"}
    HistoryLimit = 1
    BatchSize = 2
    InsertMayFail = FALSE
    RemoteEditLimit = 2
    NoOp = NoOp
SYMMETRY RequestSymmetry
INVARIANTS
    TypeOK
    PublishedTogether
    HistoryIsSequence
    SaveWritesOnce
PROPERTIES
    RetentionSparesRecent
    PositionsGrow
