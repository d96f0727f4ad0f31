SPECIFICATION FairSpec
CONSTANTS
    Files = {f1}
    Requests = {r1, r2}
    OpIds = {o1, o2}
    Kinds = {"SAVE"}
    HistoryLimit = 2
    BatchSize = 2
    InsertMayFail = FALSE
    RemoteEditLimit = 1
    NoOp = NoOp
PROPERTIES
    WrittenIsResolved
    ImplementsOutcome
