SPECIFICATION FairSpec
CONSTANTS
    Folders = {d}
    Files = {x}
    Top = Top
    LastOp = 2
    NoOp = NoOp
    Users = {u}
    Workers = {p}
    Writers = {w}
    BatchSize = 1
    LastVersion = 2
INVARIANTS
    TypeOK
    TrashIsSound
PROPERTIES
    DueIsPurged
