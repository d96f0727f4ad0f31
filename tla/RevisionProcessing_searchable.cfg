SPECIFICATION SettledSpec
CONSTANTS
    Files = {f1}
    Slots = {s1}
    NoSlot = NoSlot
    MaxAttempts = 2
    MaxRevision = 2
PROPERTIES
    CurrentIsSearchable
CHECK_DEADLOCK FALSE
