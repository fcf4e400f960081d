SPECIFICATION TailSpec
CONSTANTS
    Writers = {w1}
    MaxLines = 3
    MaxInodes = 2
    Rotations = {"rename", "truncate"}
    MaxReadErrors = 1
INVARIANTS
    TailTypeOK
    HandledInOrder
PROPERTIES
    PendingIsHandled
