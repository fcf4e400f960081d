SPECIFICATION Spec
CONSTANTS
    Requests = {q1, q2, q3}
    Limits = {0, 1}
    MaxLimit = 1
    MaxDays = 2
    MaxFaults = 1
INVARIANTS
    TypeOK
    LimitHolds
PROPERTIES
    NoEarlyRefusal
\* Every request has been answered.
CHECK_DEADLOCK FALSE
