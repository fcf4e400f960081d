SPECIFICATION Spec
CONSTANTS
    Requests = {q1, q2, q3}
    Limits = {1}
    MaxLimit = 1
    MaxDays = 2
    MaxFaults = 0
PROPERTIES
    LimitReachedIsRefused
CHECK_DEADLOCK FALSE
