SPECIFICATION Spec
CONSTANTS
    IPs = {a1}
    Requests = {q1, q2, q3}
    MAX_FAILURES = 2
    WINDOW = 2
    BAN_DURATION = 2
    MaxTime = 6
    MaxPerTick = 3
    MaxFaults = 1
INVARIANTS
    TypeOK
    GuessesBounded
    NoUnearnedBan
PROPERTIES
    BanHonoured
\* The clock has stopped and the failures of its last tick are used up.
CHECK_DEADLOCK FALSE
