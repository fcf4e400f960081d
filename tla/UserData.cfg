CONSTANTS
    Requests = {r1, r2, r3}
    Names = {a, b}
    Owner <- MCOwner
    Sizes = {1, 2}
    Limits = {2}
    Quotas = {0, 2}
    MaxFaults = 1
    DavRequests = {r1, r2, r3}
    Files = {a, b}
    Lower <- MCLower
    MaxDavFaults = 1
    Slugs = {"work", "Work"}
    Ids = {1, 2}
    MAX_OBJECTS = 1
    MAX_COLLECTIONS = 1
    Keys = {r1, r2, r3}
    Attempts = {a, b}
    MAX_FAILURES = 2
    WINDOW = 1
    BAN_DURATION = 2
    MAX_ENTRIES = 2
    MaxTime = 3
    Calls = {r1, r2, r3}
    Messages = {m1}
    Folders = {f1}
    MaxState = 4
    MaxMoves = 2
SPECIFICATION MCSpec
INVARIANTS
    UserDataTypeOK
    AcknowledgedIsKept
    LengthIsBodys
    CtagTellsChanges
    CapHolds
    BanHolds
    StateNamesOneSnapshot
PROPERTIES
    QuotaHolds
    ImplementsStore
SYMMETRY Symmetry
CHECK_DEADLOCK FALSE
