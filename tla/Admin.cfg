CONSTANTS
    Domains = {"d"}
    DomainNames = {"n", "m"}
    Users = {"u", "v"}
    AliasIds = {1, 2}
    ForwardIds = {1}
    Relays = {"r"}
    Lists = {"l"}
    Patterns = {"@n", "two words"}
    Sources <- MCSources
    Targets <- MCTargets
    Secrets = {1, 2}
    Requests = {r1, r2}
    Boot = boot
    Sizes = {"30MiB", "1MiB"}
    MaxFaults = 1
    Incoming = {m1}
    Sends = {r1, r2}
    MailSizes = {1, 2}
    MaxSecond = 2
    MaxMailFaults = 1
    MAX_IDLE_SESSIONS = 1
    MaxNew = 1
    Streams = {c1, c2, c3}
    Keys = {k1}
    Calls = {c1, c2, c3}
    Window = 1
    RATE_LIMIT = 2
    DESTRUCTIVE_RATE_LIMIT = 1
    MaxFailures = 2
SPECIFICATION MCSpec
INVARIANTS
    AdminTypeOK
    CatchAllSparesMailboxes
    FilesFollowTables
    SentCopiesKept
    SessionsWithinCap
    McpLimitHolds
SYMMETRY Symmetry
CHECK_DEADLOCK FALSE
