SPECIFICATION Spec
CONSTANTS
    IPs = {ip1}
    Services = {"smtp", "web"}
    Configured = {"smtp"}
    Default <- MCDefault
    Settings <- MCSettings
    Durations = {1}
    CacheTTL = 1
    PurgeInterval = 2
    Retention = 2
    MaxTime = 4
    MaxRows = 3
    MaxOps = 2
INVARIANTS
    TypeOK
    NoMissedBan
    AtMostOneStrayBan
    BlacklistEnforced
PROPERTIES
    StaleSwitchBounded
