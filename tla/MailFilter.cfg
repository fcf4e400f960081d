SPECIFICATION Spec
CONSTANTS
    m1 = m1
    m2 = m2
    m3 = m3
    r1 = r1
    r2 = r2
    Messages = {m1, m2, m3}
    Sender <- MCSender
    Party <- MCParty
    Promotional = {m1}
    Unsafe = {m3}
    Rules = {r2}
    Limit <- MCLimit
    Matching <- MCMatching
    MaxFaults = 1
INVARIANTS
    TypeOK
    NoSilentLoss
    DuplicatesExplained
    RateLimitHolds
PROPERTIES
    EventuallySettled
    UnsubscribeHonoured
