SPECIFICATION Spec
CONSTANTS
    m1 = m1
    m2 = m2
    m3 = m3
    r1 = r1
    r2 = r2
    Messages = {m1, m2}
    Sender <- MCSender
    Party <- MCParty
    Promotional = {}
    Unsafe = {}
    Rules = {r1, r2}
    Limit <- MCLimit
    Matching <- MCMatching
    MaxFaults = 0
INVARIANTS
    RetryNotCounted
