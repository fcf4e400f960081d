SPECIFICATION Spec
CONSTANTS
    Registrants = {p1, p2}
    Names = {n1, n2}
    Codes = {c1, c2}
    Backing = {n2}
    MaxFaults = 1
INVARIANTS
    TypeOK
    CodeBuysOneAccount
    NoNeedlessBurn
PROPERTIES
    RegistrationAnswered
\* A restart may be the last thing that frees the mutex.
CHECK_DEADLOCK FALSE
