SPECIFICATION Spec
CONSTANTS
    Registrants = {p1}
    Names = {n1}
    Codes = {c1}
    Backing = {}
    MaxFaults = 0
PROPERTIES
    InviteCodesCleanedUp
CHECK_DEADLOCK FALSE
