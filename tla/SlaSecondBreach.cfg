SPECIFICATION FairSpec
CONSTANTS
    Ticket = {1}
    Scan = {s1}
    Plan = {"FIRST_RESPONSE", "RESOLUTION"}
    Sweep = {c1}
    ScanCap = 1
    SweepCap = 1
    MaxWork = 1
    MaxFaults = 1
PROPERTY
    EveryBreachTypeEscalates
CHECK_DEADLOCK FALSE
