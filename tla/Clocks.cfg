SPECIFICATION FairSpec
CONSTANTS
    Ticket = {1, 2}
    Scan = {s1, s2}
    Plan = {"FIRST_RESPONSE", "RESOLUTION"}
    Sweep = {c1}
    ScanCap = 1
    SweepCap = 1
    MaxWork = 1
    MaxFaults = 1
INVARIANTS
    ClocksInv
PROPERTIES
    StaleListsAreHarmless
    FirstBreachEscalates
CHECK_DEADLOCK FALSE
