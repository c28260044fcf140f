CONSTANTS
    t1 = t1
    t2 = t2
    t3 = t3
    b1 = b1
    b2 = b2
    c1 = c1
    c2 = c2
    NoToken = NoToken
    Token <- Tokens3
    Tab <- TwoTabs
    Change <- TwoChanges
    LinkCount = 3
    MaxFaults = 1
SPECIFICATION Spec
SYMMETRY Symmetric
CONSTRAINT OneStory
INVARIANTS
    AccountInv
PROPERTIES
    SessionsEndForCause NewerLinkWins
CHECK_DEADLOCK FALSE
