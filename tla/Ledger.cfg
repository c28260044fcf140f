SPECIFICATION FairSpec
CONSTANTS
    k1 = k1
    k2 = k2
    s1 = s1
    s2 = s2
    f1 = f1
    f2 = f2
    f3 = f3
    p1 = p1
    p2 = p2
    Delivery = {1, 2}
    Key = {k1, k2}
    Thread = Thread
    NoTicket = NoTicket
    Sem = {s1, s2}
    Inboxes <- AllInboxes
    Process = {p1, p2}
    Flow = {f1, f2, f3}
    ProcessOf <- TwoPods
    Drainer = {f1, f2}
    NoFlow = NoFlow
    MaxAttempts = 2
    DrainBatch = 1
    MaxReplays = 1
    MaxFaults = 1
INVARIANTS LedgerInv OneTicketPerMessage NothingIsLost
PROPERTIES OnlyTheHolderMoves EventuallySettled
CHECK_DEADLOCK FALSE
