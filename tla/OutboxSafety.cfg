SPECIFICATION Spec
CONSTANTS
    Email = {1, 2}
    StaffReply = {1, 2}
    TicketOf <- MCTicketOf
    Ticket = {t1}
    CanaryMatch = {1}
    Macro = {m1, m2}
    Worker = {w1, w2}
    NoWorker = NoWorker
    MaxAttempts = 2
    RecoveryBatch = 1
    MaxRetries = 2
    MaxRestarts = 1
    MaxFaults = 2
CONSTRAINT OneStory
SYMMETRY Symmetric
INVARIANT NoUnconsentedDuplicate
PROPERTIES DeliveryIsImplemented OnlyEarlierMacrosRestamp ClosedDeliveryTouchesNothing
CHECK_DEADLOCK FALSE
