SPECIFICATION StoresSpec
CONSTANTS
    Key = {k1}
    Reaper = {r1, r2}
    MaxFaults = 3
    Email = {1, 2}
    StaffReply = {1}
    Ticket = {t1}
    CanaryMatch = {2}
    Worker = {w1}
    NoWorker = NoWorker
    MaxAttempts = 2
    RecoveryBatch = 1
    MaxRetries = 0
    MaxRestarts = 0
    MaxMailFaults = 1
INVARIANTS PointerHasBytes PublishedBytesTraceable
PROPERTIES ReapedStaysReaped ReservationsEnd EventuallySettled
CHECK_DEADLOCK FALSE
