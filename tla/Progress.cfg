SPECIFICATION ProgressSpec
CONSTANTS
    None = None
    Event = {1, 2}
    Actions = 2
    Poison = {2}
    Worker = {w1, w2}
    Address = {old, new}
    MaxAttempts = 2
    Batch = 1
    EventFaults = 2
    MaxEdits = 1
    Account = {home, away}
    Home = home
    Poller = {i1}
    Operator = {o1}
    OldMail = 1
    Backfill = {0}
    MaxUid = 2
    MaxConfig = 1
    MaxGen = 2
    Att = {1, 2}
    Pod = {p1, p2}
    MaxOrphans = 1
    OtherFaults = 1
INVARIANTS
    NothingIsLost
PROPERTIES
    OnlyTheHolderSettles EventuallySettled MailIsTaken UsedAttachmentsStay StagedDeletesEnd
CHECK_DEADLOCK FALSE
