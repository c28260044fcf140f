CONSTANTS
    home = home
    away = away
    Account = {home, away}
    Home = home
    None = None
    Validities <- Shared
    Pod = {p1, p2}
    Operator = {o1, o2}
    OldMail = 1
    Backfill = {0, 1}
    MaxUid = 2
    MaxConfig = 1
    MaxGen = 2
    MaxFaults = 1
SPECIFICATION Spec
SYMMETRY Symmetric
INVARIANTS
    ImapInv NoMailSkipped
PROPERTIES
    RowMovesForward
CHECK_DEADLOCK FALSE
CONSTRAINT FewAtOnce
