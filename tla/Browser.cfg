SPECIFICATION BrowserSpec
CONSTANTS
    None = None
    PageFaults = 1
    Ticket = {1, 2}
    Status = {"open", "closed"}
    Job = {j1, j2}
    Caller = {m1, m2}
    MaxScreenWrites = 2
    Row = {1, 2}
    Request = {1, 2}
    FieldsOnly = FALSE
    MaxOpenings = 2
    MaxTyped = 1
    MaxWrites = 1
    File = {f1, f2}
    Submission = {1, 2}
    MaxTokens = 2
    Window = {w1}
    Ask = {c1, c2}
    MaxChanges = 1
INVARIANTS
    ScreensKeepUp PagesKeepTheirWord
CONSTRAINT OneDisturbance
CHECK_DEADLOCK FALSE
