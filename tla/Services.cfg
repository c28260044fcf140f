SPECIFICATION Spec
CONSTANTS
    None = None
    Pod = {p1, p2}
    Dept = {d1}
    MaxFires = 2
    MaxEdits = 2
    MaxFaults = 1
    User = {u1, u2}
    Address = {e1, e2, e3}
    Asker = {r1}
    PerWindow = 2
    MaxLinks = 2
    Staff = {s1, s2}
    Group = {g1, g2}
    AdminGroup = {g1}
    Request = {q1, q2}
    Queue = {q3, q4}
    Pipe = {q4}
    Delivery = {1, 2}
    MaxQueueEdits = 1
    MaxRestarts = 2
    DayLength = 3
    WeekLength = 2
    DayCap = 3
    MaxTarget = 5
    MaxWrites = 2
    MaxBreaks = 2
    MaxDeployments = 2
    Upload = {1, 2, 3}
    Challenge = {t1}
    MaxScans = 1
    MaxQueued = 1
    RequestLimit = 1
    ByteLimit = 2
    OrphanLimit = 1
    Login = {l1, l2}
    Threshold = 2
    Key = {"global", "ip", "identity"}
    Mailbox = {1, 2}
    Person = {n1}
    Delivered = {1, 2}
    Rule = {1, 2}
    MaxParsers = 1
    MaxWaiting = 1
    MaxTurns = 1
INVARIANTS
    DoorsHold MailGoesHome CaptureIsEvidence DueIsEarliest DeploymentInv
PROPERTIES
    FiresOnceAsConfigured
CONSTRAINT FewDeliveries
CHECK_DEADLOCK FALSE
