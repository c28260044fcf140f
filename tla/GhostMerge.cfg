SPECIFICATION MCSpec
CONSTANTS
    a1 = a1
    a2 = a2
    d1 = d1
    d2 = d2
    t1 = t1
    t2 = t2
    t3 = t3
    None = None
    Agent = {a1, a2}
    Dept = {d1, d2}
    Ticket = {t1, t2, t3}
    Post = {1, 2, 3, 4}
    Request = {1, 2}
    Macros <- OneMacro
    Crew <- TwoDesks
    Desk <- Desks
    Thread <- Threads
PROPERTY
    PostsNeverMoveToAGhost
CHECK_DEADLOCK FALSE
