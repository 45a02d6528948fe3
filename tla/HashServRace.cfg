\* Two reports of one task and one output, with a database of sqlalchemy.
CONSTANTS
    c1 = c1
    c2 = c2
    t1 = t1
    t2 = t2
    t3 = t3
    o1 = o1
    o2 = o2
    g1 = g1
    g2 = g2
    None = None
    Client = {c1, c2}
    Task = {t1, t2}
    Out = {o1}
    Mark = {g1}
    Kind = {"report"}
    Servers <- Alchemy
    MaxRequests = 3
SPECIFICATION Spec
CHECK_DEADLOCK FALSE
INVARIANTS
    AlwaysAgree
