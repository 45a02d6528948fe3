\* Every request, with a database of either kind, and with and without upstream.
CONSTANTS
    c1 = c1
    c2 = c2
    t1 = t1
    t2 = t2
    t3 = t3
    o1 = o1
    o2 = o2
    g1 = g1
    g2 = g2
    None = None
    Client = {c1, c2}
    Task = {t1, t2, t3}
    Out = {o1, o2}
    Mark = {g1, g2}
    Kind = {"report", "readonly", "report-equiv", "get", "get-all", "get-stream", "get-outhash", "get-row", "remove", "gc-mark", "gc-sweep", "clean-unused"}
    Servers <- SqliteOrAlchemy
    MaxRequests = 4
SPECIFICATION Spec
SYMMETRY Symmetry
CHECK_DEADLOCK FALSE
INVARIANTS
    TypeOK
    SoundEquivalence
    ReportersAgree
PROPERTIES
    SweepKeepsMarked
