CONSTANTS
    Procs = {p1, p2, p3, p4}
    Task = p1
    Guard = guard
    Kinds = {"namespace", "browser"}
SPECIFICATION FairSpec
CHECK_DEADLOCK FALSE
INVARIANTS TypeOK QuietWhenTrusted
PROPERTY ReapEnds
