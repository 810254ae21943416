CONSTANTS
    Procs = {p1, p2, p3}
    Task = p1
    Guard = guard
    Kinds = {"browser"}
SPECIFICATION Spec
CHECK_DEADLOCK FALSE
INVARIANT ExitMeansReaped
