CONSTANTS
    here = here
    Rooms = {ra, rb}
    None = None
    Torn = Torn
    Theirs = Theirs
    Clients = {c1, c2}
    Accesses <- SomeAccesses
    Plans <- SomePlans
    Workers = {w1, w2}
    MaxLogins = 2
    MaxRotations = 1
    Together <- SomeTogether
    Snapshots = {s1, s2}
    Chunks = 2
    SyncCarries = TRUE
SPECIFICATION Spec
SYMMETRY Alike
INVARIANTS TypeOK SessionKept EnrollmentTrue IntentSurvives EnrolledAsBound
PROPERTY WrittenOnce
