CONSTANTS
    here = here
    Rooms = {ra, rb}
    None = None
    Torn = Torn
    Theirs = Theirs
    Clients = {c1}
    Accesses <- SomeAccesses
    Plans <- SomePlans
    Workers = {w1, w2}
    MaxLogins = 2
    MaxRotations = 1
    Together <- SomeTogether
    Snapshots = {s1, s2}
    Chunks = 2
    SyncCarries = FALSE
SPECIFICATION Spec
SYMMETRY Alike
INVARIANT OneCredential
