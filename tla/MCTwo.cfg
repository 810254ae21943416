CONSTANTS
    Activations = {a1, a2}
    MaxTime = 1
    None = None
    Interval = 1
    Inputs = {none, i1}
    EmptyInput = none
    Kind <- PlainAndFrozen
    Humans = {h1}
    MaxFaults = 1
    MaxControls = 0
SPECIFICATION Spec
INVARIANTS SingleFlight ProcessedIsReal FailureAuditable
PROPERTIES ReceiptsFinal
