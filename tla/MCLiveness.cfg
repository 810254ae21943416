CONSTANTS
    Activations = {a1}
    MaxTime = 1
    None = None
    Interval = 1
    Inputs = {none, i1}
    EmptyInput = none
    Kind <- AllLive
    Humans = {h1}
    MaxFaults = 1
    MaxControls = 2
SPECIFICATION Spec
PROPERTIES Released Dispatched
