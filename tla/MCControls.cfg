CONSTANTS
    Activations = {a1}
    MaxTime = 2
    None = None
    Interval = 1
    Inputs = {none, i1}
    EmptyInput = none
    Kind <- AllLive
    Humans = {h1, h2}
    MaxFaults = 0
    MaxControls = 3
SPECIFICATION Spec
PROPERTIES ResumeFencesFailure KeepsContract
SYMMETRY SomeHuman
