CONSTANTS
    Activations = {a1}
    MaxTime = 2
    None = None
    Interval = 1
    Inputs = {none, i1}
    EmptyInput = none
    Kind <- AllLive
    Humans = {h1}
    MaxFaults = 2
    MaxControls = 2
SPECIFICATION Spec
INVARIANTS TypeOK AtMostOneRun WithdrawnNeverRuns NoLostWork SlotsAccounted FreshInputOnly
