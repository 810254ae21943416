CONSTANTS
    Horizon = 3
    Overshoot = 2
    BacklogLimit = 1
SPECIFICATION Spec
INVARIANTS LatestSlot FormsAgree BacklogBoundary
PROPERTY Terminates
CHECK_DEADLOCK FALSE
