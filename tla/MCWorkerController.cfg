CONSTANTS
    Runs = {r1, r2}
    None = None
    MaxFaults = 2
SPECIFICATION FairSpec
CHECK_DEADLOCK FALSE
INVARIANTS TypeOK NoFalseStop ExecutedOnce OnePhysicalUnit JournalAgrees CompletionSealed
PROPERTIES ReleasedIsSealed EndedNeverStarts 
