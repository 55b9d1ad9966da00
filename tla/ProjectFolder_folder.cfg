SPECIFICATION Spec
CONSTANTS
    Threads = {t1, t2}
    None = None
    Free = Free
    NoFile = NoFile
    MaxTalks = 2
    MaxLives = 1
    MaxMessages = 1
    MaxEdits = 1
    MaxFaults = 1
SYMMETRY Symmetry
INVARIANTS NumberMeansOneTalk WorkFindsAll
PROPERTY RefusedDeleteKeepsTalk
CHECK_DEADLOCK FALSE
