CONSTANTS
    Projects = {p1}
    Requests = {r1, r2}
    None = None
    Free = Free
    MaxFinished = 0
    MaxJobs = 2
    MaxLives = 2
    MaxEvents = 1
SPECIFICATION FairSpec
INVARIANTS JobsInv JobKeepsFolder OverMeansFree
PROPERTIES JobsEnd
CHECK_DEADLOCK FALSE
