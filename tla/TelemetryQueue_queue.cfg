\* A small queue, sending switched off and on, lost answers, a malformed record.
CONSTANTS
    Recorders = {r1, r2}
    MaxQueued = 3
    BatchSize = 2
    Bad = {2}
    MaxRecords = 5
    MaxSwitches = 1
SPECIFICATION FairSpec
INVARIANTS StoredInOrder QueueIsNewest KeptWhileThereIsRoom
PROPERTIES EveryRecordLeaves
CHECK_DEADLOCK FALSE
