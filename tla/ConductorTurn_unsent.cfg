\* A message whose first exchange fails after a read.
CONSTANTS
    Experts = {core, held}
    Held = {held}
    None = None
    Limit = 1
    MaxReads = 2
    MaxPapers = 3
SPECIFICATION Spec
INVARIANTS ErrorMeansUnsent
CHECK_DEADLOCK FALSE
