\* Every kind of job in every mode, with the code's own limits; and what the
\* models of a job are sent, with the lengths of the code scaled down.
CONSTANTS
    Experts = {core, held}
    Held = {held}
    None = None
    Limit = 3
    MaxReads = 2
    MaxPapers = 3
    MarkLen = 4
    Margin = 14
    Outputs = {core, held}
    Lengths <- MCLengths
    Contexts <- MCContexts
    MaxBlocks = 3
    MaxHistory = 6
SPECIFICATION FairSpec
INVARIANTS BoundedWork HeldNeverChained MessageKept RunsAreTold RevisedMeansRan OutputsReachModels
PROPERTIES ProposalEndsRuns TurnEnds
CHECK_DEADLOCK FALSE
