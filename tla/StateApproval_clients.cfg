\* Two clients with their own open documents, one proposal.
CONSTANTS
    Agents = {site}
    Designer = Designer
    Requests = {r1, r2}
    Job = Job
    Free = Free
    None = None
    Texts = {t0, t1}
    t0 = t0
    t1 = t1
    InitText = t1
    Synced <- MCSynced
    Mode = "ask"
    MaxVersion = 1
    MaxProposals = 1
SPECIFICATION Spec
SYMMETRY Interchangeable
INVARIANTS DeskInv PendingCanBeAnswered
PROPERTIES NoStaleWrite KeepsContract
CHECK_DEADLOCK FALSE
