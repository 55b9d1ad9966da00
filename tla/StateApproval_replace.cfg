\* One client and the job thread replacing each other's proposals, and what
\* the card of a proposal tells.
CONSTANTS
    Agents = {site}
    Designer = Designer
    Requests = {r1}
    Job = Job
    Free = Free
    None = None
    Texts = {t0, t1}
    t0 = t0
    t1 = t1
    InitText = t1
    Synced <- MCSynced
    Mode = "ask"
    MaxVersion = 2
    MaxProposals = 2
    other = other
    focus = focus
    problem = problem
    materials = materials
    Modules = {site, other}
    Own = site
    Caps <- MCCaps
    Foreign = {materials}
    Sayings = {"today", "a"}
    Today = "today"
    MaxItems = 3
SPECIFICATION Spec
INVARIANTS FreshUntilAccepted ClosedStaysClosed CardTellsAll
PROPERTIES BackupKeepsPrevious
CHECK_DEADLOCK FALSE
