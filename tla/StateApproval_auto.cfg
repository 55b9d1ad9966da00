\* The job thread applies its proposals itself while a client works.
CONSTANTS
    Agents = {site}
    Designer = Designer
    Requests = {r1}
    Job = Job
    Free = Free
    None = None
    Texts = {t0, t1}
    t0 = t0
    t1 = t1
    InitText = t1
    Synced <- MCSynced
    Mode = "auto"
    MaxVersion = 1
    MaxProposals = 1
SPECIFICATION FairSpec
PROPERTIES LockIsGivenBack
CHECK_DEADLOCK FALSE
