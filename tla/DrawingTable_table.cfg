\* Two photos, an AI section of one, two ideas that hold or link papers.
CONSTANTS
    Site = Site
    None = None
    Names = {n1, n2}
    Experts = {e1}
    MaxPapers = 3
    MaxTray = 1
    MaxIdeas = 2
    MaxLinks = 1
    Day = 1
SPECIFICATION Spec
SYMMETRY Interchangeable
INVARIANTS OnePaperPerId LinksKeepTheirPaper PhotosHaveFiles
PROPERTIES DesignerKeepsPapers
CHECK_DEADLOCK FALSE
