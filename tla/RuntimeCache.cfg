SPECIFICATION RuntimeSpec
CONSTANTS
    None = None
    Proc = {p1, p2}
    MaxCrashes = 1
    MaxTampers = 2
    Windows = FALSE
    SharedExtensions = FALSE
    IniTampers = {"absent", "altered", "unreadable"}
SYMMETRY Symmetry
INVARIANTS
    RuntimeTypeOK
    AcquiredIsIntact
    ReportedIsExact
    BrokenNeedsFault
    FewExtractions
    RuntimeLeftoversNeedCrash
PROPERTIES
    IntactIsKept
