SPECIFICATION RuntimeFairSpec
CONSTANTS
    None = None
    Proc = {p1, p2}
    MaxCrashes = 1
    MaxTampers = 1
    Windows = TRUE
    SharedExtensions = TRUE
    IniTampers = {"absent", "unreadable"}
PROPERTIES
    RuntimeImplementsPromise
    WaitEnds
