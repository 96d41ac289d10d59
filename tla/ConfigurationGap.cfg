SPECIFICATION RuntimeSpec
CONSTANTS
    None = None
    Proc = {p1, p2}
    MaxCrashes = 0
    MaxTampers = 1
    Windows = FALSE
    SharedExtensions = FALSE
    IniTampers = {"altered"}
PROPERTIES
    ChildFindsManagedIni
