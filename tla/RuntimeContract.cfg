SPECIFICATION Spec
CONSTANTS
    Kinds = {"runtime", "composer"}
    Versions = {"v1", "v2"}
    Recipes <- MCDefects
    MaxRuns = 2
    MaxSupplies = 2
    Places <- MCApart
INVARIANTS
    PublishedNamesArePortable
CHECK_DEADLOCK FALSE
