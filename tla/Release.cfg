SPECIFICATION Spec
CONSTANTS
    Kinds = {"runtime", "composer"}
    Versions = {"v1", "v2"}
    Recipes <- MCRecipes
    MaxRuns = 2
    MaxSupplies = 2
    Places <- MCPlaces
INVARIANTS
    AssembledAgrees
    VerifiedIsRelease
    
PROPERTIES
    AlteredLeavesNoTrace
CHECK_DEADLOCK FALSE
