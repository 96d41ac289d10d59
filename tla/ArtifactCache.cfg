SPECIFICATION Spec
CONSTANTS
    None = None
    Proc = {p1, p2, p3}
    MaxCrashes = 2
    MaxTampers = 2
SYMMETRY Symmetry
INVARIANTS
    AcquiredIsVerified
    RefusalNeedsFault
    OnePublicationPerLoss
    LeftoversNeedCrash
PROPERTIES
    VerifiedIsKept
    ImplementsPromise
