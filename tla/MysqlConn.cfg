SPECIFICATION Spec
CONSTANTS
    None = None
    Background = Background
    Ctx = {c1, c2}
    Overlapping = {"exec"}
INVARIANTS
    CancelIsHeard
    CancelIsReported
    UnwatchedWhenFree
    StreamIsClean
    BadConnIsUnheard
PROPERTIES
    OnlyOwnContextCloses
    CancelledOnce
    CancelEnds
    ClosedIsReleased
CHECK_DEADLOCK FALSE
