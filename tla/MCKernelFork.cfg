SPECIFICATION Spec
CONSTANTS
    Tasks = {r, u, a, b}
    Root = r
    User = u
    Starts <- StartsMC
    None = None
    Unshares <- UnsharesMC
    Nproc = 3
    Limits = {2, 3}
SYMMETRY Symmetry
CHECK_DEADLOCK FALSE
INVARIANTS
    CountsExact
    UnwindExact
    RelationsKept
    VforkSound
    ForkCounted
PROPERTIES
    GroupSignalReachesChild
    UnsharePrivate
