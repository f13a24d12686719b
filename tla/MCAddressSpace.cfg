SPECIFICATION FairSpec
CONSTANTS
    Procs = {p, q, c}
    First = {p, q}
    FirstMm = m1
    Mms = {m1, m2}
    None = None
    Tracer = w
    Layout <- LayoutMC
    Extra <- ExtraMC
    Limit = 5
    MaxCalls = 2
    MaxTraces = 1
    MaxEvents = 1
CHECK_DEADLOCK FALSE
INVARIANTS
    CountsExact
    ForkCopies
    WalkSnapshot
PROPERTY CallsReturn
