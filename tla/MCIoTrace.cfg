SPECIFICATION FairSpec
CONSTANTS
    p = p
    q = q
    t = t
    u = u
    Workers = {p, q}
    NoPid = NoPid
    Tracers = {t, u}
    Admin = Admin
    Files = {f}
    NoFile = NoFile
    Budgets <- Cases
    MaxDepth = 2
CHECK_DEADLOCK FALSE
INVARIANTS
    Transparent
    HooksMatchTrace
    CountsExact
PROPERTY CallsReturn
