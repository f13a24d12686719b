SPECIFICATION FairSpec
CONSTANTS
    Callers = {c}
    Stack = 3
    MaxLoads = 5
    MaxCalls = 2
CHECK_DEADLOCK FALSE
INVARIANTS
    ChainExact
    CallsForward
PROPERTY CallsReturn
