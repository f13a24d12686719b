SPECIFICATION FairSpec
CONSTANTS
    N = 5
    Born <- MCBorn
    Users = {u, v}
    buf_size = 12
    Margin = 3
    Header = 1
    LineSizes = {2, 3}
    Lens = {4, 12}
    Filters <- MCFilters
    Budgets <- MCBudgets
CHECK_DEADLOCK FALSE
INVARIANTS
    MemorySound
    ReadExact
PROPERTIES
    KinListed
    WalksEnd
