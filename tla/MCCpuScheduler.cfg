SPECIFICATION Spec
CONSTANTS
    MAX_TASKS = 6
    MS = 2
    Algs = {"FCFS", "SJF", "SRTF", "RR"}
    Quanta = {1, 2}
    Inputs <- Files
INVARIANTS
    ChartAccounts
    AllComplete
    NonPreemptiveOrder
    RrQueueExact
PROPERTIES
    SrtfRunsShortest
    Terminates
