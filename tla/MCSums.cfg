SPECIFICATION FairSpec
CONSTANTS
    Maxes = {1, 2, 3}
    Gens = {2, 3}
    Modulus = 8
    MaxRuns = 4
CHECK_DEADLOCK FALSE
INVARIANTS
    SumsExact
    ResultsCollected
PROPERTIES
    SumsUp
    ProgramsEnd
