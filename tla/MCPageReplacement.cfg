SPECIFICATION Spec
CONSTANTS
    Pages = {0, 1, 2, 3, 4, 5, 6, 7}
    MAX_FRAMES = 4
    NoNumber = NoNumber
    Garbage <- SomeGarbage
    MaxLen = 8
    Inputs <- AllInputs
INVARIANTS
    OptIsOptimal
    FramesFollowPolicy
