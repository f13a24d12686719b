SPECIFICATION Spec
CONSTANTS
    Procs = {p}
    NUM_BLOCKS = 3
    EOF = 65535
    BLOCK_SIZE = 2
    MAX_FILE_NUM = 2
    Names = {a, b}
    NoName = NoName
    Args = {a, b}
    Bytes = {1, 2}
    NUL = 0
    NoFile = NoFile
    Data <- Mixed
    MaxSize = 5
    Cuts <- CutsMC
CONSTRAINT BeforeDamage
SYMMETRY Symmetry
INVARIANTS
    FatStaysSound
    BlocksClaimedOnce
PROPERTY CommandsAtomic
