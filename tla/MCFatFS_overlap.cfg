SPECIFICATION Spec
CONSTANTS
    Procs = {p, q}
    NUM_BLOCKS = 2
    EOF = 65535
    BLOCK_SIZE = 2
    MAX_FILE_NUM = 1
    Names = {a, b}
    NoName = NoName
    Args = {a, b}
    Bytes = {1, 2}
    NUL = 0
    NoFile = NoFile
    Data <- Mixed
    MaxSize = 3
    Cuts <- CutsMC
CONSTRAINT BeforeDamage
SYMMETRY Symmetry
INVARIANT ReadReturnsWritten
