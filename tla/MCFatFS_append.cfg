SPECIFICATION Spec
CONSTANTS
    Procs = {p}
    NUM_BLOCKS = 3
    EOF = 65535
    BLOCK_SIZE = 2
    MAX_FILE_NUM = 2
    Names = {a, b}
    NoName = NoName
    Args = {a, b}
    Bytes = {1}
    NUL = 0
    NoFile = NoFile
    Data <- Lengths
    MaxSize = 4
    Cuts <- CutsMC
INVARIANT WriteAppends
