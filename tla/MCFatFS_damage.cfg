SPECIFICATION Spec
CONSTANTS
    Procs = {p}
    NUM_BLOCKS = 2
    EOF = 65535
    BLOCK_SIZE = 2
    MAX_FILE_NUM = 2
    Names = {a}
    NoName = NoName
    Args = {a, NoName}
    Bytes = {1}
    NUL = 0
    NoFile = NoFile
    Data <- OneLong
    MaxSize = 6
    Cuts <- CutsMC
INVARIANT TypeOK
PROPERTY DeleteTerminates
