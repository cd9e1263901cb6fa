SPECIFICATION Spec
CONSTANTS
    Pid = {p1, p2}
    inode_count = 3
    data_block_count = 5
    FS_BLOCK_SIZE = 2
    SectorsPerBlock = 3
    Image <- TwoCreated
    MaxLen = 1
    MaxCalls = 3
    PosModulus = 6
SYMMETRY PidSymmetry
PROPERTIES
    WriteIsolated
