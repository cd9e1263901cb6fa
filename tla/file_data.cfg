SPECIFICATION Spec
CONSTANTS
    Pid = {p1, p2}
    inode_count = 3
    data_block_count = 5
    FS_BLOCK_SIZE = 2
    SectorsPerBlock = 3
    Image <- TwoFiles
    MaxLen = 4
    MaxCalls = 2
    PosModulus = 6
SYMMETRY PidSymmetry
INVARIANTS
    FilesAsWritten
    ReadsContents
