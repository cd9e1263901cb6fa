SPECIFICATION Spec
CONSTANTS
    Pid = {p1, p2}
    Fd = {2}
    Names = {".", "a", "b"}
    inode_count = 5
    MaxDentries = 2
    Image <- OneFile
    BlockCount <- Counts
    InUse = {1, 3}
SYMMETRY PidSymmetry
CONSTRAINT Unmixed
INVARIANTS
    NamesUnique
    DirectoryAsAsked
    OpenFilesNamed
    LookupsComplete
