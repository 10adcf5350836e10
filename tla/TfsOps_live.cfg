\* Two threads running the scripts of MC_TfsOps to the end.
CONSTANTS
    Threads = {"t1", "t2"}
    Names = {"n1", "n2", "n3"}
    NoName = NoName
    MAX_DIR_ENTRIES = 2
    INODE_TABLE_SIZE = 4
    MAX_OPEN_FILES = 1
    MaxFileBlocks = 1
    NoThread = NoThread
    Script <- MCScript
SPECIFICATION FairSpec
INVARIANT TypeOK
INVARIANT DirectoryConsistent
INVARIANT HandleNamesFile
PROPERTY CallsReturn
