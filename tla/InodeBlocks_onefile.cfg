\* The root and one file: the file grows through the direct slots into the
\* indirect block, is truncated, deleted and created again.
CONSTANTS
    DATA_BLOCKS = 8
    LEVEL0_BLOCK_NUM = 2
    INDECES_PER_BLOCK = 2
    INODE_TABLE_SIZE = 2
    Payloads = {100, 101}
SPECIFICATION Spec
INVARIANT TypeOK
INVARIANT BlockAccounting
INVARIANT FileRoundTrip
