\* The root and two files with a block store small enough to run out.
CONSTANTS
    DATA_BLOCKS = 6
    LEVEL0_BLOCK_NUM = 2
    INDECES_PER_BLOCK = 2
    INODE_TABLE_SIZE = 3
    Payloads = {100}
SPECIFICATION Spec
INVARIANT NoUndefinedBehaviour
