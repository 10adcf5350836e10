\* The root and two files sharing the block store.
CONSTANTS
    DATA_BLOCKS = 14
    LEVEL0_BLOCK_NUM = 2
    INDECES_PER_BLOCK = 2
    INODE_TABLE_SIZE = 3
    Payloads = {100}
SPECIFICATION Spec
PROPERTY OtherFilesUntouched
