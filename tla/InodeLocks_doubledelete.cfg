\* Two threads create files and delete any inode but the root, including
\* one already deleted; two inodes, the root and one file.
CONSTANTS
    Threads = {t1, t2}
    INODE_TABLE_SIZE = 2
    NoThread = NoThread
SPECIFICATION FairSpec
PROPERTY CallsReturn
\* The hang this run looks for leaves every thread blocked, which TLC would
\* report as a deadlock before checking CallsReturn.
CHECK_DEADLOCK FALSE
