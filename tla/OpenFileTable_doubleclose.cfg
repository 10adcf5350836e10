\* Clients close any handle: a second close of a handle leaks its mutex.
CONSTANTS
    Threads = {t1, t2}
    Inodes <- MCInodes
    Offsets <- MCOffsets
    MaxOpenFiles = 2
    NoThread = NoThread
    CloseOwnOnly = FALSE
SPECIFICATION FairSpec
PROPERTY CallsReturn
CHECK_DEADLOCK FALSE
