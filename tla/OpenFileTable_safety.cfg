\* Clients close any handle, valid or not, theirs or not (as B-3-5 does).
CONSTANTS
    Threads = {t1, t2, t3}
    Inodes <- MCInodes
    Offsets <- MCOffsets
    MaxOpenFiles = 2
    NoThread = NoThread
    CloseOwnOnly = FALSE
SPECIFICATION Spec
INVARIANT TypeOK
INVARIANT HandleExclusive
INVARIANT NoLeakedSlot
PROPERTY OpenFilesRefinement
SYMMETRY MCSymmetry
\* A close of a FREE handle leaves its entry mutex locked and the table can
\* hang (run oft_double_close_hangs); this run checks safety only.
CHECK_DEADLOCK FALSE
