------------------------------ MODULE MC_Server ------------------------------
EXTENDS Server, TLC

\* The shutdown client is a client process in the shutdown runs and a value
\* outside Clients in the others.

CONSTANT
    ShortClients      \* clients that only open a file before unmounting

\* The calls each client process makes between tfs_mount and tfs_unmount:
\* the shutdown client calls tfs_shutdown_after_all_closed, the others
\* tfs_open, tfs_write, tfs_read and tfs_close, or tfs_open alone to keep the state space small.
MCScript(c) ==
    CASE c = ShutdownClient -> <<TFS_OP_CODE_SHUTDOWN_AFTER_ALL_CLOSED>>
      [] c \in ShortClients -> <<TFS_OP_CODE_OPEN>>
      [] OTHER              -> <<TFS_OP_CODE_OPEN, TFS_OP_CODE_WRITE, TFS_OP_CODE_READ,
                                  TFS_OP_CODE_CLOSE>>
=============================================================================
