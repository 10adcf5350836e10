\* B-2-1 with one child: client s0 mounts and calls
\* tfs_shutdown_after_all_closed while client c1 mounts, opens, writes, reads and closes a
\* file and exits with or without unmounting.
CONSTANTS
    Clients = {s0, c1}
    MAX_SESSIONS = 2
    Main = Main
    NoThread = NoThread
    ShutdownClient = s0
    StaleClients = FALSE
    ShortClients = {}
    Script <- MCScript
SPECIFICATION FairSpec
PROPERTY RequestsAnswered
\* The main thread blocks reopening the server pipe when every client has
\* exited while server_running is still true: the server stops by design.
CHECK_DEADLOCK FALSE
