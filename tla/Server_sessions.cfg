\* Two clients mount, open and close a file, then unmount or exit; no
\* shutdown.  Two session slots, one per client.
CONSTANTS
    Clients = {c1, c2}
    MAX_SESSIONS = 2
    Main = Main
    NoThread = NoThread
    ShutdownClient = NoClient
    StaleClients = FALSE
    ShortClients = {}
    Script <- MCScript
SPECIFICATION FairSpec
INVARIANT NoCrossTalk
PROPERTY RequestsAnswered
\* When every client has exited the main thread blocks reopening the
\* server pipe for the next client: the server stops by design.
CHECK_DEADLOCK FALSE
