\* Three clients that each open one file; s0 then shuts the server down.
\* A client whose request is answered with EOF carries on with its stale
\* session id (B-2-1's children), so a request of it can reach the slot's
\* next owner while that owner's own request sits in the buffer.
CONSTANTS
    Clients = {s0, c1, c2}
    MAX_SESSIONS = 2
    Main = Main
    NoThread = NoThread
    ShutdownClient = s0
    StaleClients = TRUE
    ShortClients = {c1, c2}
    Script <- MCScript
SPECIFICATION Spec
PROPERTY NoMessageOverwritten
\* Clients exit and the main thread blocks reopening its pipe.
CHECK_DEADLOCK FALSE
