------------------------------- MODULE Server -------------------------------
(***************************************************************************)
(* The TecnicoFS server of src/tecnicofs_ex2/fs/tfs_server.c and the       *)
(* synchronous client stub of src/tecnicofs_ex2/client.                    *)
(*                                                                         *)
(* Threads: the main thread reads requests from the server's named pipe    *)
(* and hands each one to the worker thread of its session through the      *)
(* session's one-message buffer (has_message, condition variables          *)
(* message_placed and message_removed, mutex session_mutexes[id]).  Each   *)
(* mounted session has a worker (session_run) that executes requests and   *)
(* answers on the client's pipe.  Clients are processes that mount, send   *)
(* one request at a time and wait for its answer.                          *)
(*                                                                         *)
(* Data is abstracted: a request is its op code, the session id it         *)
(* carries and (as a ghost) the client that sent it; an answer carries     *)
(* the request's ghost sender.  The file system below the server is the    *)
(* set of clients holding an open file, which is all that                  *)
(* tfs_destroy_after_all_closed looks at.                                  *)
(***************************************************************************)
EXTENDS Integers, Sequences, FiniteSets

CONSTANTS
    Clients,          \* client processes (model values)
    MAX_SESSIONS,     \* size of session_free_table / sessions
    Main,             \* the main thread, as a mutex owner
    NoThread,         \* an unlocked mutex
    ShutdownClient,   \* the client that calls tfs_shutdown_after_all_closed
    StaleClients,     \* a client carries on after an EOF answer, as B-2-1 does
    Script(_)         \* the sequence of op codes a client sends after mounting

ASSUME MAX_SESSIONS \in Nat \ {0}
ASSUME StaleClients \in BOOLEAN

Slots == 0 .. MAX_SESSIONS - 1
FREE == 0
TAKEN == 1

\* Op codes of common.h.
TFS_OP_CODE_MOUNT == 1
TFS_OP_CODE_UNMOUNT == 2
TFS_OP_CODE_OPEN == 3
TFS_OP_CODE_CLOSE == 4
TFS_OP_CODE_WRITE == 5
TFS_OP_CODE_READ == 6
TFS_OP_CODE_SHUTDOWN_AFTER_ALL_CLOSED == 7

\* The requests a client makes after mounting: the children of B-2-1 open
\* and close a file; the shutdown client only shuts down.
NoMsg == [op |-> 0, sid |-> -1, from |-> Main]

VARIABLES
    \* server pipe and client pipes
    req,                \* requests in the server pipe, oldest first
    rep,                \* rep[c]: answers in c's pipe, oldest first
    rclosed,            \* rclosed[c]: the server closed its end of c's pipe
    \* clients
    cpc, sid, todo, pending,
    \* server globals
    session_free_table, sessions, session_mutexes, free_table_mutex,
    server_running,
    \* main thread
    mpc, mmsg,
    \* worker threads, by session slot
    wpc, wmsg, warn, wit, wjoin,
    \* file system: clients with a file open
    opened,
    \* undefined behaviour happened
    ub,
    \* the server process was server_exited by SIGPIPE
    server_exited

vars == <<req, rep, rclosed, cpc, sid, todo, pending, session_free_table,
          sessions, session_mutexes, free_table_mutex, server_running, mpc,
          mmsg, wpc, wmsg, warn, wit, wjoin, opened, ub, server_exited>>

Threads == {Main} \cup Slots
Msg == [op : {TFS_OP_CODE_MOUNT, TFS_OP_CODE_UNMOUNT, TFS_OP_CODE_OPEN,
              TFS_OP_CODE_CLOSE, TFS_OP_CODE_WRITE, TFS_OP_CODE_READ,
              TFS_OP_CODE_SHUTDOWN_AFTER_ALL_CLOSED},
        sid : Slots \cup {-1}, from : Clients]
\* A session struct: "null" before the first mount of the slot, "freed"
\* after session_destroy; inc counts the mounts of the slot and names the
\* worker thread (its tid).
Session == [st : {"null", "live", "freed"}, pipe : Clients \cup {Main},
            has_message : BOOLEAN, running : BOOLEAN, buf : Msg \cup {NoMsg},
            inc : Nat]

TypeOK ==
    /\ req \in Seq(Msg)
    /\ rep \in [Clients -> Seq([op : Nat, val : Int, from : Clients])]
    /\ rclosed \in [Clients -> BOOLEAN]
    /\ cpc \in [Clients -> {"start", "mounting", "ready", "waiting", "done", "exited"}]
    /\ sid \in [Clients -> Slots \cup {-1}]
    /\ pending \in [Clients -> Nat]
    /\ session_free_table \in [Slots -> {FREE, TAKEN}]
    /\ sessions \in [Slots -> Session]
    /\ session_mutexes \in [Slots -> Threads \cup {NoThread}]
    /\ free_table_mutex \in Threads \cup {NoThread}
    /\ server_running \in BOOLEAN
    /\ mpc \in {"loop", "read", "mount_lock", "mount", "wb_lock", "wb_check",
                "wb_wait", "wb_reacq", "exit", "undefined"}
    /\ wpc \in [Slots -> {"none", "rb_lock", "rb_check", "rb_wait", "rb_reacq",
                          "exec", "um_lock_ft", "um_lock_s", "sd_destroy",
                          "sd_lock_ft", "sd_kill", "sd_join", "sd_join_read",
                          "sd_join_wait"}]
    /\ wit \in [Slots -> 0 .. MAX_SESSIONS]
    /\ opened \subseteq Clients
    /\ ub \in BOOLEAN
    /\ server_exited \in BOOLEAN

\* main: session_free_table all FREE, mutexes initialised, server pipe
\* opened; no client has started.
Init ==
    /\ req = <<>>
    /\ rep = [c \in Clients |-> <<>>]
    /\ rclosed = [c \in Clients |-> FALSE]
    /\ cpc = [c \in Clients |-> "start"]
    /\ sid = [c \in Clients |-> -1]
    /\ todo = [c \in Clients |-> Script(c)]
    /\ pending = [c \in Clients |-> 0]
    /\ session_free_table = [s \in Slots |-> FREE]
    /\ sessions = [s \in Slots |-> [st |-> "null", pipe |-> Main,
                       has_message |-> FALSE, running |-> FALSE, buf |-> NoMsg,
                       inc |-> 0]]
    /\ session_mutexes = [s \in Slots |-> NoThread]
    /\ free_table_mutex = NoThread
    /\ server_running = TRUE
    /\ mpc = "loop"
    /\ mmsg = NoMsg
    /\ wpc = [s \in Slots |-> "none"]
    /\ wmsg = [s \in Slots |-> NoMsg]
    /\ warn = [s \in Slots |-> FALSE]
    /\ wit = [s \in Slots |-> 0]
    /\ wjoin = [s \in Slots |-> [slot |-> 0, inc |-> 0]]
    /\ opened = {}
    /\ ub = FALSE
    /\ server_exited = FALSE

----------------------------------------------------------------------------
(* Clients (tecnicofs_client_api.c)                                         *)

serverVars == <<session_free_table, sessions, session_mutexes, free_table_mutex,
                server_running, mpc, mmsg, wpc, wmsg, warn, wit, wjoin, opened, ub, server_exited>>

\* A client process has the server pipe open for writing from tfs_mount
\* until it exits.
Writers == {c \in Clients : cpc[c] \notin {"start", "exited"}}

\* tfs_mount: write the mount request (the client's pipe name) and wait for
\* the session id.
ClientMount(c) ==
    /\ cpc[c] = "start"
    /\ req' = Append(req, [op |-> TFS_OP_CODE_MOUNT, sid |-> -1, from |-> c])
    /\ cpc' = [cpc EXCEPT ![c] = "mounting"]
    /\ pending' = [pending EXCEPT ![c] = TFS_OP_CODE_MOUNT]
    /\ UNCHANGED <<rep, rclosed, sid, todo, serverVars>>

\* tfs_open, tfs_close, tfs_write, tfs_read, tfs_shutdown_after_all_closed:
\* the session_id == -1
\* check, then one request written to the server pipe.
ClientRequest(c) ==
    /\ cpc[c] = "ready"
    /\ todo[c] # <<>>
    /\ sid[c] # -1
    /\ req' = Append(req, [op |-> Head(todo[c]), sid |-> sid[c], from |-> c])
    /\ pending' = [pending EXCEPT ![c] = Head(todo[c])]
    /\ todo' = [todo EXCEPT ![c] = Tail(@)]
    /\ cpc' = [cpc EXCEPT ![c] = "waiting"]
    /\ UNCHANGED <<rep, rclosed, sid, serverVars>>

\* tfs_unmount at the end of the script.
ClientUnmount(c) ==
    /\ cpc[c] = "ready"
    /\ todo[c] = <<>>
    /\ sid[c] # -1
    /\ req' = Append(req, [op |-> TFS_OP_CODE_UNMOUNT, sid |-> sid[c], from |-> c])
    /\ pending' = [pending EXCEPT ![c] = TFS_OP_CODE_UNMOUNT]
    /\ cpc' = [cpc EXCEPT ![c] = "waiting"]
    /\ UNCHANGED <<rep, rclosed, sid, todo, serverVars>>

\* Calls the server ends with -2 (EOF); a stale client carries on after them.
Resumable == {TFS_OP_CODE_OPEN, TFS_OP_CODE_CLOSE, TFS_OP_CODE_WRITE, TFS_OP_CODE_READ}

\* tfs_read answered with a count of 0 (the end of the file): the read of
\* the 0 payload bytes returns 0, which tfs_read takes for a closed pipe
\* and returns -2, as if the server had ended the session.
ClientReadEmpty(c) ==
    /\ cpc[c] = "waiting"
    /\ pending[c] = TFS_OP_CODE_READ
    /\ rep[c] # <<>> /\ Head(rep[c]).val = 0
    /\ rep' = [rep EXCEPT ![c] = Tail(@)]
    /\ cpc' = [cpc EXCEPT ![c] = IF StaleClients THEN "ready" ELSE "done"]
    /\ UNCHANGED <<req, rclosed, sid, todo, pending, serverVars>>

\* The read of the answer returns it.  tfs_mount stores the session id;
\* tfs_shutdown_after_all_closed sets session_id = -1.
ClientAnswer(c) ==
    /\ cpc[c] \in {"mounting", "waiting"}
    /\ rep[c] # <<>>
    /\ ~(pending[c] = TFS_OP_CODE_READ /\ Head(rep[c]).val = 0)
    /\ rep' = [rep EXCEPT ![c] = Tail(@)]
    /\ sid' = [sid EXCEPT ![c] =
                 CASE pending[c] = TFS_OP_CODE_MOUNT -> Head(rep[c]).val
                   [] pending[c] = TFS_OP_CODE_SHUTDOWN_AFTER_ALL_CLOSED -> -1
                   [] OTHER -> @]
    /\ cpc' = [cpc EXCEPT ![c] =
                 IF pending[c] \in {TFS_OP_CODE_UNMOUNT,
                                    TFS_OP_CODE_SHUTDOWN_AFTER_ALL_CLOSED}
                 THEN "done" ELSE "ready"]
    /\ UNCHANGED <<req, rclosed, todo, pending, serverVars>>

\* The read returns 0 (the server closed the pipe, or the server process
\* ended after opening it): the call returns -2.  A client whose mount the
\* server never read stays blocked opening its own pipe.  A client that
\* carries on (StaleClients) keeps its session_id and goes on with its
\* script.
ClientEof(c) ==
    /\ cpc[c] \in {"mounting", "waiting"}
    /\ rep[c] = <<>>
    /\ rclosed[c] \/ (server_exited /\ pending[c] # TFS_OP_CODE_MOUNT)
    /\ cpc' = [cpc EXCEPT ![c] =
                 IF StaleClients /\ pending[c] \in Resumable
                 THEN "ready" ELSE "done"]
    /\ UNCHANGED <<req, rep, rclosed, sid, todo, pending, serverVars>>

\* The process exits, closing its pipes, with or without having unmounted
\* (the children of B-2-1 exit without tfs_unmount).
ClientExit(c) ==
    /\ \/ cpc[c] = "done"
       \/ cpc[c] = "ready" /\ todo[c] = <<>>
    /\ cpc' = [cpc EXCEPT ![c] = "exited"]
    /\ UNCHANGED <<req, rep, rclosed, sid, todo, pending, serverVars>>

----------------------------------------------------------------------------
(* Main thread (main, mount, write_buffer)                                  *)

clientVars == <<cpc, sid, todo, pending>>

\* pthread_cond_signal(&message_placed): wakes the worker of slot s if it
\* waits on it; a signal with no waiter is lost.
WakeWorker(s) ==
    IF wpc[s] = "rb_wait" THEN [wpc EXCEPT ![s] = "rb_reacq"] ELSE wpc

\* write() of an answer to c's pipe.  With no reader left (c exited) the
\* write raises SIGPIPE, which the server does not handle: the process ends.
Answer(c, a) ==
    /\ rep' = IF cpc[c] = "exited" THEN rep ELSE [rep EXCEPT ![c] = Append(@, a)]
    /\ server_exited' = (cpc[c] = "exited")

\* Loop head: server_running is read under mutex_running.
MainLoop ==
    /\ ~server_exited
    /\ mpc = "loop"
    /\ server_running
    /\ mpc' = "read"
    /\ UNCHANGED <<req, rep, rclosed, clientVars, session_free_table, sessions,
                   session_mutexes, free_table_mutex, server_running, mmsg, wpc,
                   wmsg, warn, wit, wjoin, opened, ub, server_exited>>

\* The loop ends and main returns: the process exits, ending every worker
\* and closing every pipe it had open.
MainExit ==
    /\ ~server_exited
    /\ mpc = "loop"
    /\ ~server_running
    /\ mpc' = "exit"
    /\ server_exited' = TRUE
    /\ UNCHANGED <<req, rep, rclosed, clientVars, session_free_table, sessions,
                   session_mutexes, free_table_mutex, server_running, mmsg, wpc,
                   wmsg, warn, wit, wjoin, opened, ub>>

\* read_pipe returns one whole request: the server pipe is written one
\* request per write(), below PIPE_BUF, so requests never interleave.
MainRead ==
    /\ ~server_exited
    /\ mpc = "read"
    /\ req # <<>>
    /\ mmsg' = Head(req)
    /\ req' = Tail(req)
    /\ mpc' = IF Head(req).op = TFS_OP_CODE_MOUNT THEN "mount_lock" ELSE "wb_lock"
    /\ UNCHANGED <<rep, rclosed, clientVars, session_free_table, sessions,
                   session_mutexes, free_table_mutex, server_running, wpc,
                   wmsg, warn, wit, wjoin, opened, ub, server_exited>>

\* read_pipe returns 1: no process has the pipe open for writing.  While
\* server_running the pipe is reopened, which blocks until a writer comes;
\* otherwise the loop ends.
MainPipeClosed ==
    /\ ~server_exited
    /\ mpc = "read"
    /\ req = <<>>
    /\ Writers = {}
    /\ ~server_running
    /\ mpc' = "loop"
    /\ UNCHANGED <<req, rep, rclosed, clientVars, session_free_table, sessions,
                   session_mutexes, free_table_mutex, server_running, mmsg, wpc,
                   wmsg, warn, wit, wjoin, opened, ub, server_exited>>

\* mount: pthread_mutex_lock(&free_table_mutex).
MountLock ==
    /\ ~server_exited
    /\ mpc = "mount_lock"
    /\ free_table_mutex = NoThread
    /\ free_table_mutex' = Main
    /\ mpc' = "mount"
    /\ UNCHANGED <<req, rep, rclosed, clientVars, session_free_table, sessions,
                   session_mutexes, server_running, mmsg, wpc, wmsg, warn, wit,
                   wjoin, opened, ub, server_exited>>

\* The scan's index taken one step late, as a for loop whose increment runs
\* before its break would leave it.
FirstFreeSessionLate ==
    1 + CHOOSE s \in Slots : session_free_table[s] = FREE /\
                             \A o \in Slots : o < s => session_free_table[o] = TAKEN

\* mount: for (session_id = 0; ...; session_id++) stops at the first FREE
\* entry of session_free_table.
FirstFreeSession ==
    CHOOSE s \in Slots : session_free_table[s] = FREE /\
                         \A o \in Slots : o < s => session_free_table[o] = TAKEN

\* mount that takes a slot without marking it TAKEN in session_free_table.
MountSessionNoTake ==
    LET s == FirstFreeSession
        c == mmsg.from
    IN
    /\ ~server_exited
    /\ mpc = "mount"
    /\ \E o \in Slots : session_free_table[o] = FREE
    /\ sessions' = [sessions EXCEPT ![s] =
                      [st |-> "live", pipe |-> c, has_message |-> FALSE,
                       running |-> TRUE, buf |-> NoMsg, inc |-> @.inc + 1]]
    /\ wpc' = [wpc EXCEPT ![s] = "rb_lock"]
    /\ free_table_mutex' = NoThread
    /\ Answer(c, [op |-> TFS_OP_CODE_MOUNT, val |-> s, from |-> c])
    /\ mpc' = "loop"
    /\ UNCHANGED <<req, rclosed, clientVars, session_free_table, session_mutexes,
                   server_running, mmsg, wmsg, warn, wit, wjoin, opened, ub>>

\* mount: the first FREE slot is TAKEN, session_setup allocates the session
\* and starts its worker, sessions[id] is set, the mutex is released and
\* the id is written to the client's pipe.
MountSession ==
    LET s == FirstFreeSession
        c == mmsg.from
    IN
    /\ ~server_exited
    /\ mpc = "mount"
    /\ \E o \in Slots : session_free_table[o] = FREE
    /\ session_free_table' = [session_free_table EXCEPT ![s] = TAKEN]
    /\ sessions' = [sessions EXCEPT ![s] =
                      [st |-> "live", pipe |-> c, has_message |-> FALSE,
                       running |-> TRUE, buf |-> NoMsg, inc |-> @.inc + 1]]
    /\ wpc' = [wpc EXCEPT ![s] = "rb_lock"]
    /\ free_table_mutex' = NoThread
    /\ Answer(c, [op |-> TFS_OP_CODE_MOUNT, val |-> s, from |-> c])
    /\ mpc' = "loop"
    /\ UNCHANGED <<req, rclosed, clientVars, session_mutexes, server_running,
                   mmsg, wmsg, warn, wit, wjoin, opened, ub>>

\* mount with every slot TAKEN: the loop leaves session_id = MAX_SESSIONS,
\* the session_id == -1 test is false, sessions[MAX_SESSIONS] is written
\* out of bounds (over session_mutexes[0]) and a worker is started on
\* session_mutexes[MAX_SESSIONS].  Nothing the server does after this is
\* defined: the model flags it and ends the server process here.
MountFull ==
    /\ ~server_exited
    /\ mpc = "mount"
    /\ \A o \in Slots : session_free_table[o] = TAKEN
    /\ ub' = TRUE
    /\ mpc' = "undefined"
    /\ server_exited' = TRUE
    /\ UNCHANGED <<req, rep, rclosed, clientVars, session_free_table, sessions,
                   session_mutexes, free_table_mutex, server_running, mmsg, wpc,
                   wmsg, warn, wit, wjoin, opened>>

\* write_buffer(sessions[session_id], buffer): lock session_mutexes[id].
WbLock ==
    LET s == mmsg.sid IN
    /\ ~server_exited
    /\ mpc = "wb_lock"
    /\ s \in Slots
    /\ sessions[s].st = "live"
    /\ session_mutexes[s] = NoThread
    /\ session_mutexes' = [session_mutexes EXCEPT ![s] = Main]
    /\ mpc' = "wb_check"
    /\ UNCHANGED <<req, rep, rclosed, clientVars, session_free_table, sessions,
                   free_table_mutex, server_running, mmsg, wpc, wmsg, warn, wit,
                   wjoin, opened, ub, server_exited>>

\* The id is not checked: sessions[session_id] is a freed session, or NULL,
\* or out of bounds.  The request is lost (written into freed memory).
WbInvalid ==
    LET s == mmsg.sid IN
    /\ ~server_exited
    /\ mpc = "wb_lock"
    /\ s \notin Slots \/ sessions[s].st # "live"
    /\ ub' = TRUE
    /\ mpc' = "loop"
    /\ UNCHANGED <<req, rep, rclosed, clientVars, session_free_table, sessions,
                   session_mutexes, free_table_mutex, server_running, mmsg, wpc,
                   wmsg, warn, wit, wjoin, opened, server_exited>>

\* while (session->has_message) pthread_cond_wait(&message_removed, ...).
WbWait ==
    LET s == mmsg.sid IN
    /\ ~server_exited
    /\ mpc = "wb_check"
    /\ sessions[s].has_message
    /\ session_mutexes' = [session_mutexes EXCEPT ![s] = NoThread]
    /\ mpc' = "wb_wait"
    /\ UNCHANGED <<req, rep, rclosed, clientVars, session_free_table, sessions,
                   free_table_mutex, server_running, mmsg, wpc, wmsg, warn, wit,
                   wjoin, opened, ub, server_exited>>

\* Woken from the wait: reacquire the mutex and test again.
WbReacquire ==
    LET s == mmsg.sid IN
    /\ ~server_exited
    /\ mpc = "wb_reacq"
    /\ session_mutexes[s] = NoThread
    /\ session_mutexes' = [session_mutexes EXCEPT ![s] = Main]
    /\ mpc' = "wb_check"
    /\ UNCHANGED <<req, rep, rclosed, clientVars, session_free_table, sessions,
                   free_table_mutex, server_running, mmsg, wpc, wmsg, warn, wit,
                   wjoin, opened, ub, server_exited>>

\* write_buffer that places the request without signalling message_placed.
WbPlaceNoSignal ==
    LET s == mmsg.sid IN
    /\ ~server_exited
    /\ mpc = "wb_check"
    /\ ~sessions[s].has_message
    /\ sessions' = [sessions EXCEPT ![s].buf = mmsg, ![s].has_message = TRUE]
    /\ session_mutexes' = [session_mutexes EXCEPT ![s] = NoThread]
    /\ mpc' = "loop"
    /\ UNCHANGED <<req, rep, rclosed, clientVars, session_free_table, wpc,
                   free_table_mutex, server_running, mmsg, wmsg, warn, wit,
                   wjoin, opened, ub, server_exited>>

\* write_buffer without its while (has_message) wait.
WbPlaceNoWait ==
    LET s == mmsg.sid IN
    /\ ~server_exited
    /\ mpc = "wb_check"
    /\ sessions' = [sessions EXCEPT ![s].buf = mmsg, ![s].has_message = TRUE]
    /\ wpc' = WakeWorker(s)
    /\ session_mutexes' = [session_mutexes EXCEPT ![s] = NoThread]
    /\ mpc' = "loop"
    /\ UNCHANGED <<req, rep, rclosed, clientVars, session_free_table,
                   free_table_mutex, server_running, mmsg, wmsg, warn, wit,
                   wjoin, opened, ub, server_exited>>

\* Copy the request into the buffer, has_message = true, signal
\* message_placed, unlock.
WbPlace ==
    LET s == mmsg.sid IN
    /\ ~server_exited
    /\ mpc = "wb_check"
    /\ ~sessions[s].has_message
    /\ sessions' = [sessions EXCEPT ![s].buf = mmsg, ![s].has_message = TRUE]
    /\ wpc' = WakeWorker(s)
    /\ session_mutexes' = [session_mutexes EXCEPT ![s] = NoThread]
    /\ mpc' = "loop"
    /\ UNCHANGED <<req, rep, rclosed, clientVars, session_free_table,
                   free_table_mutex, server_running, mmsg, wmsg, warn, wit,
                   wjoin, opened, ub, server_exited>>

----------------------------------------------------------------------------
(* Worker threads (session_run, read_buffer, session_unmount, ...)         *)

\* The worker's own step leaves the main thread and the clients alone.
wkFrame == <<req, clientVars, server_running, mpc, mmsg>>

\* pthread_cond_signal(&message_removed): wakes the main thread if it
\* waits to write into the buffer of slot s.
WakeMain(s) ==
    IF mpc = "wb_wait" /\ mmsg.sid = s THEN "wb_reacq" ELSE mpc

\* The main thread is waiting on, or about to reacquire, the condition
\* variable or the buffer of slot s.
MainUsesSession(s) == mpc \in {"wb_wait", "wb_reacq"} /\ mmsg.sid = s

\* read_buffer: lock session_mutexes[id].
RbLock(s) ==
    /\ ~server_exited
    /\ wpc[s] = "rb_lock"
    /\ session_mutexes[s] = NoThread
    /\ session_mutexes' = [session_mutexes EXCEPT ![s] = s]
    /\ wpc' = [wpc EXCEPT ![s] = "rb_check"]
    /\ UNCHANGED <<rep, rclosed, session_free_table, sessions, free_table_mutex,
                   wmsg, warn, wit, wjoin, opened, ub, server_exited, wkFrame>>

\* while (!has_message && running) pthread_cond_wait(&message_placed, ...).
RbWait(s) ==
    /\ ~server_exited
    /\ wpc[s] = "rb_check"
    /\ ~sessions[s].has_message /\ sessions[s].running
    /\ session_mutexes' = [session_mutexes EXCEPT ![s] = NoThread]
    /\ wpc' = [wpc EXCEPT ![s] = "rb_wait"]
    /\ UNCHANGED <<rep, rclosed, session_free_table, sessions, free_table_mutex,
                   wmsg, warn, wit, wjoin, opened, ub, server_exited, wkFrame>>

RbReacquire(s) ==
    /\ ~server_exited
    /\ wpc[s] = "rb_reacq"
    /\ session_mutexes[s] = NoThread
    /\ session_mutexes' = [session_mutexes EXCEPT ![s] = s]
    /\ wpc' = [wpc EXCEPT ![s] = "rb_check"]
    /\ UNCHANGED <<rep, rclosed, session_free_table, sessions, free_table_mutex,
                   wmsg, warn, wit, wjoin, opened, ub, server_exited, wkFrame>>

\* !running: unlock and return -2, even when a request is in the buffer;
\* session_run then calls session_unmount(session, id, false).
RbStopped(s) ==
    /\ ~server_exited
    /\ wpc[s] = "rb_check"
    /\ ~sessions[s].running
    /\ session_mutexes' = [session_mutexes EXCEPT ![s] = NoThread]
    /\ warn' = [warn EXCEPT ![s] = FALSE]
    /\ wpc' = [wpc EXCEPT ![s] = "um_lock_ft"]
    /\ UNCHANGED <<rep, rclosed, session_free_table, sessions, free_table_mutex,
                   wmsg, wit, wjoin, opened, ub, server_exited, wkFrame>>

\* Take the request, has_message = false, signal message_removed, unlock.
RbTake(s) ==
    /\ ~server_exited
    /\ wpc[s] = "rb_check"
    /\ sessions[s].has_message /\ sessions[s].running
    /\ wmsg' = [wmsg EXCEPT ![s] = sessions[s].buf]
    /\ sessions' = [sessions EXCEPT ![s].has_message = FALSE]
    /\ mpc' = WakeMain(s)
    /\ session_mutexes' = [session_mutexes EXCEPT ![s] = NoThread]
    /\ wpc' = [wpc EXCEPT ![s] = "exec"]
    /\ UNCHANGED <<req, rep, rclosed, clientVars, session_free_table,
                   free_table_mutex, server_running, mmsg, warn, wit, wjoin,
                   opened, ub, server_exited>>

\* session_open / session_close / session_write / session_read: the
\* file-system call, then its result is written to the session's pipe (for
\* a read, the count and the count bytes read).  The handle opened or
\* closed is the requester's.  A read returns 0 bytes at the end of the
\* file and 1 otherwise; the file system is not modelled, so either.
ExecRequest(s) ==
    LET m == wmsg[s] IN
    /\ ~server_exited
    /\ wpc[s] = "exec"
    /\ m.op \in {TFS_OP_CODE_OPEN, TFS_OP_CODE_CLOSE, TFS_OP_CODE_WRITE, TFS_OP_CODE_READ}
    /\ opened' = CASE m.op = TFS_OP_CODE_OPEN  -> opened \cup {m.from}
                  [] m.op = TFS_OP_CODE_CLOSE -> opened \ {m.from}
                  [] OTHER                    -> opened
    /\ \E n \in IF m.op = TFS_OP_CODE_READ THEN {0, 1} ELSE {0} :
          Answer(sessions[s].pipe, [op |-> m.op, val |-> n, from |-> m.from])
    /\ wpc' = [wpc EXCEPT ![s] = "rb_lock"]
    /\ UNCHANGED <<rclosed, session_free_table, sessions, session_mutexes,
                   free_table_mutex, wmsg, warn, wit, wjoin, ub, wkFrame>>

\* TFS_OP_CODE_UNMOUNT: session_unmount(session, id, true).
ExecUnmount(s) ==
    /\ ~server_exited
    /\ wpc[s] = "exec"
    /\ wmsg[s].op = TFS_OP_CODE_UNMOUNT
    /\ warn' = [warn EXCEPT ![s] = TRUE]
    /\ wpc' = [wpc EXCEPT ![s] = "um_lock_ft"]
    /\ UNCHANGED <<rep, rclosed, session_free_table, sessions, session_mutexes,
                   free_table_mutex, wmsg, wit, wjoin, opened, ub, server_exited, wkFrame>>

\* session_unmount: lock free_table_mutex ...
UmLockTable(s) ==
    /\ ~server_exited
    /\ wpc[s] = "um_lock_ft"
    /\ free_table_mutex = NoThread
    /\ free_table_mutex' = s
    /\ wpc' = [wpc EXCEPT ![s] = "um_lock_s"]
    /\ UNCHANGED <<rep, rclosed, session_free_table, sessions, session_mutexes,
                   wmsg, warn, wit, wjoin, opened, ub, server_exited, wkFrame>>

\* ... then session_mutexes[id]; the slot is FREE, session_destroy destroys
\* the condition variables and frees the struct, both mutexes are released,
\* the answer is written if warn_client, the pipe is closed and the worker
\* returns.  Destroying a condition variable the main thread waits on is
\* undefined.
UmSession(s) ==
    LET c == sessions[s].pipe IN
    /\ ~server_exited
    /\ wpc[s] = "um_lock_s"
    /\ session_mutexes[s] = NoThread
    /\ session_free_table' = [session_free_table EXCEPT ![s] = FREE]
    /\ sessions' = [sessions EXCEPT ![s].st = "freed"]
    /\ ub' = (ub \/ MainUsesSession(s))
    /\ free_table_mutex' = NoThread
    /\ IF warn[s]
       THEN Answer(c, [op |-> TFS_OP_CODE_UNMOUNT, val |-> 0, from |-> wmsg[s].from])
       ELSE UNCHANGED <<rep, server_exited>>
    /\ rclosed' = [rclosed EXCEPT ![c] = TRUE]
    /\ wpc' = [wpc EXCEPT ![s] = "none"]
    /\ UNCHANGED <<session_mutexes, wmsg, warn, wit, wjoin, opened, wkFrame>>

(* session_shutdown_all_after_closed                                       *)

\* TFS_OP_CODE_SHUTDOWN_AFTER_ALL_CLOSED.
ExecShutdown(s) ==
    /\ ~server_exited
    /\ wpc[s] = "exec"
    /\ wmsg[s].op = TFS_OP_CODE_SHUTDOWN_AFTER_ALL_CLOSED
    /\ wpc' = [wpc EXCEPT ![s] = "sd_destroy"]
    /\ UNCHANGED <<rep, rclosed, session_free_table, sessions, session_mutexes,
                   free_table_mutex, wmsg, warn, wit, wjoin, opened, ub, server_exited, wkFrame>>

\* tfs_destroy_after_all_closed: blocks until no file is open.
SdDestroy(s) ==
    /\ ~server_exited
    /\ wpc[s] = "sd_destroy"
    /\ opened = {}
    /\ wpc' = [wpc EXCEPT ![s] = "sd_lock_ft"]
    /\ UNCHANGED <<rep, rclosed, session_free_table, sessions, session_mutexes,
                   free_table_mutex, wmsg, warn, wit, wjoin, opened, ub, server_exited, wkFrame>>

SdLockTable(s) ==
    /\ ~server_exited
    /\ wpc[s] = "sd_lock_ft"
    /\ free_table_mutex = NoThread
    /\ free_table_mutex' = s
    /\ wit' = [wit EXCEPT ![s] = 0]
    /\ wpc' = [wpc EXCEPT ![s] = "sd_kill"]
    /\ UNCHANGED <<rep, rclosed, session_free_table, sessions, session_mutexes,
                   wmsg, warn, wjoin, opened, ub, server_exited, wkFrame>>

\* The kill loop sets running = false without signalling message_placed.
SdKillNoSignal(s) ==
    LET o == wit[s] IN
    /\ ~server_exited
    /\ wpc[s] = "sd_kill"
    /\ o < MAX_SESSIONS /\ o # s /\ session_free_table[o] = TAKEN
    /\ session_mutexes[o] = NoThread
    /\ sessions' = [sessions EXCEPT ![o].running = FALSE]
    /\ wit' = [wit EXCEPT ![s] = o + 1]
    /\ UNCHANGED <<rep, rclosed, session_free_table, session_mutexes, wpc,
                   free_table_mutex, wmsg, warn, wjoin, opened, ub, server_exited, wkFrame>>

\* First loop, under free_table_mutex, for another TAKEN session o: under
\* session_mutexes[o], running = false and message_placed is signalled.
SdKill(s) ==
    LET o == wit[s] IN
    /\ ~server_exited
    /\ wpc[s] = "sd_kill"
    /\ o < MAX_SESSIONS /\ o # s /\ session_free_table[o] = TAKEN
    /\ session_mutexes[o] = NoThread
    /\ sessions' = [sessions EXCEPT ![o].running = FALSE]
    /\ wpc' = WakeWorker(o)
    /\ wit' = [wit EXCEPT ![s] = o + 1]
    /\ UNCHANGED <<rep, rclosed, session_free_table, session_mutexes,
                   free_table_mutex, wmsg, warn, wjoin, opened, ub, server_exited, wkFrame>>

\* The kill loop stepping over its own session with an extra o++.
SdKillSkipTwice(s) ==
    LET o == wit[s] IN
    /\ ~server_exited
    /\ wpc[s] = "sd_kill"
    /\ o < MAX_SESSIONS /\ (o = s \/ session_free_table[o] = FREE)
    /\ wit' = [wit EXCEPT ![s] = IF o = s THEN o + 2 ELSE o + 1]
    /\ UNCHANGED <<rep, rclosed, session_free_table, sessions, session_mutexes,
                   free_table_mutex, wpc, wmsg, warn, wjoin, opened, ub, server_exited, wkFrame>>

\* ... skipping FREE entries and its own session.
SdKillSkip(s) ==
    LET o == wit[s] IN
    /\ ~server_exited
    /\ wpc[s] = "sd_kill"
    /\ o < MAX_SESSIONS /\ (o = s \/ session_free_table[o] = FREE)
    /\ wit' = [wit EXCEPT ![s] = o + 1]
    /\ UNCHANGED <<rep, rclosed, session_free_table, sessions, session_mutexes,
                   free_table_mutex, wpc, wmsg, warn, wjoin, opened, ub, server_exited, wkFrame>>

SdKillDone(s) ==
    /\ ~server_exited
    /\ wpc[s] = "sd_kill"
    /\ wit[s] = MAX_SESSIONS
    /\ free_table_mutex' = NoThread
    /\ wit' = [wit EXCEPT ![s] = 0]
    /\ wpc' = [wpc EXCEPT ![s] = "sd_join"]
    /\ UNCHANGED <<rep, rclosed, session_free_table, sessions, session_mutexes,
                   wmsg, warn, wjoin, opened, ub, server_exited, wkFrame>>

\* Second loop, without any lock: session_free_table[o] == TAKEN ...
SdJoinCheck(s) ==
    LET o == wit[s] IN
    /\ ~server_exited
    /\ wpc[s] = "sd_join"
    /\ o < MAX_SESSIONS /\ o # s /\ session_free_table[o] = TAKEN
    /\ wpc' = [wpc EXCEPT ![s] = "sd_join_read"]
    /\ UNCHANGED <<rep, rclosed, session_free_table, sessions, session_mutexes,
                   free_table_mutex, wmsg, warn, wit, wjoin, opened, ub, server_exited, wkFrame>>

SdJoinSkip(s) ==
    LET o == wit[s] IN
    /\ ~server_exited
    /\ wpc[s] = "sd_join"
    /\ o < MAX_SESSIONS /\ (o = s \/ session_free_table[o] = FREE)
    /\ wit' = [wit EXCEPT ![s] = o + 1]
    /\ UNCHANGED <<rep, rclosed, session_free_table, sessions, session_mutexes,
                   free_table_mutex, wpc, wmsg, warn, wjoin, opened, ub, server_exited, wkFrame>>

\* ... then sessions[o]->tid is read for pthread_join: the tid of the
\* session now in the slot, which may have been remounted since the kill.
SdJoinRead(s) ==
    LET o == wit[s] IN
    /\ ~server_exited
    /\ wpc[s] = "sd_join_read"
    /\ sessions[o].st = "live"
    /\ wjoin' = [wjoin EXCEPT ![s] = [slot |-> o, inc |-> sessions[o].inc]]
    /\ wpc' = [wpc EXCEPT ![s] = "sd_join_wait"]
    /\ UNCHANGED <<rep, rclosed, session_free_table, sessions, session_mutexes,
                   free_table_mutex, wmsg, warn, wit, opened, ub, server_exited, wkFrame>>

\* The session was unmounted between the two reads: ->tid is read from
\* freed memory and pthread_join fails, so the function returns -1 without
\* answering; session_run then unmounts this session.
SdJoinFreed(s) ==
    LET o == wit[s] IN
    /\ ~server_exited
    /\ wpc[s] = "sd_join_read"
    /\ sessions[o].st # "live"
    /\ ub' = TRUE
    /\ warn' = [warn EXCEPT ![s] = FALSE]
    /\ wpc' = [wpc EXCEPT ![s] = "um_lock_ft"]
    /\ UNCHANGED <<rep, rclosed, session_free_table, sessions, session_mutexes,
                   free_table_mutex, wmsg, wit, wjoin, opened, server_exited, wkFrame>>

\* pthread_join returns when that worker has returned.
SdJoinWait(s) ==
    LET j == wjoin[s] IN
    /\ ~server_exited
    /\ wpc[s] = "sd_join_wait"
    /\ wpc[j.slot] = "none" \/ sessions[j.slot].inc # j.inc
    /\ wit' = [wit EXCEPT ![s] = j.slot + 1]
    /\ wpc' = [wpc EXCEPT ![s] = "sd_join"]
    /\ UNCHANGED <<rep, rclosed, session_free_table, sessions, session_mutexes,
                   free_table_mutex, wmsg, warn, wjoin, opened, ub, server_exited, wkFrame>>

\* All joined: the result is written to the client, server_running =
\* false, and session_run unmounts this session without a second answer.
SdFinish(s) ==
    /\ ~server_exited
    /\ wpc[s] = "sd_join"
    /\ wit[s] = MAX_SESSIONS
    /\ Answer(sessions[s].pipe, [op |-> TFS_OP_CODE_SHUTDOWN_AFTER_ALL_CLOSED,
                                 val |-> 0, from |-> wmsg[s].from])
    /\ server_running' = FALSE
    /\ warn' = [warn EXCEPT ![s] = FALSE]
    /\ wpc' = [wpc EXCEPT ![s] = "um_lock_ft"]
    /\ UNCHANGED <<req, rclosed, clientVars, session_free_table, sessions,
                   session_mutexes, free_table_mutex, mpc, mmsg, wmsg, wit, wjoin,
                   opened, ub>>

----------------------------------------------------------------------------
Client(c) ==
    \/ ClientMount(c) \/ ClientRequest(c) \/ ClientUnmount(c)
    \/ ClientAnswer(c) \/ ClientReadEmpty(c) \/ ClientEof(c) \/ ClientExit(c)

MainThread ==
    \/ MainLoop \/ MainExit \/ MainRead \/ MainPipeClosed
    \/ MountLock \/ MountSession \/ MountFull
    \/ WbLock \/ WbInvalid \/ WbWait \/ WbReacquire \/ WbPlace

Worker(s) ==
    \/ RbLock(s) \/ RbWait(s) \/ RbReacquire(s) \/ RbStopped(s) \/ RbTake(s)
    \/ ExecRequest(s) \/ ExecUnmount(s) \/ UmLockTable(s) \/ UmSession(s)
    \/ ExecShutdown(s) \/ SdDestroy(s) \/ SdLockTable(s)
    \/ SdKill(s) \/ SdKillSkip(s) \/ SdKillDone(s)
    \/ SdJoinCheck(s) \/ SdJoinSkip(s) \/ SdJoinRead(s) \/ SdJoinFreed(s)
    \/ SdJoinWait(s) \/ SdFinish(s)

\* Once the server process has ended, each server action is disabled.
Next ==
    \/ \E c \in Clients : Client(c)
    \/ MainThread
    \/ \E s \in Slots : Worker(s)

\* Steps that acquire a mutex or wait for a condition that other threads
\* make true and false again are strongly fair; the others weakly fair.
\* A client is a process that runs its script to the end, as the
\* processes of the tests do: each of its steps is weakly fair.
Fairness ==
    /\ \A c \in Clients : WF_vars(Client(c))
    /\ WF_vars((MainLoop \/ MainExit \/ MainRead \/ MainPipeClosed
                           \/ MountSession \/ MountFull \/ WbInvalid \/ WbWait \/ WbPlace))
    /\ SF_vars(MountLock) /\ SF_vars(WbLock)
    /\ SF_vars(WbReacquire)
    /\ \A s \in Slots :
          /\ SF_vars((RbLock(s) \/ RbReacquire(s) \/ UmLockTable(s)
                                 \/ UmSession(s) \/ SdLockTable(s) \/ SdKill(s)
                                 \/ SdDestroy(s)))
          /\ WF_vars((RbWait(s) \/ RbStopped(s) \/ RbTake(s)
                                 \/ ExecRequest(s) \/ ExecUnmount(s) \/ ExecShutdown(s)
                                 \/ SdKillSkip(s) \/ SdKillDone(s) \/ SdJoinCheck(s)
                                 \/ SdJoinSkip(s) \/ SdJoinRead(s) \/ SdJoinFreed(s)
                                 \/ SdJoinWait(s) \/ SdFinish(s)))

Spec == Init /\ [][Next]_vars
FairSpec == Spec /\ Fairness

-----------------------------------------------------------------------------
(* Properties                                                               *)

\* Answers reach the client that asked: every answer in a client's pipe
\* answers a request that client sent.  The main thread routes a request
\* by the session id it carries, and a slot is reused by the next mount
\* once session_unmount has marked it FREE.
NoCrossTalk ==
    \A c \in Clients : \A i \in 1 .. Len(rep[c]) : rep[c][i].from = c

\* No thread of the server reads or writes a freed session, a NULL session
\* or an index past sessions[] (mount, write_buffer, the join loop of
\* session_shutdown_all_after_closed, session_destroy under a waiter).
NoUndefinedBehaviour == ~ub

\* Every mount and every request a client makes is eventually answered,
\* or the client sees its pipe closed: no client waits forever on the
\* server (main dispatch, read_buffer/write_buffer hand-off, unmount and
\* shutdown).
RequestsAnswered ==
    \A c \in Clients : cpc[c] \in {"mounting", "waiting"} ~> cpc[c] \notin {"mounting", "waiting"}

\* A session told to stop by session_shutdown_all_after_closed (running =
\* false, message_placed signalled) is eventually unmounted by its worker,
\* wherever the worker was when it was told (or the server process ends).
KilledSessionsEnd ==
    \A s \in Slots :
        sessions[s].st = "live" /\ ~sessions[s].running
            ~> sessions[s].st # "live" \/ sessions[s].running \/ server_exited

\* The one-message hand-off between the main thread and a worker never
\* loses a request: while a session's buffer holds a message, the next
\* step either leaves that message in it or is the worker taking it
\* (read_buffer clears has_message).  It takes two senders on one slot, a
\* stale client and the slot's new owner, for write_buffer's while
\* (has_message) wait to matter.
NoMessageOverwritten ==
    [][\A s \in Slots :
         sessions[s].has_message /\ sessions'[s].has_message
             => sessions'[s].buf = sessions[s].buf]_vars

====
