# TLA+ models of TecnicoFS

This directory holds TLA+ models of the TecnicoFS file system in `src/tecnicofs` and of its
client/server front end in `src/tecnicofs_ex2`, the TLC configurations that check them, and
`PROJECT.json`, which maps every model definition to the source lines it translates and lists
the runs, mutants, findings and hazards.

## 1. The system

TecnicoFS is an in-memory file system with a single directory (the root, inode 0). Files are
reached through a POSIX-like API (`tfs_open`, `tfs_write`, `tfs_read`, `tfs_close`,
`tfs_destroy_after_all_closed`) that many threads may call concurrently. Its parts:

| Part | Source | State it keeps | Operations that change state |
|---|---|---|---|
| Block store | `state.c` 11-29, 456-506 | `fs_data` (DATA_BLOCKS × BLOCK_SIZE bytes), `free_blocks` bitmap, `free_blocks_lock` | `data_block_alloc` (first fit), `data_block_free` |
| Inode table | `state.c` 105-363 | `inode_table`, `freeinode_ts` bitmap, `freeinode_lock`, one rwlock per inode | `inode_create`, `inode_delete`, `free_all_inode_blocks` (truncate), `inode_data_block_add` (10 direct blocks + 1 indirect block of INDECES_PER_BLOCK indexes) |
| Directory | `state.c` 373-450 | entries in the root's data block | `add_dir_entry`, `find_in_dir` |
| Open-file table | `state.c` 514-568 | `open_file_table`, `free_open_file_entries` bitmap, `free_open_file_entries_lock`, one mutex per entry | `add_to_open_file_table`, `remove_from_open_file_table` |
| Operation layer | `operations.c` (not in this repository's `src/`) | none of its own; a global creation lock and the open-file counter used by `tfs_destroy_after_all_closed` | `tfs_open` (create, truncate, append), `tfs_write`, `tfs_read`, `tfs_close` |
| Server | `tfs_server.c` | `sessions[]`, `session_free_table`, per-session one-message buffer with `has_message` and two condition variables, `running` | `mount`, `session_run`, `read_buffer`/`write_buffer`, `session_unmount`, `session_shutdown_all_after_closed` |
| Client API | `tecnicofs_client_api.c` | its session id and pipe names | one synchronous request/reply per call |

How they interact: a `tfs_*` call takes the lock of the open-file entry, then the inode's
rwlock, then calls into the block store, which takes `free_blocks_lock`. The lock order is
open-file table → entry → inode → free-block bitmap. On the server, the main thread reads every
request from one named pipe and puts it in the buffer of the session's worker thread; the
worker executes it against TecnicoFS and replies on the client's pipe.

The behaviours that make it hard:
- threads interleaving on the bitmaps and the per-entry locks;
- early-return paths that leave a lock held;
- the indirect-block index being reached through raw `int *` arithmetic on `fs_data`;
- the store filling up in the middle of a write;
- the server's hand-off buffer racing shutdown and unmount.

Properties the parts should have:
- **open-file table:** a handle is given to one open at a time, and no slot is lost;
- **inodes and blocks:** every taken block belongs to exactly one live inode, and a file
  reads back what was written to it;
- **operations:** appends through several handles do not overwrite each other (a claim of
  the tests);
- **server:** every request gets a reply, and shutdown waits for open files.

Finally, no call may block forever when clients use the API correctly.

## 2. Modules

### OpenFileTable (`OpenFileTable.tla`, `MC_OpenFileTable.tla`)

This module models `add_to_open_file_table` and `remove_from_open_file_table` of `state.c`
with their locks:
- one action per lock acquisition;
- one action per section between two acquisitions.

This lets threads interleave the way the pthread code lets them.

| Model | Code |
|---|---|
| `free_open_file_entries`, `open_file_table` | the bitmap and entries |
| `free_open_file_entries_lock`, `open_files_locks[h]` | the table mutex and the per-entry mutexes; each holds the thread that owns it, or `NoThread` |
| `pc`, `arg`, `slot` | each thread's position in a call |
| `granted[h]` | ghost history of the threads a handle was returned to and that have not yet closed it |

The actions are:
- `CallAdd`, `AddLockTable`, `AddScan`, `AddFull` and `AddFill` for `add_to_open_file_table`;
- `CallRemove`, `RemoveInvalid`, `RemoveLockTable`, `RemoveTaken` and `RemoveNotTaken` for
  `remove_from_open_file_table`.

`RemoveNotTaken` returns without unlocking the entry, exactly as the code at `state.c:545-548`
does.

The constant `CloseOwnOnly` chooses the clients:
- **TRUE:** clients close only handles they hold (correct use of the API);
- **FALSE:** clients may close any number in `-1..MAX_OPEN_FILES-1`. This is what test
  `B-3-5` does: it closes one handle from many threads.

`OpenFiles.tla` states what the table promises, with open and close atomic: open gives the
lowest handle that is not taken to its caller with the caller's inumber and offset, or
fails; close of a taken handle frees exactly that handle. `OpenFileTable` instantiates it as
`OF` (`OpenFilesRefinement == OF!Spec`) under this mapping:
- a handle is taken when its bit is TAKEN;
- an add takes effect at `AddScan`; while it fills the entry (`Filling(h)`), the abstract
  entry already holds its arguments and its caller;
- a remove takes effect at `RemoveTaken`;
- every other step is a stutter.

### InodeBlocks (`InodeBlocks.tla`, `MC_InodeBlocks.tla`)

This module models the inode table and the block store, with each call as one atomic step.
The code holds `freeinode_lock`/`free_blocks_lock` and the inode's write lock across each of
these calls. The calls modelled are:
- `inode_create` for a file;
- `inode_delete`;
- `free_all_inode_blocks`, as the truncate of `tfs_open(TFS_O_TRUNC)`;
- `inode_data_block_get`;
- `inode_data_block_add`, split into `AppendDirect`, `AppendIndirect` (the indirect block
  exists) and `AppendNewIndirect` (the indirect block is allocated first).

`fs_data` is kept as an array of *int words*: block `b` is words
`b*BLOCK_SIZE/4 .. b*BLOCK_SIZE/4 + BLOCK_SIZE/4 - 1`. The model needs this because the code
casts a block to `int *` and initialises it with a loop bounded by `BLOCK_SIZE` (bytes), not
`INDECES_PER_BLOCK` (ints). A write of a data block is abstracted to filling the block's
words with one payload value.

`ub` records undefined behaviour:
- the initialisation loop writing past `fs_data`;
- a dereference of `data_block_get(-1)`.

`contents[i]` is the ghost abstract file: the sequence of payloads appended since the last
truncate.

Bounds: `INDECES_PER_BLOCK = 2` (so `BLOCK_SIZE` is 8 "bytes", 2 words) and
`LEVEL0_BLOCK_NUM = 2`. A file therefore reaches its indirect block after two appends and is
full at four blocks.

### Server (`Server.tla`, `MC_Server.tla`)

This module models the TecnicoFS server of `tfs_server.c` together with its clients
(`tecnicofs_client_api.c`). A thread step ends wherever the code can block or another thread
can interleave: at each mutex acquisition, each condition wait and each pipe read.

| Model | Code |
|---|---|
| `req` | the server pipe (requests in write order; each is one `write()` below `PIPE_BUF`, so they never interleave) |
| `rep[c]`, `rclosed[c]` | client `c`'s pipe: the replies in it, and whether `session_unmount` has closed it |
| `cpc`, `sid`, `todo`, `pending` | a client process: its position, its `session_id`, the calls left in its script, the call it waits on |
| `session_free_table`, `free_table_mutex`, `session_mutexes` | the globals of the same names; a mutex holds its owner (`Main`, a slot's worker) or `NoThread` |
| `sessions[s]` | the `struct session` of slot `s`: `st` is `null`/`live`/`freed` (freed by `session_destroy`), `pipe` is the client it answers, plus `has_message`, `running`, the one-message `buf`, and `inc`, which counts mounts of the slot and stands for the worker's `tid` |
| `server_running` | the global of that name |
| `mpc`, `mmsg` | the main thread's position and the request it holds |
| `wpc[s]`, `wmsg[s]`, `warn[s]`, `wit[s]`, `wjoin[s]` | the worker of slot `s`: position, request, `warn_client`, loop index of the shutdown loops, the `tid` it joins |
| `opened` | the clients with a file open, as far as `tfs_destroy_after_all_closed` needs |
| `ub` | undefined behaviour occurred |
| `server_exited` | the server process has ended (`main` returned, or SIGPIPE) |

The actions are:
- **main:** `MainLoop`/`MainExit` (loop head), `MainRead` (`read_pipe`) and `MainPipeClosed`
  (EOF on the server pipe);
- **mount:** `MountLock`, `MountSession` (with `session_setup`) and `MountFull` (every slot
  taken: the dead `session_id == -1` test lets it write `sessions[MAX_SESSIONS]`);
- **write_buffer:** `WbLock`, `WbWait`, `WbReacquire` and `WbPlace`, plus `WbInvalid` for a
  request whose session is not live;
- **read_buffer:** `RbLock`, `RbWait`, `RbReacquire`, `RbTake` and `RbStopped` (returns -2);
- **session_run:** `ExecRequest` (open/close: the file-system call and the reply),
  `ExecUnmount` and `ExecShutdown`;
- **session_unmount:** `UmLockTable` and `UmSession`;
- **session_shutdown_all_after_closed:**
  - `SdDestroy` waits for `opened = {}`;
  - the kill loop: `SdLockTable`, `SdKill`, `SdKillSkip` and `SdKillDone`;
  - the unlocked join loop: `SdJoinCheck`, `SdJoinSkip`, `SdJoinRead`, `SdJoinFreed` and
    `SdJoinWait`;
  - `SdFinish` replies and clears `server_running`;
- **clients:** `ClientMount`, `ClientRequest`, `ClientUnmount`, `ClientAnswer`, `ClientEof`
  (a read of 0 bytes: -2), `ClientReadEmpty` and `ClientExit`.

A client may exit without `tfs_unmount`, as the children of `B-2-1.c` do. A reply written to
a client that has exited ends the server process, because SIGPIPE is not ignored (`Answer`).

The constant `StaleClients` controls what a client does after -2:
- **TRUE:** it carries on with its old `session_id`. The API keeps `session_id` after -2.
- **FALSE:** it stops.

`MC_Server` gives each client its script (`MCScript`):
- the shutdown client calls `tfs_shutdown_after_all_closed`;
- the others call `tfs_open`, `tfs_write`, `tfs_read` and `tfs_close`, or only `tfs_open`
  (`ShortClients`).

`ExecRequest` stands for `session_open`, `session_close`, `session_write` and `session_read`
(`tfs_server.c` 399-477): one file-system call and one reply each. The reply to a read carries
a count, 0 or 1 here (the end of the file, or some bytes). On a count of 0 the client's read of
the 0 payload bytes returns 0, and `tfs_read` takes that for a closed pipe and returns -2
(`ClientReadEmpty`, `tecnicofs_client_api.c:273`): a client that does not carry on then exits
without unmounting, and its session stays taken. Byte lengths and payloads are not represented.

### InodeLocks (`InodeLocks.tla`, `MC_InodeLocks.tla`)

This module models the lock protocol of `inode_create(T_FILE)` and `inode_delete`
(`state.c` 105-163, 310-348): `freeinode_lock` over the bitmap `freeinode_ts`, and each
inode's rwlock taken for writing. Each call is split at its two acquisitions:
- `CreateLockTable`, `CreateScan`/`CreateFull` and `CreateTake` for `inode_create`;
- `DeleteLockTable`, `DeleteFree` and `DeleteTaken` for `inode_delete`.

`DeleteFree` is the early return at `state.c:322`, which does not unlock the inode. The
return value of `pthread_rwlock_wrlock` is ignored everywhere. A thread that already holds a
write lock gets `EDEADLK` from glibc and carries on (`CanWriteLock`). Blocks and the inode
record are left to `InodeBlocks`.

### File isolation (`OtherFilesUntouched` in `InodeBlocks.tla`)

`spec.md` promises that a call on one inode leaves the others untouched. `FileData(f)` is
what a reader finds in file `f`: for each position below `i_size`, the first word of the
block that `inode_data_block_get` returns (`ReadBlock`). It reads the blocks, not the ghost
`contents`. `OtherFilesUntouched` is an action property: a step that does not change a live
file's `contents` (it does not write, truncate or recreate that file) leaves its `FileData`
as it was. It only says something with two files, so it is checked in the two-file
configuration, where the code breaks it.

An earlier version stated the same promise as a refinement of an abstract file store. With
one file that refinement said no more than `FileRoundTrip`, and with two files the code
breaks it, so it was replaced by this property.

### TfsOps (`TfsOps.tla`, `MC_TfsOps.tla`)

`TfsOps` composes the root directory, the inode bitmap and `OpenFileTable` under the
operation layer. `OpenFileTable` is taken as `OFT == INSTANCE OpenFileTable WITH ...`, its
variables renamed (`oft_pc`, `oft_arg`, `oft_slot`); its fine-grained steps are disjuncts of
`Next`. Each thread runs a fixed script of calls (`Script(t)`); `pc`, `step`, `inum`,
`offset`, `fh` and `opened` are its locals.

- **Directory** (`state.c` 373-450): `dir` is the root's entry array. `find_in_dir` returns
  the first entry with the name, `add_dir_entry` fills the first free one and fails when the
  directory is full. Both run under the root's inode lock, so each is one step.
- **`tfs_open`** (from the spec, `operations.c` is not in `src/`): `CallOpen` takes the global
  creation lock (`lock_file_creation`, `state.c:635`) when `TFS_O_CREAT` is set. Then:
  - `LookupFound`: releases it, and sets the offset to the size for `TFS_O_APPEND`, else 0;
  - `LookupAbsent`: returns -1 without `TFS_O_CREAT`;
  - `LookupCreate`: `inode_create` takes the first FREE inode;
  - `InsertEntry` / `InsertFull`: `add_dir_entry` succeeds, or fails and the new inode is
    deleted again;
  - `OpenTrunc` empties the file for `TFS_O_TRUNC`;
  - `OpenRegister` / `OpenReturn`: `add_to_open_file_table` through `OFT`.
- **`tfs_write`/`tfs_read`**: one block at the handle's offset under the entry and inode
  locks; a write past `MaxFileBlocks` is cut short, as the code caps it. A handle of -1 is
  rejected by `get_open_file_entry` (`BadHandle`).
- **`tfs_close`**: `remove_from_open_file_table` through `OFT`.

Sizes are in blocks; byte offsets and block contents are left to `InodeBlocks`.
`INODE_TABLE_SIZE > MAX_DIR_ENTRIES + 1` is assumed, as in `config.h`: creates are
serialised, so `inode_create` cannot run out before the directory does.

## 3. Runs

| Run | Config | Expect | What it shows |
|---|---|---|---|
| `oft_safety` | `OpenFileTable_safety.cfg`: 3 threads, 2 slots, any handle closed, symmetry over threads | pass | `HandleExclusive`: a handle is never held by two threads. `NoLeakedSlot`: every TAKEN slot is held by a thread or being filled. `OpenFilesRefinement`: the table implements `OpenFiles`, so it is linearizable and first-fit. Deadlock checking is off because of the double-close hang shown below. |
| `tfs_ops` | `TfsOps_live.cfg`: 2 threads, 3 names, 2 directory entries, 4 inodes, 1 open-file slot, files of 1 block, `FairSpec` | pass | `DirectoryConsistent`: names are unique, name TAKEN inodes, and every TAKEN inode has exactly one name unless its create is inserting it. `HandleNamesFile`: an open handle is TAKEN and refers to the inode its name resolves to. `CallsReturn`: every call of both scripts returns, through the fine-grained add and remove of `OpenFileTable` (own handles only). |
| `oft_double_close_hangs` | `OpenFileTable_doubleclose.cfg`: 2 threads, any handle | violation | `CallsReturn` fails (trace below). |
| `blocks_one_file` | `InodeBlocks_onefile.cfg`: 8 blocks, 2 inodes, 2 payloads | pass | `BlockAccounting`: the bitmap matches the indexes, the file's positions and its indirect block are distinct blocks, it shares none with the root, and nothing is leaked. `FileRoundTrip`: reading position p yields the p-th payload. Both hold through create, appends across the direct/indirect boundary, truncate and delete. With one file, no file's blocks can collide with another's; that is `blocks_clobber`'s question. |
| `blocks_clobber` | `InodeBlocks_twofiles.cfg`: 14 blocks, 3 inodes | violation | `OtherFilesUntouched` fails (trace below). |
| `blocks_overrun` | `InodeBlocks_full.cfg`: 6 blocks | violation | `NoUndefinedBehaviour` fails (trace below). |
| `inode_double_delete_hangs` | `InodeLocks_doubledelete.cfg`: 2 threads, the root and one file inode, deletes of any non-root inode, `FairSpec` | violation | `CallsReturn` fails (trace below). |
| `server_sessions` | `Server_sessions.cfg`: 2 clients, 2 slots, no shutdown, `FairSpec` | pass | `NoCrossTalk`: every reply a client reads answers its own request. `RequestsAnswered`: every mount and call returns. |
| `server_shutdown` | `Server_shutdown.cfg`: `B-2-1` with one child (s0 shuts down, c1 opens, writes, reads, closes, unmounts or exits), `FairSpec` | pass | `TypeOK`. `KilledSessionsEnd`: every session the shutdown stops is unmounted by its worker, whether the worker was waiting, executing or about to lock. |
| `server_stale` | `Server_stale.cfg`: 3 clients, 2 slots, stale clients, `Spec` | pass | `NoMessageOverwritten`: a placed request stays in the buffer until its worker takes it, even when a stale client and the slot's new owner both send to one slot (2.5M states). |
| `server_shutdown_ub` | as `server_shutdown` | violation | `NoUndefinedBehaviour` fails (trace below). |
| `server_shutdown_hang` | as `server_shutdown` | violation | `RequestsAnswered` fails (trace below). |

The counterexamples of the six violation runs:
- **`oft_double_close_hangs`:** two closes of a handle that is not open. The first leaks the
  entry mutex. The second blocks on that mutex while holding the table mutex, and a
  concurrent open then blocks forever.
- **`blocks_clobber`:** file 1 grows to three blocks: blocks 1 and 2, then data block 3
  and indirect block 4. File 2 takes block 5. File 1 is truncated, which frees blocks 1-4,
  and grows again: its new indirect block is again block 4, and its initialisation writes
  -1 over blocks 5-7, so file 2's block 5 is lost by a write to file 1 (11 states). The
  same loop can also wipe the writer's own direct blocks: when file A is truncated below
  file B, B's new indirect block lands in the hole under B's direct blocks (9 states).
- **`blocks_overrun`:** the indirect block is among the last three blocks of the store, so
  its initialisation writes past the end of `fs_data`.
- **`inode_double_delete_hangs`:** t1 deletes inode 1, which is FREE, and keeps its write
  lock. t1 then calls create, and t2 deletes inode 1 again: t2 takes `freeinode_lock` and
  blocks on the inode lock, while t1 blocks on `freeinode_lock`. The trace is 7 steps.
- **`server_shutdown_ub`:** c1 mounts and s0 mounts and shuts down. The kill loop stops c1's
  session and releases `free_table_mutex`. The join loop reads `session_free_table[c1's slot]
  == TAKEN`. c1's worker then returns -2 from `read_buffer`, unmounts and frees its struct,
  and the join loop reads `->tid` from the freed struct (a 31-step trace).
- **`server_shutdown_hang`:** c1 writes its mount request after s0's shutdown has cleared
  `server_running`. Main returns and the process ends with the request unread, so c1 stays
  blocked opening its own pipe.

Why the bounds are enough:
- **TfsOps:** t1 creates n2, then creates n1, writes it twice (the second write hits the
  size cap), reopens n1 with truncate and reads it. t2 appends to n1, writes and reads,
  creates n2 as well, and creates n3. The two creates of n2 race on the creation lock: one
  creates the name, the other finds it. Whichever of n1 and n3 comes last finds the
  two-entry directory full, and its new inode is deleted again. t2's append handle may be
  opened at offset 1 and written after t1 has truncated the file. One open-file slot makes
  opens wait for, or fail on, the other thread's handle. A third thread (with one or two
  slots) gives 100k-250k states and up to minutes of liveness checking per run.
- **Two slots and three threads** give every contention pattern of the table: two opens
  racing for the last slot, and an open racing a close of the slot it wants.
- **Payloads:**
  - Two payload values make a stale block distinguishable from a fresh one.
  - The clobber needs a truncated file below another file's new indirect block; 14 blocks
    and 3 inodes are enough for that.
- **Server:**
  - Two slots and two clients give a reused slot, a shutdown racing a live session in each
    of its positions, and a mount after the kill loop.
  - A stale request meeting another request in one buffer needs three clients: one killed,
    one mounting into its slot, and the shutdown client. It is the only way `write_buffer`
    ever waits.
  - `MountFull` (every slot taken) is reached there too, because clients exit without
    unmounting.

Every passing property has a mutant in `PROJECT.json`: an operator placed before the
definition it replaces, modelling a plausible bug. Each mutant makes TLC report the property
violated.

## 4. Fairness

Fairness is on internal steps and lock acquisitions, never on client calls:
- **Weak fairness** is on steps that hold a lock and need nothing else: the scan, the "full"
  return, the invalid-handle return.
- **Strong fairness** is on steps that acquire a mutex. A waiting thread is repeatedly
  enabled and disabled as other threads take and release the mutex. Liveness here assumes
  the pthread mutex is not starving anyone forever, which is the usual assumption for
  `pthread_mutex_lock`.

Client calls (`CallAdd`, `CallRemove`) are not fair: a client may stop calling.

In `Server`, the clients are fair as well: a client process runs its script to the end, as
the processes of the tests do. Otherwise a liveness violation could be shown by a client that
simply stops. Server threads are fair in the same way as above:
- **Strong fairness** on `MountLock`, `WbLock`, `WbReacquire`, `RbLock`, `RbReacquire`,
  `UmLockTable`, `UmSession`, `SdLockTable`, `SdKill` and `SdDestroy`;
- **Weak fairness** on their other steps.

In `TfsOps`, each thread is strongly fair over all its steps (`SF_vars(ThreadStep(t))`): a test
thread runs its script to the end, and a thread waiting for the creation lock, an inode lock
or an `OpenFileTable` mutex is not starved. At a step that waits for nothing the thread stays
enabled, so there strong fairness is weak fairness. One condition per thread, not one per
action, keeps the liveness check to seconds.

## 5. Findings

1. `state.c:545`: `remove_from_open_file_table` leaks the entry mutex when the handle is not
   open. Any later open or close of that slot hangs the whole table (run
   `oft_double_close_hangs`).
2. `state.c:291`: the new indirect block is initialised with `BLOCK_SIZE` ints, 4 blocks,
   which overwrites the three following blocks, whether they hold another file's data or
   the writer's own (run `blocks_clobber`).
3. `state.c:288-292`: the same loop writes past the end of `fs_data` for the last three
   blocks. An allocation failure gives `data_block_get(-1) == NULL`, which is then
   dereferenced (run `blocks_overrun`).

4. `tfs_server.c:516-518`: the join loop of `session_shutdown_all_after_closed` reads
   `session_free_table` and `sessions[o]->tid` without a lock. It can therefore join a
   thread through a freed struct (run `server_shutdown_ub`).
5. `tfs_server.c:85-144`: main returns as soon as `server_running` is false, with requests
   still in the server pipe. A client whose mount is among them blocks forever (run
   `server_shutdown_hang`).

6. `state.c:320-325`: `inode_delete` of an inode that is already FREE returns -1 holding the
   inode's write lock. The spec makes this an ordinary error. The next create into that slot,
   or delete of it, blocks while holding `freeinode_lock`, and with it every later create and
   delete (run `inode_double_delete_hangs`).

Seen while modelling, and recorded as hazards in `PROJECT.json`:
- **Mount with every slot taken** writes `sessions[MAX_SESSIONS]` (`tfs_server.c:286`).
- **A client that carries on after -2** with its old `session_id` gets its replies sent to
  another client once its slot is remounted. `NoCrossTalk` fails in the `server_stale`
  configuration.
- **A client that exits with a reply due** kills the server (SIGPIPE).
- **`tfs_read` of the client answered with -1** (`tecnicofs_client_api.c:268`) mallocs 0
  bytes, writes `return_buffer[-1]` and blocks reading `(unsigned)-1` bytes; the server sends
  nothing more until the next request. The `Server` model answers every request with success,
  so no run shows it.
- **A write of more than about 984 bytes** overflows the server: `tfs_write` caps the length at
  `PIPE_BUF - 17`, but `read_pipe` reads it into main's 1000-byte stack buffer
  (`tfs_server.c:228`). Lengths are not modelled.
- **`tfs_read` at the end of a file returns -2** (`tecnicofs_client_api.c:273`), the value for
  a lost server; `ClientReadEmpty` models it, and the `server_sessions` run checks that every
  call still returns and no reply goes astray after it.
- **A truncate under an append handle** leaves that handle's offset past the new end; its next
  write raises `i_size` over a position with no block, which `inode_data_block_get` then
  returns as -1 (`state.c:240`). `TfsOps` reaches this state but keeps no block indexes.

## 6. Not modelled yet, and the plan

The modules are written in this order (done: 1-7):

1. `OpenFileTable`: the handle table and its locks.
2. `InodeBlocks`: inodes, block index and block store as atomic calls.
3. `InodeLocks`: the `freeinode_lock` and per-inode rwlock protocol of `inode_create` and
   `inode_delete`, with the violation run for `state.c:322`. A liveness run for correct use
   (never deleting a FREE inode) is still to come.
4. `Directory`: `add_dir_entry`/`find_in_dir` and the creation path of `tfs_open` under its
   global lock, in `TfsOps`.
5. `TfsOps`: `tfs_open`, `tfs_write`, `tfs_read` and `tfs_close`, composing `OpenFileTable`
   and the directory. Still to come:
   - block contents, so that concurrent appends (test D-3-7 expects 400 bytes, while the spec
     fixes the append offset at open) can be shown to lose a chunk;
   - a write racing a close of a shared handle (test B-3-5).

   `tfs_destroy` and `tfs_destroy_after_all_closed` are left out. The spec says only that the
   latter waits until no handle is outstanding and then tears everything down. What an open,
   write or close does while it waits, or after the teardown, is decided in `operations.c`,
   which is not in the repository, and a model of it would be a guess.
6. `Server`: mount, dispatch through the one-slot buffer, unmount and shutdown. Runs:
   - every request answered;
   - the requests dropped by `read_buffer` at shutdown;
   - the unlocked read of `sessions[]` during shutdown;
   - mount with all sessions taken.
7. The refinement `OpenFileTable` ⇒ `OpenFiles` (run `oft_safety`), done. The engine's
   promise to other files is the action property `OtherFilesUntouched` (run
   `blocks_clobber`), which the code breaks.
8. `Server`: a liveness run with stale clients, once it fits the time limits (2.5M states
   for safety alone).

Left out for good:
- the byte formats of the pipe protocol and of directory names (I/O and layout). Names are
  model values, so the off-by-one between `add_dir_entry` (stores `MAX_FILE_NAME - 1`
  characters) and `find_in_dir` (compares `MAX_FILE_NAME`) is a hazard without a property;
- `insert_delay` (timing only);
- the client stub beyond "one request outstanding per client".
