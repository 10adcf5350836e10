------------------------------- MODULE TfsOps -------------------------------
(***************************************************************************)
(* The operation layer of tecnicofs: tfs_open, tfs_write and tfs_close of  *)
(* several threads, over the flat root directory (add_dir_entry and        *)
(* find_in_dir, state.c), the inode table, the global file-creation lock   *)
(* (lock_file_creation) and the open-file table.  operations.c is not in   *)
(* the repository: the order of the calls inside each tfs_* function is    *)
(* the one the spec gives (lock the creation lock when creating, look the  *)
(* name up, create the inode and insert the entry, register the handle).   *)
(*                                                                         *)
(* The open-file table is OpenFileTable itself, instantiated on this       *)
(* module's variables: add_to_open_file_table and                          *)
(* remove_from_open_file_table run step by step with their mutexes, while  *)
(* the thread that called them waits for them to return.                   *)
(*                                                                         *)
(* find_in_dir holds the root's read lock for its whole scan, and the      *)
(* caller of add_dir_entry holds the root's write lock (state.c:375), so   *)
(* a lookup and an insert never overlap and each is one step.  The inode   *)
(* write lock of a truncate or a write is likewise held over one step.     *)
(* Sizes and offsets count whole blocks.                                   *)
(***************************************************************************)
EXTENDS Integers, Sequences, FiniteSets

CONSTANTS
    Threads,            \* threads calling tfs_* (model values)
    Names,              \* file names a caller may use (model values)
    NoName,             \* the name of a handle that is not open
    MAX_DIR_ENTRIES,    \* BLOCK_SIZE / sizeof(dir_entry_t)
    INODE_TABLE_SIZE,   \* size of the inode table
    MAX_OPEN_FILES,     \* size of the open-file table
    MaxFileBlocks,      \* INODE_SIZE_AVAILABLE / BLOCK_SIZE
    NoThread,           \* owner of a free mutex
    Script(_)           \* the calls each thread makes, in order

\* With the sizes of config.h (23 entries, 50 inodes) the creation lock lets
\* at most one unnamed inode exist besides the named ones and the root, so
\* inode_create never finds the table full.
ASSUME /\ MAX_DIR_ENTRIES \in Nat \ {0}
       /\ INODE_TABLE_SIZE > MAX_DIR_ENTRIES + 1
       /\ MaxFileBlocks \in Nat \ {0}
       /\ NoName \notin Names

ROOT_DIR_INUM == 0
FREE == 0
TAKEN == 1
TFS_O_CREAT == "creat"
TFS_O_TRUNC == "trunc"
TFS_O_APPEND == "append"

Inumbers == 0 .. INODE_TABLE_SIZE - 1
Files == Inumbers \ {ROOT_DIR_INUM}
DirSlots == 0 .. MAX_DIR_ENTRIES - 1
Handles == 0 .. MAX_OPEN_FILES - 1

Call == [op : {"open"}, name : Names, flags : SUBSET {TFS_O_CREAT, TFS_O_TRUNC, TFS_O_APPEND}]
        \cup [op : {"write", "read", "close"}]
ASSUME \A t \in Threads : Script(t) \in Seq(Call)

VARIABLES
    create_file_lock,   \* owner of the file-creation mutex
    freeinode_ts,       \* inumber -> FREE | TAKEN
    i_size,             \* inumber -> size in blocks
    dir,                \* the root's entries: slot -> [d_inumber, d_name]
    \* the open-file table (OpenFileTable's variables)
    free_open_file_entries, open_file_table, free_open_file_entries_lock,
    open_files_locks, oft_pc, oft_arg, oft_slot, granted,
    \* the calling threads
    pc,                 \* where a thread is in its current call
    step,               \* index in Script(t) of the current or next call
    inum,               \* the inumber tfs_open resolved or created
    offset,             \* the initial offset tfs_open computed
    fh,                 \* the handle the thread holds, or -1
    opened              \* the name fh was opened for (history)

oft_vars == <<free_open_file_entries, open_file_table, free_open_file_entries_lock,
              open_files_locks, oft_pc, oft_arg, oft_slot, granted>>
fs_vars == <<create_file_lock, freeinode_ts, i_size, dir>>
thread_vars == <<pc, step, inum, offset, fh, opened>>
vars == <<fs_vars, oft_vars, thread_vars>>

OFT == INSTANCE OpenFileTable WITH
         MaxOpenFiles <- MAX_OPEN_FILES,
         Inodes <- Files,
         Offsets <- 0 .. MaxFileBlocks,
         CloseOwnOnly <- FALSE,
         pc <- oft_pc, arg <- oft_arg, slot <- oft_slot

TypeOK ==
    /\ create_file_lock \in Threads \cup {NoThread}
    /\ freeinode_ts \in [Inumbers -> {FREE, TAKEN}]
    /\ i_size \in [Inumbers -> 0 .. MaxFileBlocks]
    /\ dir \in [DirSlots -> [d_inumber : {-1} \cup Files, d_name : Names \cup {NoName}]]
    /\ OFT!TypeOK
    /\ pc \in [Threads -> {"idle", "o_lock", "o_lookup", "o_insert", "o_trunc",
                           "o_add", "o_oft", "c_oft"}]
    /\ step \in [Threads -> Nat \ {0}]
    /\ inum \in [Threads -> Files \cup {-1}]
    /\ offset \in [Threads -> 0 .. MaxFileBlocks]
    /\ fh \in [Threads -> Handles \cup {-1}]
    /\ opened \in [Threads -> Names \cup {NoName}]

\* tfs_init: state_init, then inode_create(T_DIRECTORY) for the root, whose
\* block gets d_inumber = -1 in every entry (the names are the zeroed block).
Init ==
    /\ create_file_lock = NoThread
    /\ freeinode_ts = [i \in Inumbers |-> IF i = ROOT_DIR_INUM THEN TAKEN ELSE FREE]
    /\ i_size = [i \in Inumbers |-> 0]
    /\ dir = [e \in DirSlots |-> [d_inumber |-> -1, d_name |-> NoName]]
    /\ OFT!Init
    /\ pc = [t \in Threads |-> "idle"]
    /\ step = [t \in Threads |-> 1]
    /\ inum = [t \in Threads |-> -1]
    /\ offset = [t \in Threads |-> 0]
    /\ fh = [t \in Threads |-> -1]
    /\ opened = [t \in Threads |-> NoName]

Op(t) == Script(t)[step[t]]
Calling(t, o) == pc[t] = "idle" /\ step[t] <= Len(Script(t)) /\ Op(t).op = o

\* The call returns to the thread's script.
Ret(t) ==
    /\ pc' = [pc EXCEPT ![t] = "idle"]
    /\ step' = [step EXCEPT ![t] = @ + 1]

-----------------------------------------------------------------------------
(* The directory layer.                                                     *)

Used == {e \in DirSlots : dir[e].d_inumber # -1}

\* find_in_dir(ROOT_DIR_INUM, name): the inumber of the first entry in use
\* whose name matches, or -1.
find_in_dir(name) ==
    LET hits == {e \in Used : dir[e].d_name = name} IN
    IF hits = {} THEN -1
    ELSE dir[CHOOSE e \in hits : \A x \in hits : e <= x].d_inumber

\* add_dir_entry(ROOT_DIR_INUM, sub_inumber, name) fills the first entry
\* with d_inumber = -1; FALSE (-1) when every entry is in use.
DirHasRoom == Used # DirSlots
\* Mutant: the first entry is filled whether or not it is in use.
add_dir_entryFirst(sub_inumber, name) ==
    dir' = [dir EXCEPT ![0] = [d_inumber |-> sub_inumber, d_name |-> name]]

add_dir_entry(sub_inumber, name) ==
    LET e == CHOOSE x \in DirSlots \ Used : \A y \in DirSlots \ Used : x <= y IN
    dir' = [dir EXCEPT ![e] = [d_inumber |-> sub_inumber, d_name |-> name]]

-----------------------------------------------------------------------------
(* tfs_open(name, flags)                                                    *)

CallOpen(t) ==
    /\ Calling(t, "open")
    /\ pc' = [pc EXCEPT ![t] = IF TFS_O_CREAT \in Op(t).flags THEN "o_lock" ELSE "o_lookup"]
    /\ UNCHANGED <<fs_vars, oft_vars, step, inum, offset, fh, opened>>

\* Mutant: the creating open goes on without waiting for the creation lock.
OpenLockCreationNoWait(t) ==
    /\ pc[t] = "o_lock"
    /\ create_file_lock' = t
    /\ pc' = [pc EXCEPT ![t] = "o_lookup"]
    /\ UNCHANGED <<freeinode_ts, i_size, dir, oft_vars, step, inum, offset, fh, opened>>

\* lock_file_creation()
OpenLockCreation(t) ==
    /\ pc[t] = "o_lock"
    /\ create_file_lock = NoThread
    /\ create_file_lock' = t
    /\ pc' = [pc EXCEPT ![t] = "o_lookup"]
    /\ UNCHANGED <<freeinode_ts, i_size, dir, oft_vars, step, inum, offset, fh, opened>>

\* unlock_file_creation() on the way out, when the call took it.
Unlock(t) == create_file_lock' = IF create_file_lock = t THEN NoThread ELSE create_file_lock

\* The name is in the directory: truncate it under its write lock, or
\* register it at offset 0, or at its size for TFS_O_APPEND.
LookupFound(t) ==
    LET i == find_in_dir(Op(t).name) IN
    /\ pc[t] = "o_lookup"
    /\ i # -1
    /\ Unlock(t)
    /\ inum' = [inum EXCEPT ![t] = i]
    /\ offset' = [offset EXCEPT ![t] =
                    IF TFS_O_APPEND \in Op(t).flags THEN i_size[i] ELSE 0]
    /\ pc' = [pc EXCEPT ![t] = IF TFS_O_TRUNC \in Op(t).flags THEN "o_trunc" ELSE "o_add"]
    /\ UNCHANGED <<freeinode_ts, i_size, dir, oft_vars, step, fh, opened>>

\* Not found and not creating: -1.
LookupAbsent(t) ==
    /\ pc[t] = "o_lookup"
    /\ find_in_dir(Op(t).name) = -1
    /\ TFS_O_CREAT \notin Op(t).flags
    /\ Ret(t)
    /\ UNCHANGED <<fs_vars, oft_vars, inum, offset, fh, opened>>

\* Not found and creating: inode_create(T_FILE) takes the first FREE
\* inode and makes it an empty file (a free one exists, see the ASSUME).
LookupCreate(t) ==
    LET i == CHOOSE j \in Files : freeinode_ts[j] = FREE /\
                 \A k \in Files : k < j => freeinode_ts[k] = TAKEN
    IN
    /\ pc[t] = "o_lookup"
    /\ find_in_dir(Op(t).name) = -1
    /\ TFS_O_CREAT \in Op(t).flags
    /\ \E j \in Files : freeinode_ts[j] = FREE
    /\ freeinode_ts' = [freeinode_ts EXCEPT ![i] = TAKEN]
    /\ i_size' = [i_size EXCEPT ![i] = 0]
    /\ inum' = [inum EXCEPT ![t] = i]
    /\ pc' = [pc EXCEPT ![t] = "o_insert"]
    /\ UNCHANGED <<create_file_lock, dir, oft_vars, step, offset, fh, opened>>

\* add_dir_entry under the root's write lock; then the creation lock is
\* released and the new file is registered at offset 0.
InsertEntry(t) ==
    /\ pc[t] = "o_insert"
    /\ DirHasRoom
    /\ add_dir_entry(inum[t], Op(t).name)
    /\ Unlock(t)
    /\ offset' = [offset EXCEPT ![t] = 0]
    /\ pc' = [pc EXCEPT ![t] = "o_add"]
    /\ UNCHANGED <<freeinode_ts, i_size, oft_vars, step, inum, fh, opened>>

\* Mutant: the new inode is not deleted when the directory is full.
InsertFullNoRollback(t) ==
    /\ pc[t] = "o_insert"
    /\ ~DirHasRoom
    /\ Unlock(t)
    /\ Ret(t)
    /\ UNCHANGED <<freeinode_ts, i_size, dir, oft_vars, inum, offset, fh, opened>>

\* The directory is full: inode_delete of the new inode, unlock, -1.
InsertFull(t) ==
    /\ pc[t] = "o_insert"
    /\ ~DirHasRoom
    /\ freeinode_ts' = [freeinode_ts EXCEPT ![inum[t]] = FREE]
    /\ Unlock(t)
    /\ Ret(t)
    /\ UNCHANGED <<i_size, dir, oft_vars, inum, offset, fh, opened>>

\* TFS_O_TRUNC on an existing file: free_all_inode_blocks and size 0,
\* under the inode's write lock.
OpenTrunc(t) ==
    /\ pc[t] = "o_trunc"
    /\ i_size' = [i_size EXCEPT ![inum[t]] = 0]
    /\ offset' = [offset EXCEPT ![t] = 0]
    /\ pc' = [pc EXCEPT ![t] = "o_add"]
    /\ UNCHANGED <<create_file_lock, freeinode_ts, dir, oft_vars, step, inum, fh, opened>>

\* add_to_open_file_table(inumber, offset) is called ...
OpenRegister(t) ==
    /\ pc[t] = "o_add"
    /\ OFT!CallAdd(t)
    /\ oft_arg'[t] = [inumber |-> inum[t], offset |-> offset[t]]
    /\ pc' = [pc EXCEPT ![t] = "o_oft"]
    /\ UNCHANGED <<fs_vars, step, inum, offset, fh, opened>>

\* ... and tfs_open returns what it returns: the handle, or -1.
OpenReturn(t) ==
    /\ pc[t] = "o_oft"
    /\ oft_pc[t] = "idle"
    /\ fh' = [fh EXCEPT ![t] =
                IF \E h \in Handles : t \in granted[h]
                THEN CHOOSE h \in Handles : t \in granted[h] ELSE -1]
    /\ opened' = [opened EXCEPT ![t] = IF fh'[t] = -1 THEN NoName ELSE Op(t).name]
    /\ Ret(t)
    /\ UNCHANGED <<fs_vars, oft_vars, inum, offset>>

-----------------------------------------------------------------------------
(* tfs_write and tfs_read of one block, and tfs_close                     *)

\* get_open_file_entry returns NULL for a handle out of range: tfs_write
\* and tfs_read return -1.
BadHandle(t) ==
    /\ Calling(t, "write") \/ Calling(t, "read")
    /\ fh[t] = -1
    /\ Ret(t)
    /\ UNCHANGED <<fs_vars, oft_vars, inum, offset, fh, opened>>

\* Mutant: the block is written whatever the offset, past MaxFileBlocks.
WriteNoCap(t) ==
    LET h == fh[t]
        e == open_file_table[h]
        n == e.of_offset + 1
    IN
    /\ Calling(t, "write")
    /\ h # -1
    /\ open_files_locks[h] = NoThread
    /\ i_size' = [i_size EXCEPT ![e.of_inumber] = IF n > @ THEN n ELSE @]
    /\ open_file_table' = [open_file_table EXCEPT ![h].of_offset = n]
    /\ Ret(t)
    /\ UNCHANGED <<create_file_lock, freeinode_ts, dir, free_open_file_entries,
                   free_open_file_entries_lock, open_files_locks, oft_pc, oft_arg,
                   oft_slot, granted, inum, offset, fh, opened>>

\* open_file_lock(fhandle), the inode's write lock, one block written at
\* the entry's offset (nothing past MaxFileBlocks), offset and size
\* advanced, both unlocked.
Write(t) ==
    LET h == fh[t]
        e == open_file_table[h]
        o == e.of_offset
        n == IF o < MaxFileBlocks THEN o + 1 ELSE o
    IN
    /\ Calling(t, "write")
    /\ h # -1
    /\ open_files_locks[h] = NoThread
    /\ i_size' = [i_size EXCEPT ![e.of_inumber] = IF n > @ THEN n ELSE @]
    /\ open_file_table' = [open_file_table EXCEPT ![h].of_offset = n]
    /\ Ret(t)
    /\ UNCHANGED <<create_file_lock, freeinode_ts, dir, free_open_file_entries,
                   free_open_file_entries_lock, open_files_locks, oft_pc, oft_arg,
                   oft_slot, granted, inum, offset, fh, opened>>

\* open_file_lock(fhandle), the inode's read lock, the block at the offset
\* copied out when it is below the size, the offset advanced past it.
Read(t) ==
    LET h == fh[t]
        e == open_file_table[h]
        o == e.of_offset
    IN
    /\ Calling(t, "read")
    /\ h # -1
    /\ open_files_locks[h] = NoThread
    /\ open_file_table' = [open_file_table EXCEPT ![h].of_offset =
                             IF o < i_size[e.of_inumber] THEN o + 1 ELSE o]
    /\ Ret(t)
    /\ UNCHANGED <<fs_vars, free_open_file_entries, free_open_file_entries_lock,
                   open_files_locks, oft_pc, oft_arg, oft_slot, granted,
                   inum, offset, fh, opened>>

\* remove_from_open_file_table(fhandle) is called ...
CallClose(t) ==
    /\ Calling(t, "close")
    /\ OFT!CallRemove(t)
    /\ oft_arg'[t] = [fhandle |-> fh[t]]
    /\ pc' = [pc EXCEPT ![t] = "c_oft"]
    /\ UNCHANGED <<fs_vars, step, inum, offset, fh, opened>>

\* ... and tfs_close returns; the thread no longer holds the handle.
CloseReturn(t) ==
    /\ pc[t] = "c_oft"
    /\ oft_pc[t] = "idle"
    /\ fh' = [fh EXCEPT ![t] = -1]
    /\ opened' = [opened EXCEPT ![t] = NoName]
    /\ Ret(t)
    /\ UNCHANGED <<fs_vars, oft_vars, inum, offset>>

-----------------------------------------------------------------------------
\* A thread closes only the handle it holds, and once, so its close never
\* finds the entry FREE: RemoveNotTaken is never enabled here.
\* Every thread has run its script: the program ends.
Finished ==
    /\ \A t \in Threads : pc[t] = "idle" /\ step[t] > Len(Script(t))
    /\ UNCHANGED vars

\* One step of thread t: a call, a step inside a call, or a step of the
\* open-file table's add or remove it is running.
ThreadStep(t) ==
    \/ CallOpen(t) \/ OpenLockCreation(t)
    \/ LookupFound(t) \/ LookupAbsent(t) \/ LookupCreate(t)
    \/ InsertEntry(t) \/ InsertFull(t) \/ OpenTrunc(t)
    \/ OpenRegister(t) \/ OpenReturn(t)
    \/ BadHandle(t) \/ Write(t) \/ Read(t)
    \/ CallClose(t) \/ CloseReturn(t)
    \/ OFT!AddLockTable(t) /\ UNCHANGED <<fs_vars, thread_vars>>
    \/ OFT!AddScan(t) /\ UNCHANGED <<fs_vars, thread_vars>>
    \/ OFT!AddFull(t) /\ UNCHANGED <<fs_vars, thread_vars>>
    \/ OFT!AddFill(t) /\ UNCHANGED <<fs_vars, thread_vars>>
    \/ OFT!RemoveInvalid(t) /\ UNCHANGED <<fs_vars, thread_vars>>
    \/ OFT!RemoveLockTable(t) /\ UNCHANGED <<fs_vars, thread_vars>>
    \/ OFT!RemoveTaken(t) /\ UNCHANGED <<fs_vars, thread_vars>>

Next == (\E t \in Threads : ThreadStep(t)) \/ Finished

\* The threads run their scripts to the end, as the test threads do.  A
\* thread is strongly fair: if it can move infinitely often it moves.  At
\* a step that waits for a mutex (the creation lock, an inode lock, the
\* open-file table's mutexes) this is the mutex not starving it; at every
\* other step the thread stays enabled, and strong fairness is then weak
\* fairness.
Fairness == \A t \in Threads : SF_vars(ThreadStep(t))

Spec == Init /\ [][Next]_vars
FairSpec == Spec /\ Fairness

-----------------------------------------------------------------------------
(* Properties                                                               *)

\* The directory and the inode table agree (spec 4.3 and 8, "concurrent
\* open(CREATE)"): no two entries in use carry one name, every entry names
\* a TAKEN file inode, and every TAKEN file inode is named by exactly one
\* entry, unless it is the inode a tfs_open has just created and not yet
\* inserted.  Breaking it takes two creating opens racing on the lookup and
\* the insert, or a full directory whose new inode is not given back.
DirectoryConsistent ==
    /\ \A e1, e2 \in Used : e1 # e2 => dir[e1].d_name # dir[e2].d_name
    /\ \A e \in Used : freeinode_ts[dir[e].d_inumber] = TAKEN
    /\ \A i \in Files : freeinode_ts[i] = TAKEN =>
          \/ Cardinality({e \in Used : dir[e].d_inumber = i}) = 1
          \/ \E t \in Threads : pc[t] = "o_insert" /\ inum[t] = i

\* A handle reaches the file its name resolves to: while a thread holds
\* the handle tfs_open(name) returned, and has not started closing it, the
\* open-file entry is TAKEN and its inumber is what find_in_dir(name)
\* returns now, whatever the other threads have created, opened, written
\* or closed since.  It ties add_to_open_file_table's entry to the
\* directory.
HandleNamesFile ==
    \A t \in Threads :
        fh[t] # -1 /\ pc[t] # "c_oft" =>
            /\ free_open_file_entries[fh[t]] = TAKEN
            /\ open_file_table[fh[t]].of_inumber = find_in_dir(opened[t])

\* Every tfs_open, tfs_write, tfs_read and tfs_close returns: no thread waits for
\* ever on the creation lock or on a mutex of the open-file table.
CallsReturn == \A t \in Threads : pc[t] # "idle" ~> pc[t] = "idle"

=============================================================================
