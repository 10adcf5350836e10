----------------------------- MODULE InodeLocks -----------------------------
(***************************************************************************)
(* The lock protocol of inode_create and inode_delete (state.c): the       *)
(* mutex freeinode_lock over the bitmap freeinode_ts, and the per-inode    *)
(* rwlock inodes_locks[i], taken for writing.  Each call is split at its   *)
(* lock acquisitions, the only points where a thread can block.  Blocks    *)
(* and the inode record are left out: they are covered by InodeBlocks,    *)
(* and free_blocks_lock is taken last, after both locks here.             *)
(***************************************************************************)
EXTENDS Integers

CONSTANTS
    Threads,            \* threads calling into the inode table (model values)
    INODE_TABLE_SIZE,   \* size of inode_table / freeinode_ts
    NoThread            \* an unlocked lock

ROOT_DIR_INUM == 0
FREE == 0
TAKEN == 1
Inumbers == 0 .. INODE_TABLE_SIZE - 1

VARIABLES
    freeinode_ts,       \* the allocation bitmap of the inode table
    freeinode_lock,     \* owner of the bitmap mutex, or NoThread
    inodes_locks,       \* writer of each inode's rwlock, or NoThread
    pc,                 \* where each thread is in its call
    arg                 \* the inumber a thread works on

vars == <<freeinode_ts, freeinode_lock, inodes_locks, pc, arg>>

TypeOK ==
    /\ freeinode_ts \in [Inumbers -> {FREE, TAKEN}]
    /\ freeinode_lock \in Threads \cup {NoThread}
    /\ inodes_locks \in [Inumbers -> Threads \cup {NoThread}]
    /\ pc \in [Threads -> {"idle", "c_lock_table", "c_scan", "c_wlock",
                           "d_lock_table", "d_wlock"}]
    /\ arg \in [Threads -> Inumbers \cup {-1}]

\* After state_init and tfs_init: every rwlock initialised, the root
\* directory created and unlocked, every other inode FREE.
Init ==
    /\ freeinode_ts = [i \in Inumbers |-> IF i = ROOT_DIR_INUM THEN TAKEN ELSE FREE]
    /\ freeinode_lock = NoThread
    /\ inodes_locks = [i \in Inumbers |-> NoThread]
    /\ pc = [t \in Threads |-> "idle"]
    /\ arg = [t \in Threads |-> -1]

\* pthread_rwlock_wrlock(&inodes_locks[i]) can return for t: the lock is
\* free, or t already holds it for writing, where glibc returns EDEADLK
\* (ignored by every caller) instead of blocking.
CanWriteLock(t, i) == inodes_locks[i] \in {NoThread, t}

----------------------------------------------------------------------------
(* inode_create(T_FILE)                                                    *)

CallCreate(t) ==
    /\ pc[t] = "idle"
    /\ pc' = [pc EXCEPT ![t] = "c_lock_table"]
    /\ arg' = [arg EXCEPT ![t] = -1]
    /\ UNCHANGED <<freeinode_ts, freeinode_lock, inodes_locks>>

CreateLockTable(t) ==
    /\ pc[t] = "c_lock_table"
    /\ freeinode_lock = NoThread
    /\ freeinode_lock' = t
    /\ pc' = [pc EXCEPT ![t] = "c_scan"]
    /\ UNCHANGED <<freeinode_ts, inodes_locks, arg>>

\* The scan for the first FREE entry runs under freeinode_lock, which
\* every writer of freeinode_ts holds, so it is one step.
CreateScan(t) ==
    /\ pc[t] = "c_scan"
    /\ \E i \in Inumbers : freeinode_ts[i] = FREE
    /\ arg' = [arg EXCEPT ![t] =
                 CHOOSE i \in Inumbers : freeinode_ts[i] = FREE /\
                     \A j \in Inumbers : j < i => freeinode_ts[j] = TAKEN]
    /\ pc' = [pc EXCEPT ![t] = "c_wlock"]
    /\ UNCHANGED <<freeinode_ts, freeinode_lock, inodes_locks>>

\* No FREE entry: unlock the bitmap and return -1.
CreateFull(t) ==
    /\ pc[t] = "c_scan"
    /\ \A i \in Inumbers : freeinode_ts[i] = TAKEN
    /\ freeinode_lock' = NoThread
    /\ pc' = [pc EXCEPT ![t] = "idle"]
    /\ UNCHANGED <<freeinode_ts, inodes_locks, arg>>

\* inode_write_lock(inumber), mark TAKEN, set up an empty file, then
\* inode_unlock and free_inode_table_unlock, and return the inumber.
CreateTake(t) ==
    LET i == arg[t] IN
    /\ pc[t] = "c_wlock"
    /\ CanWriteLock(t, i)
    /\ freeinode_ts' = [freeinode_ts EXCEPT ![i] = TAKEN]
    /\ inodes_locks' = [inodes_locks EXCEPT ![i] = NoThread]
    /\ freeinode_lock' = NoThread
    /\ pc' = [pc EXCEPT ![t] = "idle"]
    /\ UNCHANGED arg

----------------------------------------------------------------------------
(* inode_delete(inumber)                                                   *)

\* The inumbers a caller passes; Victims is a subset of Inumbers.
CallDelete(t, Victims) ==
    /\ pc[t] = "idle"
    /\ \E i \in Victims :
          /\ arg' = [arg EXCEPT ![t] = i]
          /\ pc' = [pc EXCEPT ![t] = "d_lock_table"]
    /\ UNCHANGED <<freeinode_ts, freeinode_lock, inodes_locks>>

DeleteLockTable(t) ==
    /\ pc[t] = "d_lock_table"
    /\ freeinode_lock = NoThread
    /\ freeinode_lock' = t
    /\ pc' = [pc EXCEPT ![t] = "d_wlock"]
    /\ UNCHANGED <<freeinode_ts, inodes_locks, arg>>

\* inode_write_lock, then the entry is FREE: free_inode_table_unlock and
\* return -1, without inode_unlock.
DeleteFree(t) ==
    LET i == arg[t] IN
    /\ pc[t] = "d_wlock"
    /\ CanWriteLock(t, i)
    /\ freeinode_ts[i] = FREE
    /\ inodes_locks' = [inodes_locks EXCEPT ![i] = t]
    /\ freeinode_lock' = NoThread
    /\ pc' = [pc EXCEPT ![t] = "idle"]
    /\ UNCHANGED <<freeinode_ts, arg>>

\* inode_write_lock, mark FREE, free_all_inode_blocks, inode_unlock,
\* free_inode_table_unlock, return 0.
DeleteTaken(t) ==
    LET i == arg[t] IN
    /\ pc[t] = "d_wlock"
    /\ CanWriteLock(t, i)
    /\ freeinode_ts[i] = TAKEN
    /\ freeinode_ts' = [freeinode_ts EXCEPT ![i] = FREE]
    /\ inodes_locks' = [inodes_locks EXCEPT ![i] = NoThread]
    /\ freeinode_lock' = NoThread
    /\ pc' = [pc EXCEPT ![t] = "idle"]
    /\ UNCHANGED arg

----------------------------------------------------------------------------
\* Callers never delete the root directory.
Next ==
    \E t \in Threads :
        \/ CallCreate(t) \/ CreateLockTable(t) \/ CreateScan(t)
        \/ CreateFull(t) \/ CreateTake(t)
        \/ CallDelete(t, Inumbers \ {ROOT_DIR_INUM})
        \/ DeleteLockTable(t) \/ DeleteFree(t) \/ DeleteTaken(t)

\* Lock acquisitions are strongly fair (a waiter is enabled and disabled
\* as the owner changes); the scan is weakly fair; calls are not fair.
Fairness ==
    \A t \in Threads :
        /\ SF_vars(CreateLockTable(t)) /\ SF_vars(DeleteLockTable(t))
        /\ SF_vars(CreateTake(t)) /\ SF_vars(DeleteFree(t) \/ DeleteTaken(t))
        /\ WF_vars(CreateScan(t) \/ CreateFull(t))

Spec == Init /\ [][Next]_vars
FairSpec == Spec /\ Fairness

----------------------------------------------------------------------------
\* Every call of inode_create or inode_delete returns: no thread blocks
\* forever on freeinode_lock or on an inode's rwlock, whatever order the
\* threads create and delete in, including a delete of an inode that is
\* already FREE (the spec's "errors if the inode is already FREE").
CallsReturn == \A t \in Threads : pc[t] # "idle" ~> pc[t] = "idle"

====
