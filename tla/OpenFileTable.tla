--------------------------- MODULE OpenFileTable ---------------------------
(***************************************************************************)
(* The open-file table of tecnicofs (src/tecnicofs/fs/state.c): a fixed    *)
(* array of (inumber, offset) entries, the free/taken bitmap              *)
(* free_open_file_entries guarded by free_open_file_entries_lock, and one  *)
(* mutex per entry (open_files_locks).  Threads call                       *)
(* add_to_open_file_table and remove_from_open_file_table concurrently;   *)
(* every lock acquisition is a step of its own, so a thread can block on   *)
(* a mutex held by another thread.                                         *)
(***************************************************************************)
EXTENDS Integers, FiniteSets

CONSTANTS
    Threads,        \* the threads calling into the table
    MaxOpenFiles,   \* MAX_OPEN_FILES (config.h)
    Inodes,         \* inumbers a caller may register
    Offsets,        \* initial offsets a caller may register
    NoThread,       \* owner of a free mutex
    CloseOwnOnly    \* TRUE: a thread closes only a handle it was given

ASSUME /\ MaxOpenFiles \in Nat \ {0}
       /\ NoThread \notin Threads
       /\ CloseOwnOnly \in BOOLEAN

Handles == 0 .. MaxOpenFiles - 1
FREE == 0
TAKEN == 1

VARIABLES
    free_open_file_entries,       \* handle -> FREE | TAKEN
    open_file_table,              \* handle -> [of_inumber, of_offset]
    free_open_file_entries_lock,  \* owner of the bitmap mutex
    open_files_locks,             \* handle -> owner of the entry mutex
    pc,                           \* thread -> its position in a call
    arg,                          \* thread -> the call's arguments
    slot,                         \* thread -> handle being filled by add
    granted                       \* handle -> threads that were returned it (history)

vars == <<free_open_file_entries, open_file_table, free_open_file_entries_lock,
          open_files_locks, pc, arg, slot, granted>>

Entry == [of_inumber : Inodes \cup {0}, of_offset : Offsets \cup {0}]
Arg == [inumber : Inodes, offset : Offsets] \cup [fhandle : {-1} \cup Handles]

TypeOK ==
    /\ free_open_file_entries \in [Handles -> {FREE, TAKEN}]
    /\ open_file_table \in [Handles -> Entry]
    /\ free_open_file_entries_lock \in Threads \cup {NoThread}
    /\ open_files_locks \in [Handles -> Threads \cup {NoThread}]
    /\ pc \in [Threads -> {"idle", "add_lock", "add_scan", "add_entry",
                           "rm_lock", "rm_entry"}]
    /\ arg \in [Threads -> Arg \cup {<<>>}]
    /\ slot \in [Threads -> Handles \cup {-1}]
    /\ granted \in [Handles -> SUBSET Threads]

\* state_init: every entry FREE, every mutex unlocked; the static table is
\* zero-initialised.
Init ==
    /\ free_open_file_entries = [h \in Handles |-> FREE]
    /\ open_file_table = [h \in Handles |-> [of_inumber |-> 0, of_offset |-> 0]]
    /\ free_open_file_entries_lock = NoThread
    /\ open_files_locks = [h \in Handles |-> NoThread]
    /\ pc = [t \in Threads |-> "idle"]
    /\ arg = [t \in Threads |-> <<>>]
    /\ slot = [t \in Threads |-> -1]
    /\ granted = [h \in Handles |-> {}]

Return(t) ==
    /\ pc' = [pc EXCEPT ![t] = "idle"]
    /\ arg' = [arg EXCEPT ![t] = <<>>]
    /\ slot' = [slot EXCEPT ![t] = -1]

-----------------------------------------------------------------------------
(* add_to_open_file_table(inumber, offset)                                  *)

CallAdd(t) ==
    /\ pc[t] = "idle"
    /\ \E i \in Inodes, o \in Offsets :
          arg' = [arg EXCEPT ![t] = [inumber |-> i, offset |-> o]]
    /\ pc' = [pc EXCEPT ![t] = "add_lock"]
    /\ UNCHANGED <<free_open_file_entries, open_file_table,
                   free_open_file_entries_lock, open_files_locks, slot, granted>>

\* free_open_file_entries_table_lock()
AddLockTable(t) ==
    /\ pc[t] = "add_lock"
    /\ free_open_file_entries_lock = NoThread
    /\ free_open_file_entries_lock' = t
    /\ pc' = [pc EXCEPT ![t] = "add_scan"]
    /\ UNCHANGED <<free_open_file_entries, open_file_table, open_files_locks,
                   arg, slot, granted>>

\* Mutant: the scan takes the last FREE entry instead of the first.
FirstFreeLast == CHOOSE h \in Handles :
                     /\ free_open_file_entries[h] = FREE
                     /\ \A g \in Handles : g > h => free_open_file_entries[g] = TAKEN

FirstFree == CHOOSE h \in Handles :
                 /\ free_open_file_entries[h] = FREE
                 /\ \A g \in Handles : g < h => free_open_file_entries[g] = TAKEN

\* Mutant: the scan returns the first FREE entry without marking it TAKEN.
AddScanNoMark(t) ==
    /\ pc[t] = "add_scan"
    /\ \E h \in Handles : free_open_file_entries[h] = FREE
    /\ slot' = [slot EXCEPT ![t] = FirstFree]
    /\ pc' = [pc EXCEPT ![t] = "add_entry"]
    /\ UNCHANGED <<free_open_file_entries, open_file_table, free_open_file_entries_lock,
                   open_files_locks, arg, granted>>

\* The scan for the first FREE entry, under the bitmap mutex: mark it TAKEN.
AddScan(t) ==
    /\ pc[t] = "add_scan"
    /\ \E h \in Handles : free_open_file_entries[h] = FREE
    /\ free_open_file_entries' = [free_open_file_entries EXCEPT ![FirstFree] = TAKEN]
    /\ slot' = [slot EXCEPT ![t] = FirstFree]
    /\ pc' = [pc EXCEPT ![t] = "add_entry"]
    /\ UNCHANGED <<open_file_table, free_open_file_entries_lock, open_files_locks,
                   arg, granted>>

\* No FREE entry: unlock the bitmap and return -1.
AddFull(t) ==
    /\ pc[t] = "add_scan"
    /\ \A h \in Handles : free_open_file_entries[h] = TAKEN
    /\ free_open_file_entries_lock' = NoThread
    /\ Return(t)
    /\ UNCHANGED <<free_open_file_entries, open_file_table, open_files_locks, granted>>

\* Mutant: the entry is filled with inumber and offset swapped.
AddFillSwapped(t) ==
    /\ pc[t] = "add_entry"
    /\ open_files_locks[slot[t]] = NoThread
    /\ open_file_table' = [open_file_table EXCEPT ![slot[t]] =
                             [of_inumber |-> arg[t].offset, of_offset |-> arg[t].inumber]]
    /\ free_open_file_entries_lock' = NoThread
    /\ granted' = [granted EXCEPT ![slot[t]] = @ \cup {t}]
    /\ Return(t)
    /\ UNCHANGED <<free_open_file_entries, open_files_locks>>

\* open_file_lock(i); fill the entry; open_file_unlock(i); unlock the bitmap;
\* return i.
AddFill(t) ==
    /\ pc[t] = "add_entry"
    /\ open_files_locks[slot[t]] = NoThread
    /\ open_file_table' = [open_file_table EXCEPT ![slot[t]] =
                             [of_inumber |-> arg[t].inumber, of_offset |-> arg[t].offset]]
    /\ free_open_file_entries_lock' = NoThread
    /\ granted' = [granted EXCEPT ![slot[t]] = @ \cup {t}]
    /\ Return(t)
    /\ UNCHANGED <<free_open_file_entries, open_files_locks>>

-----------------------------------------------------------------------------
(* remove_from_open_file_table(fhandle)                                     *)

CloseCandidates(t) ==
    IF CloseOwnOnly THEN {h \in Handles : t \in granted[h]} ELSE {-1} \cup Handles

CallRemove(t) ==
    /\ pc[t] = "idle"
    /\ \E h \in CloseCandidates(t) : arg' = [arg EXCEPT ![t] = [fhandle |-> h]]
    /\ pc' = [pc EXCEPT ![t] = "rm_lock"]
    /\ UNCHANGED <<free_open_file_entries, open_file_table,
                   free_open_file_entries_lock, open_files_locks, slot, granted>>

\* !valid_file_handle(fhandle): return -1 before taking any lock.
RemoveInvalid(t) ==
    /\ pc[t] = "rm_lock"
    /\ arg[t].fhandle \notin Handles
    /\ Return(t)
    /\ UNCHANGED <<free_open_file_entries, open_file_table,
                   free_open_file_entries_lock, open_files_locks, granted>>

RemoveLockTable(t) ==
    /\ pc[t] = "rm_lock"
    /\ arg[t].fhandle \in Handles
    /\ free_open_file_entries_lock = NoThread
    /\ free_open_file_entries_lock' = t
    /\ pc' = [pc EXCEPT ![t] = "rm_entry"]
    /\ UNCHANGED <<free_open_file_entries, open_file_table, open_files_locks,
                   arg, slot, granted>>

\* Mutant: the entry is not marked FREE again.
RemoveTakenKeepsBit(t) ==
    LET h == arg[t].fhandle IN
    /\ pc[t] = "rm_entry"
    /\ open_files_locks[h] = NoThread
    /\ free_open_file_entries[h] = TAKEN
    /\ free_open_file_entries_lock' = NoThread
    /\ granted' = [granted EXCEPT ![h] = {}]
    /\ Return(t)
    /\ UNCHANGED <<free_open_file_entries, open_file_table, open_files_locks>>

\* Mutant: open_file_unlock(fhandle) is missing on the success path.
RemoveTakenKeepsLock(t) ==
    LET h == arg[t].fhandle IN
    /\ pc[t] = "rm_entry"
    /\ open_files_locks[h] = NoThread
    /\ free_open_file_entries[h] = TAKEN
    /\ free_open_file_entries' = [free_open_file_entries EXCEPT ![h] = FREE]
    /\ open_files_locks' = [open_files_locks EXCEPT ![h] = t]
    /\ free_open_file_entries_lock' = NoThread
    /\ granted' = [granted EXCEPT ![h] = {}]
    /\ Return(t)
    /\ UNCHANGED <<open_file_table>>

\* open_file_lock(fhandle), then the entry is marked FREE and both mutexes
\* are released; return 0.
RemoveTaken(t) ==
    LET h == arg[t].fhandle IN
    /\ pc[t] = "rm_entry"
    /\ open_files_locks[h] = NoThread
    /\ free_open_file_entries[h] = TAKEN
    /\ free_open_file_entries' = [free_open_file_entries EXCEPT ![h] = FREE]
    /\ free_open_file_entries_lock' = NoThread
    /\ granted' = [granted EXCEPT ![h] = {}]
    /\ Return(t)
    /\ UNCHANGED <<open_file_table, open_files_locks>>

\* open_file_lock(fhandle), the entry is not TAKEN: the bitmap mutex is
\* released and -1 returned; the entry mutex is left locked by t.
RemoveNotTaken(t) ==
    LET h == arg[t].fhandle IN
    /\ pc[t] = "rm_entry"
    /\ open_files_locks[h] = NoThread
    /\ free_open_file_entries[h] # TAKEN
    /\ open_files_locks' = [open_files_locks EXCEPT ![h] = t]
    /\ free_open_file_entries_lock' = NoThread
    /\ Return(t)
    /\ UNCHANGED <<free_open_file_entries, open_file_table, granted>>

-----------------------------------------------------------------------------
Next ==
    \E t \in Threads :
        \/ CallAdd(t) \/ AddLockTable(t) \/ AddScan(t) \/ AddFull(t) \/ AddFill(t)
        \/ CallRemove(t) \/ RemoveInvalid(t) \/ RemoveLockTable(t)
        \/ RemoveTaken(t) \/ RemoveNotTaken(t)

\* A thread blocked on a mutex is only intermittently enabled: the steps
\* that acquire a mutex are strongly fair, the others weakly fair.  Making a
\* call (CallAdd, CallRemove) is the client's choice and carries no fairness.
Fairness ==
    \A t \in Threads :
        /\ SF_vars(AddLockTable(t)) /\ SF_vars(RemoveLockTable(t))
        /\ SF_vars(AddFill(t)) /\ SF_vars(RemoveTaken(t)) /\ SF_vars(RemoveNotTaken(t))
        /\ WF_vars(AddScan(t)) /\ WF_vars(AddFull(t)) /\ WF_vars(RemoveInvalid(t))

Spec == Init /\ [][Next]_vars
FairSpec == Spec /\ Fairness

-----------------------------------------------------------------------------
(* Properties                                                               *)

\* Allocation exclusivity (spec 8, "Exhaustion"): a handle returned by
\* add_to_open_file_table is returned to one caller only until a
\* remove_from_open_file_table of it succeeds, and while it is out it is
\* TAKEN in the bitmap.
HandleExclusive ==
    \A h \in Handles :
        /\ Cardinality(granted[h]) <= 1
        /\ granted[h] # {} => free_open_file_entries[h] = TAKEN

\* No slot is TAKEN without an owner: each TAKEN entry either was returned
\* to a caller or is being filled by an add still in progress.  Violated
\* when a slot is lost to every caller, which is how the table leaks
\* towards exhaustion.
NoLeakedSlot ==
    \A h \in Handles :
        free_open_file_entries[h] = TAKEN =>
            granted[h] # {} \/ \E t \in Threads : pc[t] = "add_entry" /\ slot[t] = h

\* The table implements OpenFiles, where open and close are atomic.  An add
\* takes effect at its scan (the entry is TAKEN from then on, and is the
\* caller's with the caller's inumber and offset while it is filled); a
\* remove takes effect when it marks the entry FREE; every other step, and
\* every failed call, changes nothing abstract.  It is violated when two
\* adds share a handle, when an add does not take the lowest FREE handle
\* (the reuse of handle 0 in spec 8's scenario), when a remove frees a
\* handle other than its own, or when an entry's contents change while it
\* is TAKEN.
Filling(h) == {t \in Threads : pc[t] = "add_entry" /\ slot[t] = h}

AbstractEntry(h) ==
    IF Filling(h) = {} THEN open_file_table[h]
    ELSE LET t == CHOOSE x \in Filling(h) : TRUE
         IN [of_inumber |-> arg[t].inumber, of_offset |-> arg[t].offset]

OF == INSTANCE OpenFiles WITH
        taken <- [h \in Handles |-> free_open_file_entries[h] = TAKEN],
        entry <- [h \in Handles |-> AbstractEntry(h)],
        holders <- [h \in Handles |-> granted[h] \cup Filling(h)]

OpenFilesRefinement == OF!Spec

\* Every call into the table returns: a thread never stays blocked on one
\* of the table's mutexes (the lock-order and unlock discipline of
\* add_to_open_file_table and remove_from_open_file_table).
CallsReturn == \A t \in Threads : pc[t] # "idle" ~> pc[t] = "idle"

=============================================================================
