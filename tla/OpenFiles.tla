----------------------------- MODULE OpenFiles -----------------------------
(***************************************************************************)
(* What the open-file table promises (spec 3, 4.4 and 8): open registers   *)
(* an (inumber, offset) entry under the lowest handle that is not taken    *)
(* and gives it to its caller, or fails when every handle is taken; close  *)
(* of a taken handle frees exactly that handle; both happen at once, so a  *)
(* handle is never given to two callers.  A failed call changes nothing.  *)
(***************************************************************************)
EXTENDS Integers

CONSTANTS
    Threads,        \* callers
    MaxOpenFiles,   \* MAX_OPEN_FILES
    Inodes,         \* inumbers a caller may register
    Offsets         \* initial offsets a caller may register

Handles == 0 .. MaxOpenFiles - 1

VARIABLES
    taken,          \* handle -> BOOLEAN
    entry,          \* handle -> [of_inumber, of_offset]
    holders         \* handle -> the callers it was given to since it was freed

vars == <<taken, entry, holders>>

Init ==
    /\ taken = [h \in Handles |-> FALSE]
    /\ entry = [h \in Handles |-> [of_inumber |-> 0, of_offset |-> 0]]
    /\ holders = [h \in Handles |-> {}]

\* The lowest handle that is not taken.
Lowest == CHOOSE h \in Handles : ~taken[h] /\ \A g \in Handles : g < h => taken[g]

Open(t, i, o) ==
    /\ \E h \in Handles : ~taken[h]
    /\ taken' = [taken EXCEPT ![Lowest] = TRUE]
    /\ entry' = [entry EXCEPT ![Lowest] = [of_inumber |-> i, of_offset |-> o]]
    /\ holders' = [holders EXCEPT ![Lowest] = {t}]

Close(h) ==
    /\ taken[h]
    /\ taken' = [taken EXCEPT ![h] = FALSE]
    /\ holders' = [holders EXCEPT ![h] = {}]
    /\ UNCHANGED entry

Next ==
    \/ \E t \in Threads, i \in Inodes, o \in Offsets : Open(t, i, o)
    \/ \E h \in Handles : Close(h)

Spec == Init /\ [][Next]_vars

=============================================================================
