------------------------------ MODULE MC_TfsOps ------------------------------
(* Instantiates TfsOps for TLC: two threads, the scripts below, a           *)
(* directory of two entries and an open-file table of one entry, so a      *)
(* third name finds the directory full and two opens contend for the one   *)
(* handle.                                                                  *)
EXTENDS TfsOps, TLC

Open(n, f) == [op |-> "open", name |-> n, flags |-> f]
W == [op |-> "write"]
C == [op |-> "close"]
R == [op |-> "read"]

\* t1 creates n2, then creates n1 and writes it twice (the second write
\* finds the file at its capacity), and opens n1 again with truncation and
\* reads it.  t2 opens n1 for appending (found or not, depending on t1, and
\* at offset 1 once t1 has written), writes and reads, creates n2 too (one
\* of the two creates it, the other finds it, whichever is first), and
\* creates n3; of n1 and n3 the later finds the directory full.
MCScript(t) ==
    IF t = "t1"
    THEN <<Open("n2", {TFS_O_CREAT}), C, Open("n1", {TFS_O_CREAT}), W, W, C,
           Open("n1", {TFS_O_TRUNC}), R, C>>
    ELSE <<Open("n1", {TFS_O_APPEND}), W, R, C, Open("n2", {TFS_O_CREAT}), W, C,
           Open("n3", {TFS_O_CREAT}), C>>
=============================================================================
