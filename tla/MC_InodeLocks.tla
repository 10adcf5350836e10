--------------------------- MODULE MC_InodeLocks ---------------------------
(* Instantiates InodeLocks for TLC.  Threads are model values.             *)
EXTENDS InodeLocks, TLC
=============================================================================
