------------------------- MODULE MC_OpenFileTable -------------------------
(* Instantiates OpenFileTable for TLC.  Threads are model values.          *)
EXTENDS OpenFileTable, TLC

MCInodes == {0, 1}
MCOffsets == {0}
MCSymmetry == Permutations(Threads)
=============================================================================
