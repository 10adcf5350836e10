-------------------------- MODULE MC_InodeBlocks --------------------------
(* Instantiates InodeBlocks for TLC with two direct slots and two entries  *)
(* per indirect block, so a file crosses into the indirect block at its    *)
(* third block and is full at its fourth.                                  *)
EXTENDS InodeBlocks, TLC
=============================================================================
