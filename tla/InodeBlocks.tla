---------------------------- MODULE InodeBlocks ----------------------------
(***************************************************************************)
(* The storage engine of tecnicofs (src/tecnicofs/fs/state.c): the inode   *)
(* table with its free/taken bitmap, the block store (fs_data as an array  *)
(* of int-sized words, free_blocks), and the two-level index of a file     *)
(* (LEVEL0_BLOCK_NUM direct slots and one indirect block of               *)
(* INDECES_PER_BLOCK block numbers).                                       *)
(*                                                                         *)
(* Each action is one whole call made under the locks of the lock          *)
(* hierarchy (freeinode_lock -> inode rwlock -> free_blocks_lock), so the  *)
(* calls are serialisable and each is one atomic step here; the lock       *)
(* protocol itself is in InodeLocks.  The file operations that drive       *)
(* these calls (tfs_open's truncate, tfs_write's block-by-block append)    *)
(* are not under src/ and follow the spec.  Sizes are counted in whole     *)
(* blocks: a write appends one block of data.                              *)
(***************************************************************************)
EXTENDS Integers, Sequences, FiniteSetsExt

CONSTANTS
    DATA_BLOCKS,        \* blocks in fs_data
    LEVEL0_BLOCK_NUM,   \* direct slots of an inode
    INDECES_PER_BLOCK,  \* block numbers in an indirect block (BLOCK_SIZE / sizeof(int))
    INODE_TABLE_SIZE,   \* slots of the inode table
    Payloads            \* the data a write may put in a block (ints, not -1)

ASSUME /\ DATA_BLOCKS \in Nat \ {0}
       /\ LEVEL0_BLOCK_NUM \in Nat \ {0}
       /\ INDECES_PER_BLOCK \in Nat \ {0}
       /\ INODE_TABLE_SIZE \in 2 .. 9
       /\ Payloads \subseteq Int /\ -1 \notin Payloads

ROOT_DIR_INUM == 0
FREE == 0
TAKEN == 1
T_FILE == 0
T_DIRECTORY == 1
\* BLOCK_SIZE in bytes: an indirect block holds BLOCK_SIZE / sizeof(int) words.
BLOCK_SIZE == 4 * INDECES_PER_BLOCK
\* INODE_SIZE_AVAILABLE / BLOCK_SIZE: the most blocks a file can index.
MaxFileBlocks == LEVEL0_BLOCK_NUM + INDECES_PER_BLOCK
\* the indirect slot, i_data_blocks[INODE_BLOCK_NUM - 1]
IND == LEVEL0_BLOCK_NUM

Inumbers == 0 .. INODE_TABLE_SIZE - 1
Blocks == 0 .. DATA_BLOCKS - 1
Slots == 0 .. IND
\* fs_data as int words: word k of block b is at Addr(b, k).
Addr(b, k) == b * INDECES_PER_BLOCK + k
Words == 0 .. DATA_BLOCKS * INDECES_PER_BLOCK - 1
VARIABLES
    freeinode_ts,   \* inumber -> FREE | TAKEN
    inode_table,    \* inumber -> [i_node_type, i_size (blocks), i_data_blocks]
    free_blocks,    \* block -> FREE | TAKEN
    fs_data,        \* word -> int
    ub,             \* the program has done something undefined and stopped
    contents        \* inumber -> the payloads written to the file, in order (history)

vars == <<freeinode_ts, inode_table, free_blocks, fs_data, ub, contents>>

Inode == [i_node_type : {T_FILE, T_DIRECTORY}, i_size : 0 .. MaxFileBlocks,
          i_data_blocks : [Slots -> {-1} \cup Blocks]]

TypeOK ==
    /\ freeinode_ts \in [Inumbers -> {FREE, TAKEN}]
    /\ inode_table \in [Inumbers -> Inode]
    /\ free_blocks \in [Blocks -> {FREE, TAKEN}]
    /\ fs_data \in [Words -> Int]
    /\ ub \in BOOLEAN
    /\ contents \in [Inumbers -> Seq(Payloads)]

valid_block_number(b) == b \in Blocks

\* data_block_alloc over bitmap fb: the first FREE block, or -1.
Alloc(fb) == IF \E b \in Blocks : fb[b] = FREE
             THEN Min({b \in Blocks : fb[b] = FREE})
             ELSE -1

\* Mutant: "position <= LEVEL0_BLOCK_NUM" reads the indirect slot as a block.
DataBlockGetOffByOne(pos, ino, tab, data) ==
    IF pos >= MaxFileBlocks THEN -1
    ELSE IF pos <= LEVEL0_BLOCK_NUM THEN tab[ino].i_data_blocks[pos]
    ELSE IF tab[ino].i_data_blocks[IND] = -1 THEN -1
    ELSE data[Addr(tab[ino].i_data_blocks[IND], pos - LEVEL0_BLOCK_NUM)]

\* inode_data_block_get(position, inumber) over a table and fs_data.
DataBlockGet(pos, ino, tab, data) ==
    IF pos >= MaxFileBlocks THEN -1
    ELSE IF pos < LEVEL0_BLOCK_NUM THEN tab[ino].i_data_blocks[pos]
    ELSE IF tab[ino].i_data_blocks[IND] = -1 THEN -1
    ELSE data[Addr(tab[ino].i_data_blocks[IND], pos - LEVEL0_BLOCK_NUM)]

\* The state tfs_init leaves: state_init, then inode_create(T_DIRECTORY) for
\* the root, which takes inode 0 and block 0 and writes -1 in its entries.
\* The static tables are zero, and a directory only sets slot 0.
Init ==
    /\ freeinode_ts = [i \in Inumbers |-> IF i = ROOT_DIR_INUM THEN TAKEN ELSE FREE]
    /\ inode_table = [i \in Inumbers |->
          IF i = ROOT_DIR_INUM
          THEN [i_node_type |-> T_DIRECTORY, i_size |-> 1,
                i_data_blocks |-> [s \in Slots |-> 0]]
          ELSE [i_node_type |-> T_FILE, i_size |-> 0,
                i_data_blocks |-> [s \in Slots |-> 0]]]
    /\ free_blocks = [b \in Blocks |-> IF b = 0 THEN TAKEN ELSE FREE]
    /\ fs_data = [w \in Words |-> IF w < INDECES_PER_BLOCK THEN -1 ELSE 0]
    /\ ub = FALSE
    /\ contents = [i \in Inumbers |-> <<>>]

-----------------------------------------------------------------------------
(* inode_create(T_FILE): the first FREE inode becomes an empty file.        *)
inode_create ==
    /\ ~ub
    /\ \E i \in Inumbers : freeinode_ts[i] = FREE
    /\ LET i == Min({j \in Inumbers : freeinode_ts[j] = FREE}) IN
       /\ freeinode_ts' = [freeinode_ts EXCEPT ![i] = TAKEN]
       /\ inode_table' = [inode_table EXCEPT ![i] =
              [i_node_type |-> T_FILE, i_size |-> 0,
               i_data_blocks |-> [s \in Slots |-> -1]]]
       /\ contents' = [contents EXCEPT ![i] = <<>>]
    /\ UNCHANGED <<free_blocks, fs_data, ub>>

-----------------------------------------------------------------------------
(* free_all_inode_blocks(inumber): the direct slots in order, each set to   *)
(* -1 and its block freed, then the indirect block's entries up to the      *)
(* first -1, then the indirect block.  An invalid block number stops it     *)
(* with -1, leaving what was freed so far freed.                            *)
\* Mutant: the indirect block itself is never freed.
FreeAllKeepsIndirect(ino, tab, fb, data) ==
    LET d == tab[ino].i_data_blocks
        badD == {s \in 0 .. IND - 1 : d[s] # -1 /\ ~valid_block_number(d[s])}
        stopD == IF badD = {} THEN IND ELSE Min(badD)
        freedD == {d[s] : s \in {x \in 0 .. stopD - 1 : d[x] # -1}}
        dD == [s \in Slots |-> IF s < IND /\ s <= stopD THEN -1 ELSE d[s]]
        ib == d[IND]
        run == Min({j \in 0 .. INDECES_PER_BLOCK - 1 : data[Addr(ib, j)] = -1}
                   \cup {INDECES_PER_BLOCK})
        badI == {j \in 0 .. run - 1 : ~valid_block_number(data[Addr(ib, j)])}
        stopI == IF badI = {} THEN run ELSE Min(badI)
        freedI == {data[Addr(ib, j)] : j \in 0 .. stopI - 1}
    IN  IF badD # {} \/ ib = -1
        THEN [ok |-> badD = {}, blocks |-> dD,
              free |-> [b \in Blocks |-> IF b \in freedD THEN FREE ELSE fb[b]]]
        ELSE IF ~valid_block_number(ib) \/ badI # {}
        THEN [ok |-> FALSE, blocks |-> dD,
              free |-> [b \in Blocks |-> IF b \in freedD \cup freedI THEN FREE ELSE fb[b]]]
        ELSE [ok |-> TRUE, blocks |-> [dD EXCEPT ![IND] = -1],
              free |-> [b \in Blocks |->
                          IF b \in freedD \cup freedI THEN FREE ELSE fb[b]]]

FreeAll(ino, tab, fb, data) ==
    LET d == tab[ino].i_data_blocks
        badD == {s \in 0 .. IND - 1 : d[s] # -1 /\ ~valid_block_number(d[s])}
        stopD == IF badD = {} THEN IND ELSE Min(badD)
        freedD == {d[s] : s \in {x \in 0 .. stopD - 1 : d[x] # -1}}
        dD == [s \in Slots |-> IF s < IND /\ s <= stopD THEN -1 ELSE d[s]]
        ib == d[IND]
        run == Min({j \in 0 .. INDECES_PER_BLOCK - 1 : data[Addr(ib, j)] = -1}
                   \cup {INDECES_PER_BLOCK})
        badI == {j \in 0 .. run - 1 : ~valid_block_number(data[Addr(ib, j)])}
        stopI == IF badI = {} THEN run ELSE Min(badI)
        freedI == {data[Addr(ib, j)] : j \in 0 .. stopI - 1}
    IN  IF badD # {} \/ ib = -1
        THEN [ok |-> badD = {}, blocks |-> dD,
              free |-> [b \in Blocks |-> IF b \in freedD THEN FREE ELSE fb[b]]]
        ELSE IF ~valid_block_number(ib) \/ badI # {}
        THEN [ok |-> FALSE, blocks |-> dD,
              free |-> [b \in Blocks |-> IF b \in freedD \cup freedI THEN FREE ELSE fb[b]]]
        ELSE [ok |-> TRUE, blocks |-> [dD EXCEPT ![IND] = -1],
              free |-> [b \in Blocks |->
                          IF b \in freedD \cup freedI \cup {ib} THEN FREE ELSE fb[b]]]

\* tfs_open(name, TFS_O_TRUNC) on an existing file, under its write lock:
\* free_all_inode_blocks, then the size goes to 0 (kept on failure).
Truncate(f) ==
    LET r == FreeAll(f, inode_table, free_blocks, fs_data) IN
    /\ ~ub
    /\ freeinode_ts[f] = TAKEN /\ inode_table[f].i_node_type = T_FILE
    /\ free_blocks' = r.free
    /\ inode_table' = [inode_table EXCEPT
                          ![f].i_data_blocks = r.blocks,
                          ![f].i_size = IF r.ok THEN 0 ELSE @]
    /\ contents' = [contents EXCEPT ![f] = IF r.ok THEN <<>> ELSE @]
    /\ UNCHANGED <<freeinode_ts, fs_data, ub>>

\* inode_delete(inumber) of a TAKEN file: the slot is FREE, and when the
\* size is positive its blocks are freed.
inode_delete(f) ==
    LET r == FreeAll(f, inode_table, free_blocks, fs_data) IN
    /\ ~ub
    /\ f # ROOT_DIR_INUM
    /\ freeinode_ts[f] = TAKEN
    /\ freeinode_ts' = [freeinode_ts EXCEPT ![f] = FREE]
    /\ IF inode_table[f].i_size > 0
       THEN /\ free_blocks' = r.free
            /\ inode_table' = [inode_table EXCEPT ![f].i_data_blocks = r.blocks]
       ELSE UNCHANGED <<free_blocks, inode_table>>
    /\ UNCHANGED <<fs_data, ub, contents>>

-----------------------------------------------------------------------------
(* tfs_write of one block at the end of file f, under its write lock:       *)
(* data_block_alloc() for the data block, inode_data_block_add at position  *)
(* i_size, the data copied into the block, the size advanced.  A full      *)
(* block store (-1 from data_block_alloc) ends the write before any change. *)

\* inode_data_block_add, direct slot, then the copy and the size.
AppendDirect(f) ==
    LET p == inode_table[f].i_size
        b == Alloc(free_blocks)
    IN
    \E v \in Payloads :
    /\ ~ub
    /\ freeinode_ts[f] = TAKEN /\ inode_table[f].i_node_type = T_FILE
    /\ p < LEVEL0_BLOCK_NUM
    /\ b # -1
    /\ inode_table[f].i_data_blocks[p] = -1
    /\ free_blocks' = [free_blocks EXCEPT ![b] = TAKEN]
    /\ inode_table' = [inode_table EXCEPT ![f].i_data_blocks[p] = b,
                                          ![f].i_size = p + 1]
    /\ fs_data' = [w \in Words |->
                     IF w \in {Addr(b, k) : k \in 0 .. INDECES_PER_BLOCK - 1}
                     THEN v ELSE fs_data[w]]
    /\ contents' = [contents EXCEPT ![f] = Append(@, v)]
    /\ UNCHANGED <<freeinode_ts, ub>>

\* Mutant: the size advances by two blocks.
AppendIndirectSizeTwice(f) ==
    LET p == inode_table[f].i_size
        b == Alloc(free_blocks)
        ib == inode_table[f].i_data_blocks[IND]
        e == Addr(ib, p - LEVEL0_BLOCK_NUM)
    IN
    \E v \in Payloads :
    /\ ~ub
    /\ freeinode_ts[f] = TAKEN /\ inode_table[f].i_node_type = T_FILE
    /\ p >= LEVEL0_BLOCK_NUM /\ p < MaxFileBlocks
    /\ b # -1
    /\ ib # -1
    /\ fs_data[e] = -1
    /\ free_blocks' = [free_blocks EXCEPT ![b] = TAKEN]
    /\ inode_table' = [inode_table EXCEPT ![f].i_size = p + 2]
    /\ fs_data' = [w \in Words |->
                     IF w = e THEN b
                     ELSE IF w \in {Addr(b, k) : k \in 0 .. INDECES_PER_BLOCK - 1}
                     THEN v ELSE fs_data[w]]
    /\ contents' = [contents EXCEPT ![f] = Append(@, v)]
    /\ UNCHANGED <<freeinode_ts, ub>>

\* inode_data_block_add, indirect block already there: its entry
\* position - LEVEL0_BLOCK_NUM must be -1 and gets the block.
AppendIndirect(f) ==
    LET p == inode_table[f].i_size
        b == Alloc(free_blocks)
        ib == inode_table[f].i_data_blocks[IND]
        e == Addr(ib, p - LEVEL0_BLOCK_NUM)
    IN
    \E v \in Payloads :
    /\ ~ub
    /\ freeinode_ts[f] = TAKEN /\ inode_table[f].i_node_type = T_FILE
    /\ p >= LEVEL0_BLOCK_NUM /\ p < MaxFileBlocks
    /\ b # -1
    /\ ib # -1
    /\ fs_data[e] = -1
    /\ free_blocks' = [free_blocks EXCEPT ![b] = TAKEN]
    /\ inode_table' = [inode_table EXCEPT ![f].i_size = p + 1]
    /\ fs_data' = [w \in Words |->
                     IF w = e THEN b
                     ELSE IF w \in {Addr(b, k) : k \in 0 .. INDECES_PER_BLOCK - 1}
                     THEN v ELSE fs_data[w]]
    /\ contents' = [contents EXCEPT ![f] = Append(@, v)]
    /\ UNCHANGED <<freeinode_ts, ub>>

\* inode_data_block_add, first block past the direct slots: the indirect
\* block comes from data_block_alloc() unchecked, and the loop
\* "for (i = 0; i < BLOCK_SIZE; i++) level1_block[i] = -1" writes BLOCK_SIZE
\* ints from its start.  A -1 from the allocator is a NULL dereference and a
\* store past the end of fs_data is out of bounds: both are undefined.
AppendNewIndirect(f) ==
    LET p == inode_table[f].i_size
        b == Alloc(free_blocks)
        fb1 == [free_blocks EXCEPT ![b] = TAKEN]
        ib == Alloc(fb1)
        cleared == {Addr(ib, k) : k \in 0 .. BLOCK_SIZE - 1}
        e == Addr(ib, p - LEVEL0_BLOCK_NUM)
    IN
    \E v \in Payloads :
    /\ ~ub
    /\ freeinode_ts[f] = TAKEN /\ inode_table[f].i_node_type = T_FILE
    /\ p >= LEVEL0_BLOCK_NUM /\ p < MaxFileBlocks
    /\ b # -1
    /\ inode_table[f].i_data_blocks[IND] = -1
    /\ ub' = (ib = -1 \/ ~(cleared \subseteq Words))
    /\ free_blocks' = IF ib = -1 THEN fb1 ELSE [fb1 EXCEPT ![ib] = TAKEN]
    /\ inode_table' = [inode_table EXCEPT ![f].i_data_blocks[IND] = ib,
                                          ![f].i_size = p + 1]
    /\ fs_data' = [w \in Words |->
                     IF w = e THEN b
                     ELSE IF w \in {Addr(b, k) : k \in 0 .. INDECES_PER_BLOCK - 1}
                     THEN v
                     ELSE IF w \in cleared THEN -1 ELSE fs_data[w]]
    /\ contents' = [contents EXCEPT ![f] = Append(@, v)]
    /\ UNCHANGED <<freeinode_ts>>

-----------------------------------------------------------------------------
Files == Inumbers \ {ROOT_DIR_INUM}

Next ==
    \/ inode_create
    \/ \E f \in Files :
          \/ AppendDirect(f) \/ AppendIndirect(f) \/ AppendNewIndirect(f)
          \/ Truncate(f) \/ inode_delete(f)

Spec == Init /\ [][Next]_vars

-----------------------------------------------------------------------------
(* Properties                                                               *)

\* The blocks inode i holds: a directory its one block; a file the block at
\* each position below its size (through inode_data_block_get) and its
\* indirect block.
FileBlocks(i) == {DataBlockGet(p, i, inode_table, fs_data) : p \in 0 .. inode_table[i].i_size - 1}
IndexBlock(i) == IF inode_table[i].i_data_blocks[IND] = -1 THEN {}
                 ELSE {inode_table[i].i_data_blocks[IND]}
Owned(i) == IF inode_table[i].i_node_type = T_DIRECTORY
            THEN {inode_table[i].i_data_blocks[0]}
            ELSE FileBlocks(i) \cup IndexBlock(i)
Live == {i \in Inumbers : freeinode_ts[i] = TAKEN}

\* Block accounting (spec 3 and 8): every block a live inode indexes is a
\* valid TAKEN block, a file's positions and its indirect block are distinct
\* blocks, no block is indexed by both the root and the file, and every
\* TAKEN block is indexed by some live inode, so free_all_inode_blocks
\* leaks nothing.  With the root and one file the file's blocks cannot
\* collide with another file's; that case is OtherFilesUntouched's.
BlockAccounting ==
    /\ \A i \in Live : \A b \in Owned(i) : valid_block_number(b) /\ free_blocks[b] = TAKEN
    /\ \A i, j \in Live : i # j => Owned(i) \cap Owned(j) = {}
    /\ \A i \in Live : inode_table[i].i_node_type = T_FILE =>
          /\ Cardinality(FileBlocks(i)) = inode_table[i].i_size
          /\ FileBlocks(i) \cap IndexBlock(i) = {}
    /\ \A b \in Blocks : free_blocks[b] = TAKEN => \E i \in Live : b \in Owned(i)

\* Read/write round trip (spec 8): for every live file and every position
\* below its size, the block inode_data_block_get finds holds the payload
\* the write of that position put there (contents), across the direct/indirect boundary,
\* truncates, deletes and the reuse of freed blocks by other files.
FileRoundTrip ==
    \A f \in Live \ {ROOT_DIR_INUM} : \A p \in 0 .. inode_table[f].i_size - 1 :
        LET b == DataBlockGet(p, f, inode_table, fs_data) IN
        /\ valid_block_number(b)
        /\ \A k \in 0 .. INDECES_PER_BLOCK - 1 : fs_data[Addr(b, k)] = contents[f][p + 1]

\* No call does something undefined: no NULL dereference, no store outside
\* fs_data.
NoUndefinedBehaviour == ~ub

\* The block at position p of file f, as tfs_read finds it: the first word
\* of the block inode_data_block_get returns (-1 for no valid block).
ReadBlock(f, p) ==
    LET b == DataBlockGet(p, f, inode_table, fs_data) IN
    IF valid_block_number(b) THEN fs_data[Addr(b, 0)] ELSE -1

\* What a reader finds in file f: the payload at each position below its size.
FileData(f) == [p \in 1 .. inode_table[f].i_size |-> ReadBlock(f, p - 1)]

\* Isolation of files (spec 8: a call on one inode leaves the others
\* untouched): a step that does not write, truncate or recreate a live file
\* leaves what a reader finds in it as it was.  inode_data_block_add's
\* clearing loop breaks it when a new indirect block lies below another
\* file's blocks, which takes a truncate that opens a hole below them.
OtherFilesUntouched ==
    [][\A f \in (Live \cap Live') \ {ROOT_DIR_INUM} :
          contents'[f] = contents[f] => FileData(f)' = FileData(f)]_vars

=============================================================================
