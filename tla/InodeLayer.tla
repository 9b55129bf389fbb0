----------------------------- MODULE InodeLayer -----------------------------
(***************************************************************************)
(* The inode layer of the extent server and of the NameNode                *)
(* (CSE/lab/inode_manager.cc): a disk of blocks that holds the inode table *)
(* and the data, a bitmap of data blocks, inodes with NDIRECT direct       *)
(* blocks and one indirect block.  Every operation is one step: the layer  *)
(* as one thread drives it (the single-machine YFS and the NameNode's own  *)
(* calls); YfsClient models the calls of several threads.                  *)
(*                                                                         *)
(* A block holds one cell of data.  In a directory a cell is an entry and  *)
(* names an inode.  Times are left out.                                    *)
(***************************************************************************)
EXTENDS Integers, Sequences, FiniteSets, DirTree

CONSTANTS
  BLOCK_SIZE,  \* bytes in a block
  BLOCK_NUM,   \* blocks on the disk
  INODE_NUM,   \* inodes on the disk; one inode takes one block (IPB is 1)
  NDIRECT,     \* direct block ids in an inode
  NINDIRECT,   \* block ids in the indirect block
  MaxFiles,    \* bound: live files
  MaxBlocks,   \* bound: blocks in one file
  Buffers      \* the buffers that calls write: sequences of cells

ASSUME InodeLayerAssumption ==
  /\ {BLOCK_SIZE, BLOCK_NUM, INODE_NUM, NDIRECT, NINDIRECT} \subseteq Nat \ {0}
  /\ INODE_NUM + 3 < BLOCK_NUM
  /\ MaxFiles \in 1..INODE_NUM
  /\ MaxBlocks \in 1..(NDIRECT + NINDIRECT)
  /\ Buffers \subseteq Seq(0..(INODE_NUM - 1))
  /\ \A buf \in Buffers : Len(buf) <= MaxBlocks

VARIABLES
  disk,          \* disk[b]: what block b holds
  using_blocks   \* the data blocks marked in use

layerVars == <<disk, using_blocks>>

MAXFILE == NDIRECT + NINDIRECT

\* The block of inode i, and the first data block: the bitmap takes less
\* than a block (BLOCK_NUM / BPB is 0) and three blocks go before the table.
IBLOCK(i) == i + 3
firstBlockId == 3 + INODE_NUM

BlockIds == 0..(BLOCK_NUM - 1)
DataBlocks == firstBlockId..(BLOCK_NUM - 1)
Inums == 1..(INODE_NUM - 1)
Types == {"dir", "file"}
Cells == 0..(INODE_NUM - 1)

\* blocks[0..NDIRECT-1] are direct, blocks[NDIRECT] is the indirect block.
Inode == [kind : {"inode"}, type : Types \cup {"free"}, size : Nat,
          blocks : [0..NDIRECT -> BlockIds]]
Pointers == [kind : {"ids"}, ids : [0..(NINDIRECT - 1) -> BlockIds]]
Data == [kind : {"data"}, cell : Cells]
Zero == [kind |-> "zero"]     \* disk::disk clears every block

NoIds == [s \in 0..NDIRECT |-> 0]
NoInode == [kind |-> "inode", type |-> "free", size |-> 0, blocks |-> NoIds]

-----------------------------------------------------------------------------
(* Reading.                                                                *)

\* inode_manager::get_inode, NoInode for NULL: the number INODE_NUM is out of
\* range here although alloc_inode tries it.
get_inode(d, i) ==
  IF i \in Inums /\ d[IBLOCK(i)].kind = "inode" THEN d[IBLOCK(i)] ELSE NoInode

Exists(d, i) == get_inode(d, i).type # "free"
Live == {i \in Inums : Exists(disk, i)}

\* size / BLOCK_SIZE rounded up: the blocks of a file of that size.
blockNum(size) == (size + BLOCK_SIZE - 1) \div BLOCK_SIZE

\* A file's block ids in the order they are allocated: direct ones, then the
\* indirect block, then the ids in it.  Slots(n) are those of an n-block file
\* and Slot(k) is the one of its k-th data block, counted from 0.
Slots(n) == IF n <= NDIRECT THEN 0..(n - 1) ELSE 0..n
Slot(k) == IF k < NDIRECT THEN k ELSE k + 1

\* The ids in an indirect block.
Ids(block) == IF block.kind = "ids" THEN block.ids ELSE [j \in 0..(NINDIRECT - 1) |-> 0]

\* All block ids an inode reaches, by slot.
Table(d, ino) ==
  [s \in 0..MAXFILE |-> IF s <= NDIRECT THEN ino.blocks[s]
                                        ELSE Ids(d[ino.blocks[NDIRECT]])[s - NDIRECT - 1]]

\* The block ids that file i uses, by slot.
BlocksOf(i) ==
  LET ino == get_inode(disk, i)
  IN  [s \in Slots(blockNum(ino.size)) |-> Table(disk, ino)[s]]

\* Faulty variant: the indirect block is taken for a data block.
IdsWithIndirect(i) == [k \in 1..blockNum(get_inode(disk, i).size) |-> BlocksOf(i)[k - 1]]

\* inode_manager::get_block_ids: the ids of the data blocks, in order.
get_block_ids(i) == [k \in 1..blockNum(get_inode(disk, i).size) |-> BlocksOf(i)[Slot(k - 1)]]

\* The data in a block; a block never written with data reads as 0.
Held(block) == IF block.kind = "data" THEN block.cell ELSE 0

\* inode_manager::read_file: what the data blocks hold.
read_file(i) == [k \in DOMAIN get_block_ids(i) |-> Held(disk[get_block_ids(i)[k]])]

-----------------------------------------------------------------------------
(* Operations.                                                             *)

LayerInit ==
  /\ disk = [b \in BlockIds |->
               IF b = IBLOCK(1) THEN [NoInode EXCEPT !.type = "dir"] ELSE Zero]
  /\ using_blocks = {}

\* block_manager::alloc_block, k times in a row: the k-th free block in
\* order, 0 once the disk is full.
alloc_block(used, k) ==
  LET free == DataBlocks \ used
  IN  IF Cardinality(free) < k THEN 0
      ELSE CHOOSE b \in free : Cardinality({x \in free : x < b}) = k - 1

\* inode_manager::put_inode.  The inode takes the start of its block.
put_inode(d, i, ino) == [d EXCEPT ![IBLOCK(i)] = ino]

\* The number inode_manager::alloc_inode takes: the first that get_inode does
\* not find.  The loop runs to INODE_NUM itself, which get_inode never finds.
FirstFreeInum ==
  CHOOSE i \in 1..INODE_NUM : ~Exists(disk, i) /\ \A j \in 1..(i - 1) : Exists(disk, j)

\* Faulty variant: the size of the new inode is not set.
AllocInodeSizeUnset(t) ==
  /\ Cardinality(Live) < MaxFiles
  /\ disk' = put_inode(disk, FirstFreeInum, [NoInode EXCEPT !.type = t, !.size = -1])
  /\ UNCHANGED using_blocks

\* inode_manager::alloc_inode, for extent_server::create.  The ids of the new
\* inode are uninitialised; no operation reads one before it sets it.
alloc_inode(t) ==
  /\ Cardinality(Live) < MaxFiles
  /\ disk' = put_inode(disk, FirstFreeInum, [NoInode EXCEPT !.type = t])
  /\ UNCHANGED using_blocks

\* inode_manager::write_file, for extent_server::put: grow or shrink the file
\* to the blocks the new size takes, then write every block.  The blocks are
\* written in order, so of two slots with one id the later write stays.  The
\* ids past the file's end are stale in the program and are never read: 0.
write_file(i, buf, size) ==
  LET ino == get_inode(disk, i)
      old == Slots(blockNum(ino.size))
      new == Slots(blockNum(size))
      was == Table(disk, ino)
      now == [s \in 0..MAXFILE |->
                IF s \in old \cap new THEN was[s]
                ELSE IF s \in new THEN alloc_block(using_blocks, s - Cardinality(old) + 1)
                ELSE 0]
      newIds == [kind |-> "ids", ids |-> [j \in 0..(NINDIRECT - 1) |-> now[NDIRECT + 1 + j]]]
      indirect == IF new \ old # {} /\ NDIRECT \in new
                    THEN [disk EXCEPT ![now[NDIRECT]] = newIds] ELSE disk
      at(b) == {k \in 1..blockNum(size) : now[Slot(k - 1)] = b}
      last(b) == CHOOSE k \in at(b) : \A m \in at(b) : m <= k
      written == [b \in BlockIds |-> IF at(b) = {} THEN indirect[b]
                                     ELSE [kind |-> "data", cell |-> buf[last(b)]]]
  IN  IF ~Exists(disk, i) \/ blockNum(size) > MAXFILE
      THEN UNCHANGED layerVars
      ELSE /\ disk' = put_inode(written, i, [ino EXCEPT !.size = size,
                                               !.blocks = [s \in 0..NDIRECT |-> now[s]]])
           /\ using_blocks' = (using_blocks \cup ({now[s] : s \in new \ old} \cap DataBlocks))
                                \ {was[s] : s \in old \ new}

\* The entries of inode j: what a directory reads as.
Entries(j) ==
  IF get_inode(disk, j).type = "dir"
  THEN {read_file(j)[k] : k \in DOMAIN read_file(j)} ELSE {}

\* The files that go with file i: those in it, those in them, and so on.
Tree(i) == {j \in Below([m \in Inums |-> Entries(m)], i) : Exists(disk, j)}

\* inode_manager::remove_file with free_inode: everything below a directory
\* goes with it; blocks are freed, inodes marked free (type 0; what else a
\* free inode holds is never read).  The root stays.
remove_file(i) ==
  /\ i # 1
  /\ disk' = [b \in BlockIds |-> IF \E j \in Tree(i) : b = IBLOCK(j)
                                   THEN NoInode ELSE disk[b]]
  /\ using_blocks' = using_blocks
       \ UNION {{BlocksOf(j)[s] : s \in DOMAIN BlocksOf(j)} : j \in Tree(i)}

\* Faulty variant: the new data block is not marked before the indirect block
\* is allocated.
AppendUnmarked(i) ==
  LET ino == get_inode(disk, i)
      n == blockNum(ino.size)
      bid == alloc_block(using_blocks, 1)
      ind == IF n = NDIRECT THEN bid ELSE ino.blocks[NDIRECT]
      ids == [kind |-> "ids", ids |-> [Ids(disk[ind]) EXCEPT ![n - NDIRECT] = bid]]
  IN  /\ Exists(disk, i) /\ n \in NDIRECT..(MaxBlocks - 1)
      /\ disk' = put_inode([disk EXCEPT ![ind] = ids], i,
                    [ino EXCEPT !.size = @ + BLOCK_SIZE, !.blocks[NDIRECT] = ind])
      /\ using_blocks' = using_blocks \cup {bid}

\* inode_manager::append_block, for the NameNode: one more block at the end,
\* allocated before the indirect block when that is needed too.  MAXFILE is
\* more than the disk has (4196 blocks of 2048), so an append never meets it.
append_block(i) ==
  LET ino == get_inode(disk, i)
      n == blockNum(ino.size)
      bid == alloc_block(using_blocks, 1)
      ind == IF n = NDIRECT THEN alloc_block(using_blocks, 2) ELSE ino.blocks[NDIRECT]
      direct == [ino EXCEPT !.size = @ + BLOCK_SIZE, !.blocks[n] = bid]
      ids == [kind |-> "ids", ids |-> [Ids(disk[ind]) EXCEPT ![n - NDIRECT] = bid]]
  IN  /\ Exists(disk, i) /\ n < MaxBlocks
      /\ disk' = IF n < NDIRECT
                 THEN put_inode(disk, i, direct)
                 ELSE put_inode([disk EXCEPT ![ind] = ids], i,
                        [ino EXCEPT !.size = @ + BLOCK_SIZE, !.blocks[NDIRECT] = ind])
      /\ using_blocks' = (using_blocks \cup {bid} \cup (IF n = NDIRECT THEN {ind} ELSE {}))
                           \cap DataBlocks

\* inode_manager::write_block: a DataNode writes the k-th block of a file
\* whose ids the NameNode gave it.
write_block(i, k, c) ==
  /\ Exists(disk, i) /\ k \in DOMAIN get_block_ids(i)
  /\ disk' = [disk EXCEPT ![get_block_ids(i)[k]] = [kind |-> "data", cell |-> c]]
  /\ UNCHANGED using_blocks

\* inode_manager::complete: the size after the last block was written, which
\* ends in that block.
complete(i, size) ==
  /\ Exists(disk, i)
  /\ blockNum(size) = blockNum(get_inode(disk, i).size)
  /\ disk' = put_inode(disk, i, [get_inode(disk, i) EXCEPT !.size = size])
  /\ UNCHANGED using_blocks

\* A directory is written with the entries it is to have: distinct inodes
\* that exist, and above its own, so that directories form no cycle.
MayHold(i, buf) ==
  get_inode(disk, i).type = "dir" =>
    \A k, m \in DOMAIN buf : buf[k] \in Live /\ buf[k] > i /\ (buf[k] = buf[m] => k = m)

\* The sizes in bytes that fill n blocks, the last one at least in part.
SizesOf(n) == {size \in 0..(n * BLOCK_SIZE) : blockNum(size) = n}

CellsWritten == UNION {{buf[k] : k \in DOMAIN buf} : buf \in Buffers}

DoCreate == \E t \in Types : alloc_inode(t)
DoPut == \E i \in Inums, buf \in Buffers : \E size \in SizesOf(Len(buf)) :
         MayHold(i, buf) /\ write_file(i, buf, size)
DoRemove == \E i \in Inums : remove_file(i)
DoAppend == \E i \in Inums : get_inode(disk, i).type = "file" /\ append_block(i)
DoWrite == \E i \in Inums, k \in 1..MaxBlocks, c \in CellsWritten :
           get_inode(disk, i).type = "file" /\ write_block(i, k, c)
DoComplete == \E i \in Inums : \E size \in 0..(MaxBlocks * BLOCK_SIZE) :
              get_inode(disk, i).type = "file" /\ complete(i, size)

LayerNext == DoCreate \/ DoPut \/ DoRemove \/ DoAppend \/ DoWrite \/ DoComplete

LayerSpec == LayerInit /\ [][LayerNext]_layerVars

-----------------------------------------------------------------------------
(* Properties.                                                             *)

DiskTypeOK ==
  /\ disk \in [BlockIds -> Inode \cup Pointers \cup Data \cup {Zero}]
  /\ using_blocks \subseteq DataBlocks

\* Every block a live file uses is a data block, and no block is used twice,
\* by two files or by two slots of one: across growing, shrinking and
\* appending past the indirect boundary, removing and reusing.
BlocksAreOwned ==
  \A i, j \in Live : \A s \in DOMAIN BlocksOf(i), t \in DOMAIN BlocksOf(j) :
    /\ BlocksOf(i)[s] \in DataBlocks
    /\ BlocksOf(i)[s] = BlocksOf(j)[t] => i = j /\ s = t

\* The bitmap is exact: no used block is marked free (it would be handed out
\* again), and no block stays marked when no file uses it (a leak).
BitmapIsExact ==
  using_blocks = UNION {{BlocksOf(i)[s] : s \in DOMAIN BlocksOf(i)} : i \in Live}

\* What alloc_block, free_block and the files agree on: one owner for each used block, and
\* a bitmap that says so.
BlocksAreAccountedFor == BlocksAreOwned /\ BitmapIsExact

\* "|<-sb->|<-free block bitmap->|<-inode table->|<-data->|" (block_manager):
\* file data stays in the data area.
DataStaysInData == \A b \in BlockIds \ DataBlocks : disk[b].kind \notin {"data", "ids"}

=============================================================================
