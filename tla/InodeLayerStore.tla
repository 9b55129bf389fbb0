--------------------------- MODULE InodeLayerStore --------------------------
(***************************************************************************)
(* InodeLayer and FileStore side by side: every call is made to both, and  *)
(* reading a file through its inode gives what the store says it holds.    *)
(***************************************************************************)
EXTENDS InodeLayer

CONSTANT NoFile   \* what the store has for a free number

ASSUME NoFileAssumption == NoFile \notin [type : Types, cells : Seq(Cells)]

VARIABLE files   \* the contents the callers are promised

Store == INSTANCE FileStore

StoreInit == LayerInit /\ Store!Init

\* The store's number for a new file is the layer's choice; the data that an
\* appended block starts with is what the disk holds.
StoreNext ==
  \/ \E t \in Types : alloc_inode(t) /\ Store!Create(FirstFreeInum, t)
  \/ \E i \in Inums, buf \in Buffers : \E size \in SizesOf(Len(buf)) :
       MayHold(i, buf) /\ write_file(i, buf, size) /\ Store!Put(i, buf)
  \/ \E i \in Inums : remove_file(i) /\ Store!Remove(i)
  \/ \E i \in Inums :
       /\ get_inode(disk, i).type = "file" /\ append_block(i)
       /\ Store!AppendBlock(i, Held(disk[alloc_block(using_blocks, 1)]))
  \/ \E i \in Inums, k \in 1..MaxBlocks, c \in CellsWritten :
       /\ get_inode(disk, i).type = "file" /\ write_block(i, k, c)
       /\ Store!WriteBlock(i, k, c)
  \/ DoComplete /\ UNCHANGED files

StoreSpec == StoreInit /\ [][StoreNext]_<<disk, using_blocks, files>>

\* Reading returns what was written: every live inode is a file of the store,
\* of its type, and read_file follows its inode and indirect block to exactly
\* the contents put, appended and written to it, whatever the other files did.
ReadsBack ==
  \A i \in Inums :
    files[i] = IF Exists(disk, i)
               THEN [type |-> get_inode(disk, i).type, cells |-> read_file(i)]
               ELSE NoFile

=============================================================================
