----------------------------- MODULE FileStore ------------------------------
(***************************************************************************)
(* What the extent server promises its callers: numbered files that hold   *)
(* what was last written to them.  InodeLayer keeps this promise with an   *)
(* inode table, a block bitmap and direct and indirect blocks, as long as  *)
(* neither the table nor the disk is full; InodeLayerStore runs the two    *)
(* side by side.                                                           *)
(***************************************************************************)
EXTENDS Naturals, Sequences, FiniteSets, DirTree

CONSTANTS
  Inums,     \* inode numbers
  NoFile     \* files[i] when inode number i is free

VARIABLE
  files      \* files[i]: NoFile, or the type and the blocks of file i

Live == {i \in Inums : files[i] # NoFile}

\* Only the root directory exists, and it is empty.
Init == files = [i \in Inums |-> IF i = 1 THEN [type |-> "dir", cells |-> <<>>] ELSE NoFile]

\* A new file is empty, and its number was free.
Create(i, t) ==
  /\ i \in Inums \ Live
  /\ files' = [files EXCEPT ![i] = [type |-> t, cells |-> <<>>]]

\* A put replaces the whole contents; a put to a free number does nothing.
Put(i, cells) ==
  files' = IF i \in Live THEN [files EXCEPT ![i].cells = cells] ELSE files

\* An appended block holds whatever the disk held there.
AppendBlock(i, c) == files' = [files EXCEPT ![i].cells = Append(@, c)]

WriteBlock(i, k, c) == files' = [files EXCEPT ![i].cells[k] = c]

\* The entries of file j, if it is a directory.
Entries(j) ==
  IF j \in Live /\ files[j].type = "dir"
  THEN {files[j].cells[k] : k \in DOMAIN files[j].cells} ELSE {}

\* The files in a directory, the files in the directories in it, and so on.
Contents(i) == Below([m \in Inums |-> Entries(m)], i) \cap Live

\* A directory goes with everything in it; removing a free number does nothing.
Remove(i) ==
  files' = [j \in Inums |-> IF j \in Contents(i) THEN NoFile ELSE files[j]]

=============================================================================
