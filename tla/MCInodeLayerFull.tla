-------------------------- MODULE MCInodeLayerFull --------------------------
(* Instances of InodeLayer in which the inode table or the disk fills up.  *)
EXTENDS InodeLayer

\* One block in each put.
OneBlock == {<<2>>, <<3>>}
=============================================================================
