---------------------------- MODULE MCInodeLayer ----------------------------
(* Instances of InodeLayer and InodeLayerStore for TLC.                    *)
EXTENDS InodeLayerStore, TLC

\* Up to three blocks: two direct, or direct and indirect.
ThreeBlocks == {<<>>, <<2>>, <<3, 2>>, <<2, 3, 3>>}
=============================================================================
