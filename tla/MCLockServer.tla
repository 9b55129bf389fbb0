---------------------------- MODULE MCLockServer ----------------------------
(* Instances of LockServer for TLC.                                        *)
EXTENDS LockServer, TLC

CONSTANTS c1, c2, c3
ThreeClients == {c1, c2, c3}
TwoLocks == {1, 2}
=============================================================================
