------------------------------ MODULE DirTree -------------------------------
(***************************************************************************)
(* What remove_file means by a directory and everything below it: shared   *)
(* by InodeLayer, which reads the entries through inodes and blocks, and   *)
(* FileStore, which has the contents at hand.                              *)
(***************************************************************************)
EXTENDS Naturals, FiniteSets

\* i, what i holds, what that holds, and so on, where holds[j] is the set of
\* entries of j.  No chain of different holders is longer than their number.
Below(holds, i) ==
  LET down[n \in Nat] ==
        IF n = 0 THEN {i}
        ELSE down[n - 1] \cup UNION {holds[j] : j \in down[n - 1] \cap DOMAIN holds}
  IN  down[Cardinality(DOMAIN holds)]

=============================================================================
