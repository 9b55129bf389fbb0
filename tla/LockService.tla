---------------------------- MODULE LockService ----------------------------
(***************************************************************************)
(* What the YFS lock service promises its callers (Lab-2.html, Part 2A):   *)
(* "at any point in time, there is at most one client holding a lock with  *)
(* a given identifier".  A lock is granted to one client, and granted      *)
(* again only after that client has given it back.  LockServer implements  *)
(* this specification; YfsClient and the NameNode rely on it.              *)
(***************************************************************************)
CONSTANTS
  Clients,   \* the threads that call lock_client::acquire and release
  Locks      \* lock identifiers: the inode numbers in use

VARIABLE
  owners     \* owners[l]: the clients lock l is granted to, never two

Init == owners = [l \in Locks |-> {}]

Grant(c, l) ==
  /\ owners[l] = {}
  /\ owners' = [owners EXCEPT ![l] = {c}]

GiveBack(c, l) ==
  /\ owners[l] = {c}
  /\ owners' = [owners EXCEPT ![l] = {}]

Next == \E c \in Clients, l \in Locks : Grant(c, l) \/ GiveBack(c, l)

Spec == Init /\ [][Next]_owners

=============================================================================
