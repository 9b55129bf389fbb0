----------------------------- MODULE YfsService -----------------------------
(***************************************************************************)
(* What several yfs_clients on one extent server promise their users: the  *)
(* results of concurrent operations "are consistent with the operations    *)
(* executing in some sequential order" (Lab-2.html, Part 2B).  Each call   *)
(* takes effect in one step between its invocation and its return.         *)
(***************************************************************************)
CONSTANTS
  Clients,   \* yfs_client processes, each serving one request at a time
  Dirs,      \* directories that calls name
  Names,     \* file names
  Absent     \* tree[<<d, n>>] when directory d has no file n

VARIABLES
  tree,      \* tree[<<d, n>>]: Absent, or what was written to file n of d
  call       \* call[c]: the request client c serves, and its result so far

Idle == [op |-> "none"]

Init ==
  /\ tree = [p \in Dirs \X Names |-> Absent]
  /\ call = [c \in Clients |-> Idle]

\* A client takes a request from its kernel.
Invoke(c) ==
  /\ call[c] = Idle
  /\ \E op \in {"create", "mkdir", "symlink", "unlink", "write", "setattr"},
        d \in Dirs, n \in Names :
       call' = [call EXCEPT ![c] = [op |-> op, dir |-> d, name |-> n, res |-> "none"]]
  /\ UNCHANGED tree

\* The effect of a request on what is in one name, and its result.  A link
\* holds its target, another new file nothing.
Effect(c, op, n, old) ==
  CASE op \in {"create", "mkdir"} -> IF old = Absent THEN {} ELSE old
    [] op = "symlink" -> IF old = Absent THEN {[clt |-> c, name |-> n]} ELSE old
    [] op = "unlink" -> Absent
    [] op = "write" -> IF old = Absent THEN Absent ELSE old \cup {[clt |-> c, name |-> n]}
    [] op = "setattr" -> IF old = Absent THEN Absent ELSE {}

Result(op, old) ==
  IF op \in {"create", "mkdir", "symlink"} /\ old # Absent THEN "EXIST" ELSE "OK"

\* The request takes effect.
Perform(c) ==
  /\ call[c] # Idle
  /\ call[c].res = "none"
  /\ LET p == <<call[c].dir, call[c].name>>
     IN  /\ tree' = [tree EXCEPT ![p] = Effect(c, call[c].op, call[c].name, @)]
         /\ call' = [call EXCEPT ![c].res = Result(call[c].op, tree[p])]

Return(c) ==
  /\ call[c] # Idle
  /\ call[c].res # "none"
  /\ call' = [call EXCEPT ![c] = Idle]
  /\ UNCHANGED tree

Next == \E c \in Clients : Invoke(c) \/ Perform(c) \/ Return(c)

Spec == Init /\ [][Next]_<<tree, call>>

=============================================================================
