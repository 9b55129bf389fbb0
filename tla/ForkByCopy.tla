----------------------------- MODULE ForkByCopy -----------------------------
(***************************************************************************)
(* What fork promises a program: the child starts with a copy of the       *)
(* memory its parent has, and afterwards neither sees the other's writes.  *)
(***************************************************************************)
CONSTANTS Envs, Pages, Values

VARIABLE memory   \* memory[e]: what e finds at each page, Gone when e does not exist

Gone == [va \in {} |-> 0]

Init == \E e \in Envs, v \in [Pages -> Values] :
          memory = [x \in Envs |-> IF x = e THEN v ELSE Gone]

Write(e, va, v) ==
  /\ memory[e] # Gone
  /\ memory' = [memory EXCEPT ![e][va] = v]

Fork(parent, child) ==
  /\ memory[parent] # Gone /\ memory[child] = Gone
  /\ memory' = [memory EXCEPT ![child] = memory[parent]]

End(e) ==
  /\ memory[e] # Gone
  /\ memory' = [memory EXCEPT ![e] = Gone]

Next ==
  \E e \in Envs :
    \/ \E va \in Pages, v \in Values : Write(e, va, v)
    \/ \E child \in Envs : Fork(e, child)
    \/ End(e)

Spec == Init /\ [][Next]_memory
=============================================================================
