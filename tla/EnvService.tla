----------------------------- MODULE EnvService -----------------------------
(***************************************************************************)
(* What the JOS kernel promises a program about environments and messages: *)
(* an envid names one environment for good, and a message goes to the      *)
(* environment with the envid it was sent to, when that environment waits  *)
(* for one, and is received once.                                          *)
(***************************************************************************)
CONSTANT Ids

VARIABLES
  used,     \* the envids given out so far
  alive,    \* the environments that exist
  waiting,  \* those blocked in ipc_recv
  inbox     \* messages sent and not yet received

vars == <<used, alive, waiting, inbox>>

Init == used \in SUBSET Ids /\ alive = used /\ waiting = {} /\ inbox = {}

Create(id) ==
  /\ id \notin used
  /\ used' = used \cup {id} /\ alive' = alive \cup {id}
  /\ UNCHANGED <<waiting, inbox>>

\* An environment ends, and the message it has not received ends with it.
End(id) ==
  /\ id \in alive
  /\ alive' = alive \ {id} /\ waiting' = waiting \ {id}
  /\ inbox' = {msg \in inbox : msg.to # id}
  /\ UNCHANGED used

Wait(id) ==
  /\ id \in alive \ waiting /\ \A msg \in inbox : msg.to # id
  /\ waiting' = waiting \cup {id}
  /\ UNCHANGED <<used, alive, inbox>>

\* A message is stood for by the envid its sender wrote it to.
Send(from, to) ==
  /\ to \in waiting /\ from \in alive
  /\ waiting' = waiting \ {to}
  /\ inbox' = inbox \cup {[to |-> to, from |-> from, value |-> to]}
  /\ UNCHANGED <<used, alive>>

Receive(msg) ==
  /\ msg \in inbox
  /\ inbox' = inbox \ {msg}
  /\ UNCHANGED <<used, alive, waiting>>

Next ==
  \/ \E id \in Ids : Create(id)
  \/ \E id \in alive : End(id) \/ Wait(id)
  \/ \E from \in alive, to \in waiting : Send(from, to)
  \/ \E msg \in inbox : Receive(msg)

Spec == Init /\ [][Next]_vars
=============================================================================
