----------------------------- MODULE LockServer -----------------------------
(***************************************************************************)
(* The blocking lock server of the distributed YFS (lock_server.cc) with   *)
(* the RPC stubs in front of it (lock_client.cc).  One mutex guards the    *)
(* table lockState, so each handler is one step between two waits; one     *)
(* condition variable serves every lock, so a signal may wake a handler    *)
(* that waits for another lock.  Handlers run on the RPC library's thread  *)
(* pool, and a handler blocked in pthread_cond_wait keeps its thread.      *)
(***************************************************************************)
EXTENDS Naturals, FiniteSets

CONSTANTS
  Clients,    \* the threads that share the lock service
  Locks,      \* lock identifiers (lockid_t is an integer)
  PoolSize    \* threads of the RPC server's dispatch pool

ASSUME LockServerAssumption ==
  /\ IsFiniteSet(Clients)
  /\ Locks \subseteq Nat
  /\ PoolSize \in Nat \ {0}

VARIABLES
  lockState,  \* lockState[l]: the server's table, TRUE when l is locked
  queue,      \* calls sent, not yet given a pool thread
  ready,      \* calls whose handler has a thread and may enter the mutex
  waiters,    \* acquire handlers inside pthread_cond_wait(&cond, &mutex)
  replies,    \* calls whose handler has returned, reply not yet delivered
  held        \* held[c]: the locks c was told it holds and has not released

vars == <<lockState, queue, ready, waiters, replies, held>>

Call == [clt : Clients, op : {"acquire", "release"}, lid : Locks]

InFlight == queue \cup ready \cup waiters \cup replies

\* A client thread blocks in cl->call(...) until its reply arrives.
Idle(c) == \A k \in InFlight : k.clt # c

TypeOK ==
  /\ lockState \in [Locks -> BOOLEAN]
  /\ queue \subseteq Call
  /\ ready \subseteq Call
  /\ waiters \subseteq Call
  /\ replies \subseteq Call
  /\ held \in [Clients -> SUBSET Locks]

Init ==
  /\ lockState = [l \in Locks |-> FALSE]
  /\ queue = {} /\ ready = {} /\ waiters = {} /\ replies = {}
  /\ held = [c \in Clients |-> {}]

-----------------------------------------------------------------------------
(* The client side.                                                        *)

\* lock_client::acquire.  Callers take locks in increasing order
\* (NameNode::DualLock, and lock_tester's "acquire a acquire b").
CallAcquire(c, l) ==
  /\ Idle(c)
  /\ \A h \in held[c] : h < l
  /\ queue' = queue \cup {[clt |-> c, op |-> "acquire", lid |-> l]}
  /\ UNCHANGED <<lockState, ready, waiters, replies, held>>

\* lock_client::release.  Callers release only what they hold.
CallRelease(c, l) ==
  /\ Idle(c)
  /\ l \in held[c]
  /\ held' = [held EXCEPT ![c] = @ \ {l}]
  /\ queue' = queue \cup {[clt |-> c, op |-> "release", lid |-> l]}
  /\ UNCHANGED <<lockState, ready, waiters, replies>>

\* The stub returns: an acquire that came back OK is a lock in hand.
Return(k) ==
  /\ k \in replies
  /\ replies' = replies \ {k}
  /\ held' = IF k.op = "acquire" THEN [held EXCEPT ![k.clt] = @ \cup {k.lid}]
                                 ELSE held
  /\ UNCHANGED <<lockState, queue, ready, waiters>>

-----------------------------------------------------------------------------
(* The server side.                                                        *)

\* Faulty variant: the pool is one thread short.
DispatchOneShort(k) ==
  /\ k \in queue
  /\ Cardinality(ready \cup waiters) < PoolSize - 1
  /\ queue' = queue \ {k}
  /\ ready' = ready \cup {k}
  /\ UNCHANGED <<lockState, waiters, replies, held>>

\* The RPC library hands a call to an idle thread of its pool.
Dispatch(k) ==
  /\ k \in queue
  /\ Cardinality(ready \cup waiters) < PoolSize
  /\ queue' = queue \ {k}
  /\ ready' = ready \cup {k}
  /\ UNCHANGED <<lockState, waiters, replies, held>>

\* What acquire does with the lock once it leaves its loop.
Grab(k) ==
  /\ ready' = ready \ {k}
  /\ replies' = replies \cup {k}
  /\ UNCHANGED <<queue, waiters, held>>

\* Faulty variants: acquire does not test again after its wait; it does not
\* mark the lock; it stores the client in the table of flags.
AcquireUntested(k) ==
  /\ k \in ready /\ k.op = "acquire"
  /\ lockState' = [lockState EXCEPT ![k.lid] = TRUE]
  /\ Grab(k)

AcquireUnmarked(k) ==
  /\ k \in ready /\ k.op = "acquire"
  /\ ~lockState[k.lid]
  /\ UNCHANGED lockState
  /\ Grab(k)

AcquireOwner(k) ==
  /\ k \in ready /\ k.op = "acquire"
  /\ lockState[k.lid] = FALSE
  /\ lockState' = [lockState EXCEPT ![k.lid] = k.clt]
  /\ Grab(k)

\* lock_server::acquire: the loop test finds the lock free.
Acquire(k) ==
  /\ k \in ready /\ k.op = "acquire"
  /\ ~lockState[k.lid]
  /\ lockState' = [lockState EXCEPT ![k.lid] = TRUE]
  /\ Grab(k)

\* lock_server::acquire: the loop test finds the lock taken.
AcquireWait(k) ==
  /\ k \in ready /\ k.op = "acquire"
  /\ lockState[k.lid]
  /\ ready' = ready \ {k}
  /\ waiters' = waiters \cup {k}
  /\ UNCHANGED <<lockState, queue, replies, held>>

\* pthread_cond_signal(&cond) wakes one waiter, whichever lock it waits for.
Signalled == IF waiters = {} THEN {{}} ELSE {{w} : w \in waiters}

\* lock_server::release: free the lock and signal; a lock that is not locked
\* stays as it is and nobody is signalled (r = NOENT).
Release(k) ==
  /\ k \in ready /\ k.op = "release"
  /\ lockState' = [lockState EXCEPT ![k.lid] = FALSE]
  /\ \E woken \in IF lockState[k.lid] THEN Signalled ELSE {{}} :
       /\ waiters' = waiters \ woken
       /\ ready' = (ready \ {k}) \cup woken
  /\ replies' = replies \cup {k}
  /\ UNCHANGED <<queue, held>>

\* pthread_cond_wait may return without a signal.
SpuriousWakeup(k) ==
  /\ k \in waiters
  /\ waiters' = waiters \ {k}
  /\ ready' = ready \cup {k}
  /\ UNCHANGED <<lockState, queue, replies, held>>

Handler(k) == Acquire(k) \/ AcquireWait(k) \/ Release(k)

Next ==
  \/ \E c \in Clients, l \in Locks : CallAcquire(c, l) \/ CallRelease(c, l)
  \/ \E k \in Call : Return(k) \/ Dispatch(k) \/ Handler(k) \/ SpuriousWakeup(k)

Spec == Init /\ [][Next]_vars

\* The library delivers every call and reply and its threads are scheduled;
\* every yfs_client operation releases its lock on every path.  Nothing
\* forces a client to ask for a lock, and no wakeup comes for free.
Fairness ==
  /\ \A c \in Clients : WF_vars(\E l \in Locks : CallRelease(c, l))
  /\ \A k \in Call : WF_vars(Return(k)) /\ WF_vars(Dispatch(k)) /\ WF_vars(Handler(k))

FairSpec == Spec /\ Fairness

-----------------------------------------------------------------------------
(* Properties.                                                             *)

\* The clients a lock belongs to: one that was told so, one whose grant is
\* on its way back, or one whose release has not been carried out yet.
Owners(l) ==
  {c \in Clients : l \in held[c]}
    \cup {k.clt : k \in {j \in replies : j.op = "acquire" /\ j.lid = l}}
    \cup {k.clt : k \in {j \in queue \cup ready : j.op = "release" /\ j.lid = l}}

\* At any point in time at most one client holds a lock (Lab-2.html, "Your
\* job is to implement a correct lock server"; lock_tester's check_grant).
MutualExclusion ==
  \A l \in Locks : \A c, d \in Clients :
    l \in held[c] /\ l \in held[d] => c = d

\* The server's table never loses a lock that a client believes it holds:
\* a release handler always finds the lock locked, so release's NOENT
\* branch answers no client that follows the protocol.
TableAgrees ==
  /\ \A c \in Clients : \A l \in held[c] : lockState[l]
  /\ \A k \in ready : k.op = "release" => lockState[k.lid]

\* The lock server implements the lock service: grants and give-backs of
\* each lock alternate, with the server's step as the moment of the grant.
Service == INSTANCE LockService WITH owners <- [l \in Locks |-> Owners(l)]
ImplementsLockService == Service!Spec

Wanted(l) == \E k \in InFlight \ replies : k.op = "acquire" /\ k.lid = l

\* A lock that is free while somebody asks for it is eventually granted:
\* release's pthread_cond_signal loses no wakeup.
FreeLockIsGranted ==
  \A l \in Locks : (~lockState[l] /\ Wanted(l)) ~> lockState[l]

\* A release call is always served in the end: blocked acquire handlers do
\* not use up the pool threads that the release needs.
ReleaseIsServed ==
  \A c \in Clients, l \in Locks :
    LET k == [clt |-> c, op |-> "release", lid |-> l]
    IN  k \in queue ~> k \notin InFlight

=============================================================================
