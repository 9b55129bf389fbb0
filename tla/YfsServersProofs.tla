-------------------------- MODULE YfsServersProofs --------------------------
(***************************************************************************)
(* Machine-checked proofs about the two servers a YFS client talks to: the *)
(* lock server (LockServer) and the inode layer that the extent server     *)
(* keeps its files in (InodeLayer, InodeLayerStore), for every value of    *)
(* the constants.                                                          *)
(*                                                                         *)
(* The properties the runs check are not inductive.  Those of the lock     *)
(* server say nothing of grants and releases that are on their way:        *)
(* LockInv adds that a client has one call under way, that no call is in   *)
(* two places, and that the table marks exactly the owned locks.  Those of *)
(* the inode layer hold as long as neither the inode table nor the disk is *)
(* full (RoomInTable, RoomOnDisk), since alloc_block answers 0 and         *)
(* alloc_inode a number without an inode then, and nobody asks: LayerInv   *)
(* and StoreInv add the bounds on files from which that room follows.      *)
(***************************************************************************)
EXTENDS LockServer, InodeLayerStore, FiniteSetTheorems, WellFoundedInduction, TLAPS

\* A client thread is in one call at a time, and a call is in one place.
OneCall ==
  /\ \A j, k \in InFlight : j.clt = k.clt => j = k
  /\ queue \cap ready = {} /\ queue \cap waiters = {} /\ queue \cap replies = {}
  /\ ready \cap waiters = {} /\ ready \cap replies = {} /\ waiters \cap replies = {}

\* Nobody asks for, waits for or gives back a lock and still has it in hand.
CallsNotHeld == \A k \in InFlight : k.lid \notin held[k.clt]

\* Only acquire handlers wait.
WaitersAcquire == \A k \in waiters : k.op = "acquire"

\* The table entry of a lock is set exactly while the lock has an owner.
TableMarksOwned == \A l \in Locks : lockState[l] <=> Owners(l) # {}

\* No lock has two owners, those with a grant or a release on its way counted.
OneOwner == \A l \in Locks : \A c, d \in Owners(l) : c = d

LockInv ==
  TypeOK /\ OneCall /\ CallsNotHeld /\ WaitersAcquire /\ TableMarksOwned /\ OneOwner

-----------------------------------------------------------------------------
(* Type correctness.                                                       *)

LEMMA LockTypeInit == Init => TypeOK
BY DEF Init, TypeOK

LEMMA LockTypeStep == TypeOK /\ [Next]_vars => TypeOK'
<1> SUFFICES ASSUME TypeOK, [Next]_vars PROVE TypeOK'
  OBVIOUS
<1> USE DEF TypeOK
<1>1. CASE UNCHANGED vars
  BY <1>1 DEF vars
<1>2. ASSUME NEW c \in Clients, NEW l \in Locks, CallAcquire(c, l) PROVE TypeOK'
  BY <1>2 DEF CallAcquire, Call
<1>3. ASSUME NEW c \in Clients, NEW l \in Locks, CallRelease(c, l) PROVE TypeOK'
  BY <1>3 DEF CallRelease, Call
<1>4. ASSUME NEW k \in Call, Return(k) PROVE TypeOK'
  BY <1>4 DEF Return, Call
<1>5. ASSUME NEW k \in Call, Dispatch(k) PROVE TypeOK'
  BY <1>5 DEF Dispatch
<1>6. ASSUME NEW k \in Call, Acquire(k) PROVE TypeOK'
  BY <1>6 DEF Acquire, Grab
<1>7. ASSUME NEW k \in Call, AcquireWait(k) PROVE TypeOK'
  BY <1>7 DEF AcquireWait
<1>8. ASSUME NEW k \in Call, Release(k) PROVE TypeOK'
  BY <1>8 DEF Release, Signalled
<1>9. ASSUME NEW k \in Call, SpuriousWakeup(k) PROVE TypeOK'
  BY <1>9 DEF SpuriousWakeup
<1> QED
  BY <1>1, <1>2, <1>3, <1>4, <1>5, <1>6, <1>7, <1>8, <1>9 DEF Next, Handler

\* Every state of the lock server is well typed, whatever calls are made.
THEOREM LockTypeCorrect == Spec => []TypeOK
<1>1. Init => TypeOK
  BY LockTypeInit
<1>2. TypeOK /\ [Next]_vars => TypeOK'
  BY LockTypeStep
<1> QED
  BY <1>1, <1>2, PTL DEF Spec

-----------------------------------------------------------------------------
(* How each step changes the owners of a lock.                             *)

\* Only Acquire and Release change the owners: sending, dispatching, waiting,
\* waking and returning do not.
LEMMA OwnersUnchanged ==
  ASSUME LockInv, TypeOK',
         \/ UNCHANGED vars
         \/ \E c \in Clients, l \in Locks : CallAcquire(c, l) \/ CallRelease(c, l)
         \/ \E k \in Call : Return(k) \/ Dispatch(k) \/ AcquireWait(k) \/ SpuriousWakeup(k),
         NEW m \in Locks
  PROVE  Owners(m)' = Owners(m)
<1> USE DEF LockInv, TypeOK, Owners
<1>1. CASE UNCHANGED vars
  BY <1>1 DEF vars
<1>2. ASSUME NEW c \in Clients, NEW l \in Locks, CallAcquire(c, l)
      PROVE  Owners(m)' = Owners(m)
  BY <1>2 DEF CallAcquire
<1>3. ASSUME NEW c \in Clients, NEW l \in Locks, CallRelease(c, l)
      PROVE  Owners(m)' = Owners(m)
  <2> DEFINE call == [clt |-> c, op |-> "release", lid |-> l]
  <2>1. /\ queue' = queue \cup {call}
        /\ held' = [held EXCEPT ![c] = @ \ {l}]
        /\ l \in held[c] /\ ready' = ready /\ replies' = replies
    BY <1>3 DEF CallRelease
  <2>2. \A d \in Clients : m \in held[d] => m \in held'[d] \/ (d = c /\ m = l)
    BY <2>1
  <2>3. \A d \in Clients : m \in held'[d] => m \in held[d]
    BY <2>1
  <2>4. call.clt = c /\ call.op = "release" /\ call.lid = l
    OBVIOUS
  <2>5. \A k \in queue' \cup ready' : k \in queue \cup ready \/ k = call
    BY <2>1
  <2> HIDE DEF call
  <2>6. Owners(m) \subseteq Owners(m)'
    BY <2>1, <2>2, <2>4
  <2>7. Owners(m)' \subseteq Owners(m)
    BY <2>1, <2>3, <2>4, <2>5
  <2> QED
    BY <2>6, <2>7
<1>4. ASSUME NEW k \in Call, Return(k) PROVE Owners(m)' = Owners(m)
  BY <1>4 DEF Return, Call
<1>5. ASSUME NEW k \in Call, Dispatch(k) PROVE Owners(m)' = Owners(m)
  BY <1>5 DEF Dispatch
<1>6. ASSUME NEW k \in Call, AcquireWait(k) PROVE Owners(m)' = Owners(m)
  BY <1>6 DEF AcquireWait
<1>7. ASSUME NEW k \in Call, SpuriousWakeup(k) PROVE Owners(m)' = Owners(m)
  BY <1>7 DEF SpuriousWakeup, WaitersAcquire
<1> QED
  BY <1>1, <1>2, <1>3, <1>4, <1>5, <1>6, <1>7

\* The handler of acquire makes its client the owner of a lock nobody owned.
LEMMA AcquireOwners ==
  ASSUME LockInv, NEW k \in Call, Acquire(k)
  PROVE  /\ Owners(k.lid) = {}
         /\ Owners(k.lid)' = {k.clt}
         /\ \A m \in Locks \ {k.lid} : Owners(m)' = Owners(m)
<1> USE DEF LockInv, TypeOK
<1>1. k.lid \in Locks /\ k.clt \in Clients
  BY DEF Call
<1>2. Owners(k.lid) = {}
  BY <1>1 DEF Acquire, Grab, TableMarksOwned
<1>3. \A m \in Locks : Owners(m)' = IF m = k.lid THEN Owners(m) \cup {k.clt} ELSE Owners(m)
  BY <1>1 DEF Acquire, Grab, Owners
<1> QED
  BY <1>1, <1>2, <1>3

\* The handler of release takes the lock from its one owner, the caller.
LEMMA ReleaseOwners ==
  ASSUME LockInv, NEW k \in Call, Release(k)
  PROVE  /\ Owners(k.lid) = {k.clt}
         /\ Owners(k.lid)' = {}
         /\ \A m \in Locks \ {k.lid} : Owners(m)' = Owners(m)
<1> USE DEF LockInv, TypeOK
<1>1. k.lid \in Locks /\ k.clt \in Clients /\ k \in ready /\ k.op = "release"
  BY DEF Call, Release
<1>2. k.clt \in Owners(k.lid)
  BY <1>1 DEF Owners
<1>3. Owners(k.lid) = {k.clt}
  BY <1>1, <1>2 DEF OneOwner
<1>4. PICK woken \in SUBSET waiters :
        /\ ready' = (ready \ {k}) \cup woken
        /\ replies' = replies \cup {k}
        /\ UNCHANGED <<queue, held>>
  BY DEF Release, Signalled
<1>5. \A j \in woken : j.op = "acquire"
  BY <1>4 DEF WaitersAcquire
<1>6. \A m \in Locks : Owners(m)' \subseteq Owners(m)
  BY <1>1, <1>4, <1>5 DEF Owners
<1>7. k.clt \notin Owners(k.lid)'
  <2>1. k.lid \notin held'[k.clt]
    BY <1>1, <1>4 DEF CallsNotHeld, InFlight
  <2>2. \A j \in queue \cup (ready \ {k}) \cup replies : j.clt # k.clt
    BY <1>1 DEF OneCall, InFlight
  <2> QED
    BY <1>1, <1>4, <1>5, <2>1, <2>2 DEF Owners
<1>8. \A m \in Locks \ {k.lid} : Owners(m) \subseteq Owners(m)'
  BY <1>1, <1>4 DEF Owners
<1> QED
  BY <1>1, <1>3, <1>6, <1>7, <1>8

-----------------------------------------------------------------------------
(* LockInv is inductive.                                                   *)

LEMMA LockInvInit == Init => LockInv
BY DEF Init, LockInv, TypeOK, OneCall, CallsNotHeld, WaitersAcquire,
       TableMarksOwned, OneOwner, Owners, InFlight

\* The bookkeeping of calls: one per client, in one place, of a lock not held.
LEMMA CallsStep ==
  ASSUME LockInv, [Next]_vars
  PROVE  OneCall' /\ CallsNotHeld' /\ WaitersAcquire'
<1> USE DEF LockInv, TypeOK, OneCall, CallsNotHeld, WaitersAcquire, InFlight
<1>1. CASE UNCHANGED vars
  BY <1>1 DEF vars
<1>2. ASSUME NEW c \in Clients, NEW l \in Locks, CallAcquire(c, l)
      PROVE  OneCall' /\ CallsNotHeld' /\ WaitersAcquire'
  <2>1. l \notin held[c]
    BY <1>2, LockServerAssumption DEF CallAcquire
  <2> QED
    BY <1>2, <2>1 DEF CallAcquire, Idle
<1>3. ASSUME NEW c \in Clients, NEW l \in Locks, CallRelease(c, l)
      PROVE  OneCall' /\ CallsNotHeld' /\ WaitersAcquire'
  BY <1>3 DEF CallRelease, Idle
<1>4. ASSUME NEW k \in Call, Return(k)
      PROVE  OneCall' /\ CallsNotHeld' /\ WaitersAcquire'
  <2>1. /\ k \in replies /\ replies' = replies \ {k}
        /\ UNCHANGED <<queue, ready, waiters>>
        /\ \A c \in Clients \ {k.clt} : held'[c] = held[c]
    BY <1>4 DEF Return, Call
  <2>2. InFlight' = InFlight \ {k}
    BY <2>1
  <2>3. \A j \in InFlight' : j \in Call /\ j.clt \in Clients \ {k.clt}
    BY <2>1, <2>2 DEF Call
  <2> QED
    BY <2>1, <2>2, <2>3
<1>5. ASSUME NEW k \in Call, Dispatch(k)
      PROVE  OneCall' /\ CallsNotHeld' /\ WaitersAcquire'
  BY <1>5 DEF Dispatch
<1>6. ASSUME NEW k \in Call, Acquire(k)
      PROVE  OneCall' /\ CallsNotHeld' /\ WaitersAcquire'
  BY <1>6 DEF Acquire, Grab
<1>7. ASSUME NEW k \in Call, AcquireWait(k)
      PROVE  OneCall' /\ CallsNotHeld' /\ WaitersAcquire'
  BY <1>7 DEF AcquireWait
<1>8. ASSUME NEW k \in Call, Release(k)
      PROVE  OneCall' /\ CallsNotHeld' /\ WaitersAcquire'
  <2>1. PICK woken \in SUBSET waiters :
          /\ waiters' = waiters \ woken
          /\ ready' = (ready \ {k}) \cup woken
    BY <1>8 DEF Release, Signalled
  <2>2. k \in ready /\ replies' = replies \cup {k} /\ UNCHANGED <<queue, held>>
    BY <1>8 DEF Release
  <2> QED
    BY <2>1, <2>2
<1>9. ASSUME NEW k \in Call, SpuriousWakeup(k)
      PROVE  OneCall' /\ CallsNotHeld' /\ WaitersAcquire'
  BY <1>9 DEF SpuriousWakeup
<1> QED
  BY <1>1, <1>2, <1>3, <1>4, <1>5, <1>6, <1>7, <1>8, <1>9 DEF Next, Handler

\* The table and the owners change together.
LEMMA TableStep ==
  ASSUME LockInv, TypeOK', [Next]_vars
  PROVE  TableMarksOwned' /\ OneOwner'
<1>1. ASSUME \/ UNCHANGED vars
             \/ \E c \in Clients, l \in Locks : CallAcquire(c, l) \/ CallRelease(c, l)
             \/ \E k \in Call :
                  Return(k) \/ Dispatch(k) \/ AcquireWait(k) \/ SpuriousWakeup(k)
      PROVE  TableMarksOwned' /\ OneOwner'
  <2>1. lockState' = lockState
    BY <1>1 DEF vars, CallAcquire, CallRelease, Return, Dispatch, AcquireWait,
                SpuriousWakeup
  <2>2. \A m \in Locks : Owners(m)' = Owners(m)
    BY <1>1, OwnersUnchanged
  <2> QED
    BY <2>1, <2>2 DEF LockInv, TableMarksOwned, OneOwner
<1>2. ASSUME NEW k \in Call, Acquire(k) PROVE TableMarksOwned' /\ OneOwner'
  <2>1. /\ Owners(k.lid)' = {k.clt}
        /\ \A m \in Locks \ {k.lid} : Owners(m)' = Owners(m)
    BY <1>2, AcquireOwners
  <2>2. /\ k.lid \in Locks
        /\ lockState \in [Locks -> BOOLEAN]
        /\ lockState' = [lockState EXCEPT ![k.lid] = TRUE]
    BY <1>2 DEF Acquire, Grab, Call, LockInv, TypeOK
  <2> QED
    BY <2>1, <2>2 DEF LockInv, TableMarksOwned, OneOwner
<1>3. ASSUME NEW k \in Call, Release(k) PROVE TableMarksOwned' /\ OneOwner'
  <2>1. /\ Owners(k.lid)' = {}
        /\ \A m \in Locks \ {k.lid} : Owners(m)' = Owners(m)
    BY <1>3, ReleaseOwners
  <2>2. /\ k.lid \in Locks
        /\ lockState \in [Locks -> BOOLEAN]
        /\ lockState' = [lockState EXCEPT ![k.lid] = FALSE]
    BY <1>3 DEF Release, Call, LockInv, TypeOK
  <2> QED
    BY <2>1, <2>2 DEF LockInv, TableMarksOwned, OneOwner
<1> QED
  BY <1>1, <1>2, <1>3 DEF Next, Handler

LEMMA LockInvStep == LockInv /\ [Next]_vars => LockInv'
BY LockTypeStep, CallsStep, TableStep DEF LockInv

LEMMA LockInvariant == Spec => []LockInv
BY LockInvInit, LockInvStep, PTL DEF Spec

-----------------------------------------------------------------------------
(* The promises of the lock server.                                        *)

\* At most one client holds a lock, whatever the clients, the locks, the pool
\* size, the order of dispatch and the waiter that each signal happens to wake.
THEOREM Mutex == Spec => []MutualExclusion
<1>1. LockInv => MutualExclusion
  BY DEF LockInv, OneOwner, Owners, MutualExclusion
<1> QED
  BY <1>1, LockInvariant, PTL

\* A lock in a client's hands is locked in the table, and a release handler
\* never meets a free lock: its NOENT branch is dead for such clients.
THEOREM TableIsTruthful == Spec => []TableAgrees
<1>1. LockInv => TableAgrees
  <2> SUFFICES ASSUME LockInv PROVE TableAgrees
    OBVIOUS
  <2>1. \A c \in Clients : \A l \in held[c] : lockState[l]
    BY DEF LockInv, TypeOK, TableMarksOwned, Owners
  <2>2. \A k \in ready : k.op = "release" => lockState[k.lid]
    BY DEF LockInv, TypeOK, Call, TableMarksOwned, Owners
  <2> QED
    BY <2>1, <2>2 DEF TableAgrees
<1> QED
  BY <1>1, LockInvariant, PTL

\* The lock server implements the lock service: the step of acquire that sets
\* the table is the grant, the step of release that clears it the give-back,
\* and every other step of clients, library and handlers is a stutter.
THEOREM Refinement == Spec => ImplementsLockService
<1>1. Init => Service!Init
  BY DEF Init, Service!Init, Owners
<1>2. ASSUME LockInv, TypeOK', [Next]_vars
      PROVE  [Service!Next]_[l \in Locks |-> Owners(l)]
  <2> DEFINE owners == [l \in Locks |-> Owners(l)]
  <2>1. ASSUME \/ UNCHANGED vars
               \/ \E c \in Clients, l \in Locks : CallAcquire(c, l) \/ CallRelease(c, l)
               \/ \E k \in Call :
                    Return(k) \/ Dispatch(k) \/ AcquireWait(k) \/ SpuriousWakeup(k)
        PROVE  owners' = owners
    BY <1>2, <2>1, OwnersUnchanged
  <2>2. ASSUME NEW k \in Call, Acquire(k) PROVE Service!Next
    <3>1. k.clt \in Clients /\ k.lid \in Locks
      BY DEF Call
    <3>2. Service!Grant(k.clt, k.lid)
      BY <1>2, <2>2, <3>1, AcquireOwners DEF Service!Grant
    <3> QED
      BY <3>1, <3>2 DEF Service!Next
  <2>3. ASSUME NEW k \in Call, Release(k) PROVE Service!Next
    <3>1. k.clt \in Clients /\ k.lid \in Locks
      BY DEF Call
    <3>2. Service!GiveBack(k.clt, k.lid)
      BY <1>2, <2>3, <3>1, ReleaseOwners DEF Service!GiveBack
    <3> QED
      BY <3>1, <3>2 DEF Service!Next
  <2> QED
    BY <1>2, <2>1, <2>2, <2>3 DEF Next, Handler
<1> QED
  BY <1>1, <1>2, LockInvariant, LockTypeCorrect, PTL DEF Spec, ImplementsLockService, Service!Spec

-----------------------------------------------------------------------------
(* The inode layer.  First, sets of numbers: which block alloc_block takes. *)

\* A set of numbers that is not empty has a least one.
LEMMA LeastOf ==
  ASSUME NEW S, NEW x \in S, S \subseteq Nat
  PROVE  \E m \in S : \A y \in S : m <= y
<1>1. IsWellFoundedOn(OpToRel(<, Nat), Nat)
  BY NatLessThanWellFounded
<1>2. PICK m \in S : \A y \in S : ~(<<y, m>> \in OpToRel(<, Nat))
  BY <1>1, WFMin
<1>3. \A y \in S : ~(y < m)
  BY <1>2, Zenon DEF OpToRel
<1>4. \A y \in S : m <= y
  BY <1>3
<1> QED
  BY <1>4

\* A set of numbers up to n has a greatest one.
LEMMA GreatestOf ==
  ASSUME NEW S, NEW x \in S, NEW n \in Nat, S \subseteq 0..n
  PROVE  \E m \in S : \A y \in S : y <= m
<1> DEFINE T == {n - y : y \in S}
<1>1. T \subseteq Nat /\ n - x \in T
  <2>1. \A y \in S : n - y \in Nat
    OBVIOUS
  <2> QED
    BY <2>1
<1>2. PICK t \in T : \A u \in T : t <= u
  BY <1>1, LeastOf
<1>3. PICK m \in S : t = n - m
  BY <1>2
<1>4. \A y \in S : n - m <= n - y
  BY <1>2, <1>3
<1> HIDE DEF T
<1>5. \A y \in S : y \in Nat /\ m \in Nat
  OBVIOUS
<1>6. \A y \in S : y <= m
  BY <1>4, <1>5
<1> QED
  BY <1>6

\* The elements of a set of numbers that come before b.
Before(S, b) == {x \in S : x < b}

\* All but the greatest come before the greatest.
LEMMA BeforeGreatest ==
  ASSUME NEW S \in SUBSET Nat, NEW g \in S, \A y \in S : y <= g
  PROVE  Before(S, g) = S \ {g}
<1>1. \A y \in S : y < g <=> y # g
  OBVIOUS
<1> QED
  BY <1>1, Zenon DEF Before

\* One less comes before the predecessor of b than before b.
LEMMA BeforePredecessor ==
  ASSUME NEW S \in SUBSET Nat, NEW b \in S, NEW p \in Before(S, b),
         \A y \in Before(S, b) : y <= p
  PROVE  Before(S, p) = Before(S, b) \ {p}
<1>1. p \in S /\ p < b /\ \A y \in S : y < b => y <= p
  BY DEF Before
<1>2. \A y \in S : y < p <=> y < b /\ y # p
  BY <1>1
<1> QED
  BY <1>2, Zenon DEF Before

\* In a finite set of numbers every rank is taken: for k up to its size some
\* element has k - 1 smaller ones.
LEMMA RankIsTaken ==
  ASSUME NEW n \in Nat, NEW S \in SUBSET (0..n),
         NEW k \in Nat, 1 <= k, k <= Cardinality(S)
  PROVE  \E b \in S : Cardinality(Before(S, b)) = k - 1
<1> DEFINE late == {b \in S : Cardinality(Before(S, b)) >= k - 1}
<1>1. IsFiniteSet(S) /\ Cardinality(S) \in Nat
  <2>1. IsFiniteSet(0..n)
    BY FS_Interval
  <2> QED
    BY <2>1, FS_Subset, FS_CardinalityType
<1>2. S \in SUBSET Nat
  OBVIOUS
<1>3. ASSUME NEW b \in S
      PROVE  /\ Before(S, b) \subseteq S
             /\ IsFiniteSet(Before(S, b))
             /\ Cardinality(Before(S, b)) \in Nat
  <2>1. Before(S, b) \subseteq S
    BY DEF Before
  <2> QED
    BY <1>1, <2>1, FS_Subset, FS_CardinalityType
<1>4. S # {}
  <2>1. Cardinality({}) = 0
    BY FS_EmptySet
  <2> QED
    BY <2>1
<1>5. PICK g \in S : \A y \in S : y <= g
  BY <1>4, GreatestOf
<1>6. g \in late
  <2>1. Before(S, g) = S \ {g}
    BY <1>2, <1>5, BeforeGreatest
  <2>2. Cardinality(S \ {g}) = Cardinality(S) - 1
    BY <1>1, FS_RemoveElement
  <2> QED
    BY <1>1, <2>1, <2>2
<1>7. late \subseteq Nat
  BY <1>2
<1>8. PICK b \in late : \A y \in late : b <= y
  <2> HIDE DEF late
  <2> QED
    BY <1>6, <1>7, LeastOf
<1>9. ASSUME Cardinality(Before(S, b)) # k - 1 PROVE FALSE
  <2>1. Cardinality(Before(S, b)) \in Nat /\ Cardinality(Before(S, b)) >= k
    BY <1>3, <1>8, <1>9
  <2>2. Before(S, b) # {}
    <3>1. Cardinality({}) = 0
      BY FS_EmptySet
    <3> QED
      BY <2>1, <3>1
  <2>3. PICK p \in Before(S, b) : \A y \in Before(S, b) : y <= p
    <3>1. Before(S, b) \subseteq 0..n
      BY <1>3, <1>8
    <3> QED
      BY <2>2, <3>1, GreatestOf
  <2>4. p \in S /\ p < b
    BY <2>3 DEF Before
  <2>5. Before(S, p) = Before(S, b) \ {p}
    BY <1>2, <1>8, <2>3, BeforePredecessor
  <2>6. Cardinality(Before(S, b) \ {p}) = Cardinality(Before(S, b)) - 1
    BY <1>3, <1>8, <2>3, FS_RemoveElement
  <2>7. p \in late
    <3>1. Cardinality(Before(S, p)) = Cardinality(Before(S, b)) - 1
      BY <2>5, <2>6
    <3>2. Cardinality(Before(S, p)) >= k - 1
      BY <2>1, <3>1
    <3> QED
      BY <2>4, <3>2
  <2> QED
    BY <1>2, <1>8, <2>4, <2>7
<1> QED
  BY <1>8, <1>9

-----------------------------------------------------------------------------
(* Numbers of blocks.                                                      *)

\* The slots that n blocks take, the one of the indirect block counted.
Count(n) == IF n <= NDIRECT THEN n ELSE n + 1

\* The constants, one by one.
LEMMA Sizes ==
  /\ BLOCK_SIZE \in Nat \ {0} /\ BLOCK_NUM \in Nat \ {0} /\ INODE_NUM \in Nat \ {0}
  /\ NDIRECT \in Nat \ {0} /\ NINDIRECT \in Nat \ {0}
  /\ INODE_NUM + 3 < BLOCK_NUM
  /\ MaxFiles \in 1..INODE_NUM
  /\ MaxBlocks \in Nat \ {0}
  /\ MaxBlocks <= MAXFILE
  /\ MAXFILE = NDIRECT + NINDIRECT /\ MAXFILE \in Nat
BY InodeLayerAssumption DEF MAXFILE

\* The slots of a file are the first Count(n), and more blocks take more.
LEMMA SlotsAre ==
  ASSUME NEW n \in 0..MaxBlocks
  PROVE  /\ Slots(n) = 0..(Count(n) - 1)
         /\ Count(n) \in 0..(MAXFILE + 1)
         /\ Cardinality(Slots(n)) = Count(n)
         /\ IsFiniteSet(Slots(n))
         /\ Slots(n) \subseteq 0..MAXFILE
         /\ \A m \in n..MaxBlocks : Count(n) <= Count(m)
<1>0. n \in Nat /\ NDIRECT \in Nat /\ MaxBlocks \in Nat /\ MAXFILE \in Nat /\ n <= MAXFILE
  BY Sizes
<1>1. /\ Slots(n) = 0..(Count(n) - 1)
      /\ Count(n) \in 0..(MAXFILE + 1)
      /\ \A m \in n..MaxBlocks : Count(n) <= Count(m)
  <2>1. CASE n <= NDIRECT
    BY <1>0, <2>1 DEF Slots, Count
  <2>2. CASE ~(n <= NDIRECT)
    BY <1>0, <2>2 DEF Slots, Count
  <2> QED
    BY <2>1, <2>2
<1>2. Cardinality(Slots(n)) = Count(n) /\ IsFiniteSet(Slots(n))
  <2>1. Count(n) - 1 \in Int /\ 0 \in Int
    BY <1>1, Sizes
  <2>2. /\ IsFiniteSet(0..(Count(n) - 1))
        /\ Cardinality(0..(Count(n) - 1))
             = IF 0 > Count(n) - 1 THEN 0 ELSE (Count(n) - 1) - 0 + 1
    BY <2>1, FS_Interval
  <2>3. Cardinality(0..(Count(n) - 1)) = Count(n)
    <3>1. Count(n) \in Nat
      BY <1>1, Sizes
    <3> QED
      BY <2>2, <3>1
  <2> QED
    BY <1>1, <2>2, <2>3
<1> QED
  BY <1>1, <1>2, Sizes

\* The data slots of an n-block file: all but the indirect block's.
LEMMA SlotOf ==
  ASSUME NEW n \in 0..MaxBlocks
  PROVE  /\ \A k \in 1..n : Slot(k - 1) \in Slots(n) \ {NDIRECT}
         /\ \A k, m \in 1..n : Slot(k - 1) = Slot(m - 1) => k = m
BY Sizes DEF Slots, Slot

\* A size in bytes as a number of blocks.
LEMMA BlockNumIs ==
  ASSUME NEW size \in Nat
  PROVE  /\ blockNum(size) \in Nat
         /\ blockNum(0) = 0
         /\ blockNum(size + BLOCK_SIZE) = blockNum(size) + 1
<1>1. BLOCK_SIZE \in Nat \ {0}
  BY Sizes
<1>2. blockNum(size) \in Nat
  BY <1>1 DEF blockNum
<1>3. blockNum(0) = 0
  BY <1>1 DEF blockNum
<1>4. blockNum(size + BLOCK_SIZE) = blockNum(size) + 1
  BY <1>1 DEF blockNum
<1> QED
  BY <1>2, <1>3, <1>4

\* alloc_block answers 0 or a free data block, the same one for no two of the
\* blocks asked for in a row.
LEMMA AllocIs ==
  ASSUME NEW used, NEW k \in Nat \ {0}
  PROVE  \/ alloc_block(used, k) = 0
         \/ /\ alloc_block(used, k) \in DataBlocks \ used
            /\ Cardinality(Before(DataBlocks \ used, alloc_block(used, k))) = k - 1
<1> DEFINE free == DataBlocks \ used
<1>1. free \in SUBSET (0..BLOCK_NUM) /\ BLOCK_NUM \in Nat
  BY Sizes DEF DataBlocks, firstBlockId
<1>2. Cardinality(free) \in Nat
  <2>1. IsFiniteSet(0..BLOCK_NUM)
    BY <1>1, FS_Interval
  <2> QED
    BY <1>1, <2>1, FS_Subset, FS_CardinalityType
<1>3. alloc_block(used, k) = IF Cardinality(free) < k THEN 0
                             ELSE CHOOSE b \in free : Cardinality(Before(free, b)) = k - 1
  BY Zenon DEF alloc_block, Before
<1>4. ASSUME ~(Cardinality(free) < k)
      PROVE  \E b \in free : Cardinality(Before(free, b)) = k - 1
  <2> HIDE DEF free
  <2> QED
    BY <1>1, <1>2, <1>4, RankIsTaken
<1> HIDE DEF free
<1>5. CASE Cardinality(free) < k
  BY <1>3, <1>5
<1>6. ASSUME ~(Cardinality(free) < k)
      PROVE  /\ alloc_block(used, k) \in free
             /\ Cardinality(Before(free, alloc_block(used, k))) = k - 1
  BY <1>3, <1>4, <1>6
<1> QED
  BY <1>5, <1>6 DEF free

\* Two blocks asked for in a row are two blocks.
LEMMA AllocDiffers ==
  ASSUME NEW used, NEW k \in Nat \ {0}, NEW m \in Nat \ {0},
         alloc_block(used, k) # 0, alloc_block(used, k) = alloc_block(used, m)
  PROVE  k = m
<1>1. Cardinality(Before(DataBlocks \ used, alloc_block(used, k))) = k - 1
  BY AllocIs
<1>2. Cardinality(Before(DataBlocks \ used, alloc_block(used, m))) = m - 1
  BY AllocIs
<1> QED
  BY <1>1, <1>2

\* A disk with k free blocks answers.
LEMMA AllocAnswers ==
  ASSUME NEW used, NEW k \in Nat \ {0}, k <= Cardinality(DataBlocks \ used)
  PROVE  alloc_block(used, k) # 0
<1> DEFINE free == DataBlocks \ used
<1>1. free \in SUBSET (0..BLOCK_NUM) /\ BLOCK_NUM \in Nat /\ 0 \notin free
  BY Sizes DEF DataBlocks, firstBlockId
<1>2. Cardinality(free) \in Nat
  <2>1. IsFiniteSet(0..BLOCK_NUM)
    BY <1>1, FS_Interval
  <2> QED
    BY <1>1, <2>1, FS_Subset, FS_CardinalityType
<1>3. alloc_block(used, k) = IF Cardinality(free) < k THEN 0
                             ELSE CHOOSE b \in free : Cardinality(Before(free, b)) = k - 1
  BY Zenon DEF alloc_block, Before
<1>4. \E b \in free : Cardinality(Before(free, b)) = k - 1
  <2>1. k <= Cardinality(free)
    OBVIOUS
  <2> HIDE DEF free
  <2> QED
    BY <1>1, <1>2, <2>1, RankIsTaken
<1>5. ~(Cardinality(free) < k)
  BY <1>2
<1> HIDE DEF free
<1> QED
  BY <1>1, <1>3, <1>4, <1>5

\* Where things are: the inode table is before the data.
LEMMA Layout ==
  /\ DataBlocks \subseteq BlockIds
  /\ 0 \in BlockIds \ DataBlocks
  /\ \A i \in 1..INODE_NUM : IBLOCK(i) \in BlockIds
  /\ \A i \in Inums : IBLOCK(i) \in BlockIds \ DataBlocks
  /\ \A i, j \in 1..INODE_NUM : IBLOCK(i) = IBLOCK(j) => i = j
  /\ Inums \subseteq 1..INODE_NUM
BY Sizes DEF DataBlocks, BlockIds, IBLOCK, Inums, firstBlockId

\* What alloc_block answers can be written to, 0 included.
LEMMA AllocType == ASSUME NEW used, NEW k \in Nat \ {0} PROVE alloc_block(used, k) \in BlockIds
BY AllocIs, Layout

\* alloc_inode finds a number that get_inode does not find; a number that an
\* inode may have as long as the table is not full.
LEMMA FirstFreeIs ==
  /\ FirstFreeInum \in 1..INODE_NUM
  /\ ~Exists(disk, FirstFreeInum)
  /\ \A j \in 1..(FirstFreeInum - 1) : Exists(disk, j)
<1> DEFINE none == {i \in 1..INODE_NUM : ~Exists(disk, i)}
<1>1. INODE_NUM \in none /\ none \subseteq Nat
  BY Sizes DEF Exists, get_inode, NoInode, Inums
<1>2. PICK i \in none : \A j \in none : i <= j
  <2> HIDE DEF none
  <2> QED
    BY <1>1, LeastOf
<1>3. i \in 1..INODE_NUM /\ ~Exists(disk, i) /\ \A j \in 1..(i - 1) : Exists(disk, j)
  <2>1. i \in 1..INODE_NUM /\ INODE_NUM \in Nat
    BY <1>2, Sizes
  <2>2. \A j \in 1..(i - 1) : j \in 1..INODE_NUM /\ ~(i <= j)
    BY <2>1
  <2> QED
    BY <1>2, <2>1, <2>2
<1> QED
  BY <1>3, Zenon DEF FirstFreeInum

\* The live files can be counted.
LEMMA LiveIsFinite == IsFiniteSet(Live) /\ Cardinality(Live) \in Nat /\ Live \subseteq Inums
<1>1. IsFiniteSet(Inums) /\ Live \subseteq Inums
  <2>1. IsFiniteSet(1..(INODE_NUM - 1))
    BY Sizes, FS_Interval
  <2> QED
    BY <2>1 DEF Inums, Live
<1> QED
  BY <1>1, FS_Subset, FS_CardinalityType

\* The table has a number for each of MaxFiles files, so alloc_inode always
\* finds one that is free.
RoomInTable == MaxFiles < INODE_NUM

\* With room in the table a new file gets a number of its own.
LEMMA FirstFreeIsANumber ==
  ASSUME RoomInTable, Cardinality(Live) < MaxFiles
  PROVE  FirstFreeInum \in Inums \ Live
<1>1. Cardinality(Inums) = INODE_NUM - 1 /\ IsFiniteSet(Inums) /\ Live \subseteq Inums
  <2>1. INODE_NUM \in Nat /\ 1 \in Int /\ INODE_NUM - 1 \in Int /\ INODE_NUM >= 1
    BY Sizes
  <2>2. IsFiniteSet(Inums) /\ Cardinality(Inums)
           = IF 1 > INODE_NUM - 1 THEN 0 ELSE (INODE_NUM - 1) - 1 + 1
    BY <2>1, FS_Interval DEF Inums
  <2> QED
    BY <2>1, <2>2, LiveIsFinite
<1>2. Inums \ Live # {}
  <2>1. Cardinality(Live) < Cardinality(Inums)
    BY <1>1, LiveIsFinite, Sizes DEF RoomInTable
  <2> QED
    BY <1>1, <2>1, LiveIsFinite
<1>3. PICK j \in Inums : ~Exists(disk, j)
  BY <1>2 DEF Live
<1>4. FirstFreeInum # INODE_NUM
  BY <1>3, FirstFreeIs, Sizes DEF Inums
<1> QED
  BY <1>4, FirstFreeIs, Sizes DEF Inums, Live

-----------------------------------------------------------------------------
(* What the layer reads off a well-typed disk.                             *)

\* What a block of the disk may hold.
Contents == Inode \cup Pointers \cup Data \cup {Zero}

\* The number of blocks of file i.
BlockCount(i) == blockNum(get_inode(disk, i).size)

\* An inode freed or not yet used is an inode.
LEMMA NoInodeType == NoInode \in Inode
BY Layout DEF NoInode, NoIds, Inode

\* get_inode answers an inode, NoInode when there is none.
LEMMA InodeType ==
  ASSUME DiskTypeOK, NEW i
  PROVE  /\ get_inode(disk, i) \in Inode
         /\ Exists(disk, i) => i \in Inums /\ get_inode(disk, i) = disk[IBLOCK(i)]
         /\ BlockCount(i) \in Nat
<1>1. i \in Inums => disk[IBLOCK(i)] \in Contents
  BY Layout DEF DiskTypeOK, Contents
<1>2. \A block \in Contents : block.kind = "inode" => block \in Inode
  BY DEF Contents, Pointers, Data, Zero
<1>3. get_inode(disk, i) \in Inode
  BY <1>1, <1>2, NoInodeType DEF get_inode
<1>4. Exists(disk, i) => i \in Inums /\ get_inode(disk, i) = disk[IBLOCK(i)]
  BY DEF Exists, get_inode, NoInode
<1>5. get_inode(disk, i).size \in Nat
  BY <1>3 DEF Inode
<1> QED
  BY <1>3, <1>4, <1>5, BlockNumIs DEF BlockCount

\* The ids of a block are ids of blocks.
LEMMA IdsType ==
  ASSUME NEW block \in Contents
  PROVE  Ids(block) \in [0..(NINDIRECT - 1) -> BlockIds]
<1>1. CASE block.kind = "ids"
  <2>1. block \in Pointers
    BY <1>1 DEF Contents, Inode, Data, Zero
  <2> QED
    BY <1>1, <2>1 DEF Ids, Pointers
<1>2. CASE block.kind # "ids"
  BY <1>2, Layout DEF Ids
<1> QED
  BY <1>1, <1>2

\* The ids that an inode reaches, through its indirect block too.
LEMMA TableType ==
  ASSUME DiskTypeOK, NEW i
  PROVE  /\ Table(disk, get_inode(disk, i)) \in [0..MAXFILE -> BlockIds]
         /\ \A s \in 0..NDIRECT : Table(disk, get_inode(disk, i))[s] = get_inode(disk, i).blocks[s]
         /\ \A s \in (NDIRECT + 1)..MAXFILE :
              Table(disk, get_inode(disk, i))[s]
                = Ids(disk[get_inode(disk, i).blocks[NDIRECT]])[s - NDIRECT - 1]
<1> DEFINE ino == get_inode(disk, i)
           ids == Ids(disk[ino.blocks[NDIRECT]])
<1>1. ino.blocks \in [0..NDIRECT -> BlockIds]
  BY InodeType DEF Inode
<1>2. ids \in [0..(NINDIRECT - 1) -> BlockIds]
  <2>1. disk[ino.blocks[NDIRECT]] \in Contents
    BY <1>1, Sizes DEF DiskTypeOK, Contents
  <2> QED
    BY <2>1, IdsType
<1>3. Table(disk, ino) = [s \in 0..MAXFILE |-> IF s <= NDIRECT THEN ino.blocks[s]
                                                            ELSE ids[s - NDIRECT - 1]]
  BY Zenon DEF Table
<1>4. \A s \in 0..MAXFILE : IF s <= NDIRECT THEN s \in 0..NDIRECT
                                            ELSE s - NDIRECT - 1 \in 0..(NINDIRECT - 1)
  BY Sizes
<1>5. 0..NDIRECT \subseteq 0..MAXFILE /\ (NDIRECT + 1)..MAXFILE \subseteq 0..MAXFILE
  BY Sizes
<1> HIDE DEF ino, ids
<1>6. \A s \in 0..MAXFILE : (IF s <= NDIRECT THEN ino.blocks[s] ELSE ids[s - NDIRECT - 1]) \in BlockIds
  BY <1>1, <1>2, <1>4
<1>7. Table(disk, ino) \in [0..MAXFILE -> BlockIds]
  BY <1>3, <1>6
<1>8. \A s \in 0..NDIRECT : Table(disk, ino)[s] = ino.blocks[s]
  BY <1>3, <1>5, Sizes
<1>9. \A s \in (NDIRECT + 1)..MAXFILE : Table(disk, ino)[s] = ids[s - NDIRECT - 1]
  BY <1>3, <1>5, Sizes
<1> QED
  BY <1>7, <1>8, <1>9 DEF ino, ids

-----------------------------------------------------------------------------
(* The parts of write_file.                                                *)

\* The block ids of file i, by slot, once it has size bytes.
NowIds(i, size) ==
  [s \in 0..MAXFILE |->
     IF s \in Slots(BlockCount(i)) \cap Slots(blockNum(size)) THEN Table(disk, get_inode(disk, i))[s]
     ELSE IF s \in Slots(blockNum(size))
     THEN alloc_block(using_blocks, s - Cardinality(Slots(BlockCount(i))) + 1)
     ELSE 0]

\* The slots it gets.
NewSlots(i, size) == Slots(blockNum(size)) \ Slots(BlockCount(i))

\* The disk once its indirect block is written.
IdsWritten(i, size) ==
  IF NewSlots(i, size) # {} /\ NDIRECT \in Slots(blockNum(size))
  THEN [disk EXCEPT ![NowIds(i, size)[NDIRECT]] =
          [kind |-> "ids", ids |-> [j \in 0..(NINDIRECT - 1) |-> NowIds(i, size)[NDIRECT + 1 + j]]]]
  ELSE disk

\* The data blocks of the file that are written to block b.
WrittenTo(i, size, b) == {k \in 1..blockNum(size) : NowIds(i, size)[Slot(k - 1)] = b}

\* The disk once the data is written.
DataWritten(i, buf, size) ==
  [b \in BlockIds |->
     IF WrittenTo(i, size, b) = {} THEN IdsWritten(i, size)[b]
     ELSE [kind |-> "data",
           cell |-> buf[CHOOSE k \in WrittenTo(i, size, b) :
                          \A m \in WrittenTo(i, size, b) : m <= k]]]

NowInode(i, size) ==
  [get_inode(disk, i) EXCEPT !.size = size, !.blocks = [s \in 0..NDIRECT |-> NowIds(i, size)[s]]]

\* write_file in terms of its parts.
LEMMA PutIs ==
  ASSUME NEW i, NEW buf, NEW size, write_file(i, buf, size),
         Exists(disk, i), ~(blockNum(size) > MAXFILE)
  PROVE  /\ disk' = put_inode(DataWritten(i, buf, size), i, NowInode(i, size))
         /\ using_blocks' =
              (using_blocks \cup ({NowIds(i, size)[s] : s \in NewSlots(i, size)} \cap DataBlocks))
                \ {Table(disk, get_inode(disk, i))[s] :
                     s \in Slots(BlockCount(i)) \ Slots(blockNum(size))}
BY Zenon DEF write_file, DataWritten, NowInode, NowIds, IdsWritten, WrittenTo, NewSlots, BlockCount

-----------------------------------------------------------------------------
(* What write_file and append_block leave in each block: types and sizes.  *)

\* Every file has a size that the bound on blocks allows.
SizesFit == \A i \in Live : BlockCount(i) <= MaxBlocks

\* The ids after a put: a slot that the file had keeps its block, the slots it
\* gets take the blocks that alloc_block answers, one after the other.
LEMMA NowIdsAre ==
  ASSUME DiskTypeOK, NEW i, BlockCount(i) \in 0..MaxBlocks,
         NEW size, blockNum(size) \in 0..MaxBlocks
  PROVE  /\ NowIds(i, size) \in [0..MAXFILE -> BlockIds]
         /\ \A s \in Slots(blockNum(size)) \cap Slots(BlockCount(i)) :
              NowIds(i, size)[s] = Table(disk, get_inode(disk, i))[s]
         /\ \A s \in NewSlots(i, size) :
              /\ s - Count(BlockCount(i)) + 1 \in 1..(Count(blockNum(size)) - Count(BlockCount(i)))
              /\ NowIds(i, size)[s] = alloc_block(using_blocks, s - Count(BlockCount(i)) + 1)
<1> DEFINE a == BlockCount(i)
           n == blockNum(size)
           table == Table(disk, get_inode(disk, i))
<1>1. /\ Slots(a) = 0..(Count(a) - 1) /\ Count(a) \in Nat /\ Cardinality(Slots(a)) = Count(a)
      /\ Slots(n) = 0..(Count(n) - 1) /\ Count(n) \in Nat
      /\ Slots(n) \subseteq 0..MAXFILE
  BY SlotsAre
<1>2. table \in [0..MAXFILE -> BlockIds]
  BY TableType
<1>3. NowIds(i, size) =
        [s \in 0..MAXFILE |->
           IF s \in Slots(a) \cap Slots(n) THEN table[s]
           ELSE IF s \in Slots(n) THEN alloc_block(using_blocks, s - Count(a) + 1) ELSE 0]
  BY <1>1, Zenon DEF NowIds
<1>4. NewSlots(i, size) = Slots(n) \ Slots(a)
  BY DEF NewSlots
<1> HIDE DEF a, n, table
<1>5. \A s \in Slots(n) \ Slots(a) : s - Count(a) + 1 \in 1..(Count(n) - Count(a))
  BY <1>1
<1>6. \A s \in Slots(n) \ Slots(a) : alloc_block(using_blocks, s - Count(a) + 1) \in BlockIds
  <2> SUFFICES ASSUME NEW s \in Slots(n) \ Slots(a)
               PROVE  alloc_block(using_blocks, s - Count(a) + 1) \in BlockIds
    OBVIOUS
  <2>1. s - Count(a) + 1 \in Nat \ {0}
    BY <1>1
  <2> QED
    BY <2>1, AllocType
<1>7. \A s \in 0..MAXFILE :
        (IF s \in Slots(a) \cap Slots(n) THEN table[s]
         ELSE IF s \in Slots(n) THEN alloc_block(using_blocks, s - Count(a) + 1) ELSE 0) \in BlockIds
  BY <1>2, <1>6, Layout
<1>8. NowIds(i, size) \in [0..MAXFILE -> BlockIds]
  BY <1>3, <1>7
<1>9. \A s \in Slots(n) \cap Slots(a) : NowIds(i, size)[s] = table[s]
  BY <1>1, <1>3
<1>10. \A s \in Slots(n) \ Slots(a) : NowIds(i, size)[s] = alloc_block(using_blocks, s - Count(a) + 1)
  BY <1>1, <1>3
<1> QED
  BY <1>4, <1>5, <1>8, <1>9, <1>10 DEF a, n, table

\* What a put leaves in each block but the inode's own: the last data written
\* to it, the ids, or what was there.
LEMMA PutBlocks ==
  ASSUME DiskTypeOK, NEW i, BlockCount(i) \in 0..MaxBlocks, Exists(disk, i),
         NEW buf \in Buffers, NEW size \in Nat, blockNum(size) = Len(buf),
         write_file(i, buf, size)
  PROVE  /\ disk' \in [BlockIds -> Contents]
         /\ disk'[IBLOCK(i)] = NowInode(i, size)
         /\ NowInode(i, size) \in Inode
         /\ \A b \in BlockIds \ {IBLOCK(i)} :
              \/ \E k \in WrittenTo(i, size, b) : disk'[b] = [kind |-> "data", cell |-> buf[k]]
              \/ /\ WrittenTo(i, size, b) = {}
                 /\ NewSlots(i, size) # {} /\ NDIRECT \in Slots(blockNum(size))
                 /\ b = NowIds(i, size)[NDIRECT]
                 /\ disk'[b] = [kind |-> "ids", ids |->
                      [j \in 0..(NINDIRECT - 1) |-> NowIds(i, size)[NDIRECT + 1 + j]]]
              \/ /\ WrittenTo(i, size, b) = {}
                 /\ ~(/\ NewSlots(i, size) # {} /\ NDIRECT \in Slots(blockNum(size))
                      /\ b = NowIds(i, size)[NDIRECT])
                 /\ disk'[b] = disk[b]
<1> DEFINE now == NowIds(i, size)
           ids == [kind |-> "ids", ids |-> [j \in 0..(NINDIRECT - 1) |-> now[NDIRECT + 1 + j]]]
           getsIds == NewSlots(i, size) # {} /\ NDIRECT \in Slots(blockNum(size))
           to(b) == WrittenTo(i, size, b)
           last(b) == CHOOSE k \in to(b) : \A m \in to(b) : m <= k
           written == DataWritten(i, buf, size)
<1>1. blockNum(size) \in 0..MaxBlocks /\ ~(blockNum(size) > MAXFILE)
  BY Sizes, InodeLayerAssumption
<1>2. now \in [0..MAXFILE -> BlockIds]
  BY <1>1, NowIdsAre
<1>3. disk' = put_inode(written, i, NowInode(i, size))
  BY <1>1, PutIs
<1>4. i \in Inums /\ IBLOCK(i) \in BlockIds /\ disk \in [BlockIds -> Contents]
  BY InodeType, Layout DEF DiskTypeOK, Contents
<1>5. NowInode(i, size) \in Inode
  <2>1. get_inode(disk, i) \in Inode
    BY InodeType
  <2>2. [s \in 0..NDIRECT |-> now[s]] \in [0..NDIRECT -> BlockIds]
    BY <1>2, Sizes
  <2> QED
    BY <2>1, <2>2 DEF NowInode, Inode
<1>6. ids \in Contents
  <2>1. \A j \in 0..(NINDIRECT - 1) : NDIRECT + 1 + j \in 0..MAXFILE
    <3>1. NDIRECT \in Nat /\ NINDIRECT \in Nat /\ MAXFILE = NDIRECT + NINDIRECT
      BY Sizes
    <3> QED
      BY <3>1
  <2>2. [j \in 0..(NINDIRECT - 1) |-> now[NDIRECT + 1 + j]] \in [0..(NINDIRECT - 1) -> BlockIds]
    <3> HIDE DEF now
    <3> QED
      BY <1>2, <2>1
  <2> QED
    BY <2>2 DEF Contents, Pointers
<1>7. ASSUME NEW b \in BlockIds, to(b) # {}
      PROVE  last(b) \in to(b) /\ buf[last(b)] \in Cells
  <2>1. to(b) \subseteq 0..blockNum(size) /\ to(b) \subseteq 1..Len(buf) /\ blockNum(size) \in Nat
    BY <1>1 DEF WrittenTo
  <2>2. \E k \in to(b) : \A m \in to(b) : m <= k
    <3> HIDE DEF to
    <3> QED
      BY <1>7, <2>1, GreatestOf
  <2>3. last(b) \in to(b)
    BY <2>2
  <2>4. buf \in Seq(Cells)
    BY InodeLayerAssumption DEF Cells
  <2>5. \A k \in 1..Len(buf) : buf[k] \in Cells
    BY <2>4
  <2> HIDE DEF to, last
  <2> QED
    BY <2>1, <2>3, <2>5
<1>8. written = [b \in BlockIds |-> IF to(b) = {} THEN IdsWritten(i, size)[b]
                                   ELSE [kind |-> "data", cell |-> buf[last(b)]]]
  BY Zenon DEF DataWritten
<1>9. ASSUME NEW b \in BlockIds
      PROVE  /\ IdsWritten(i, size)[b] = IF getsIds /\ b = now[NDIRECT] THEN ids ELSE disk[b]
             /\ IdsWritten(i, size)[b] \in Contents
  BY <1>2, <1>4, <1>6, Sizes DEF IdsWritten
<1> HIDE DEF ids, to, last, now, getsIds
<1>10. ASSUME NEW b \in BlockIds
       PROVE  (IF to(b) = {} THEN IdsWritten(i, size)[b]
               ELSE [kind |-> "data", cell |-> buf[last(b)]]) \in Contents
  BY <1>7, <1>9 DEF Contents, Data
<1>11. written \in [BlockIds -> Contents]
  BY <1>8, <1>10
<1>12. /\ disk' \in [BlockIds -> Contents]
       /\ disk'[IBLOCK(i)] = NowInode(i, size)
       /\ \A b \in BlockIds \ {IBLOCK(i)} : disk'[b] = written[b]
  <2> HIDE DEF written
  <2> QED
    BY <1>3, <1>4, <1>5, <1>11 DEF put_inode, Contents
<1>13. \A b \in BlockIds : written[b] = IF to(b) = {} THEN IdsWritten(i, size)[b]
                                       ELSE [kind |-> "data", cell |-> buf[last(b)]]
  BY <1>8
<1> HIDE DEF written
<1>14. ASSUME NEW b \in BlockIds \ {IBLOCK(i)}
       PROVE  \/ \E k \in to(b) : disk'[b] = [kind |-> "data", cell |-> buf[k]]
              \/ /\ to(b) = {} /\ getsIds /\ b = now[NDIRECT] /\ disk'[b] = ids
              \/ /\ to(b) = {} /\ ~(getsIds /\ b = now[NDIRECT]) /\ disk'[b] = disk[b]
  <2>1. CASE to(b) = {}
    BY <1>9, <1>12, <1>13, <2>1
  <2>2. CASE to(b) # {}
    BY <1>7, <1>12, <1>13, <2>2
  <2> QED
    BY <2>1, <2>2
<1> QED
  BY <1>5, <1>12, <1>14, Zenon DEF to, getsIds, now, ids

-----------------------------------------------------------------------------
(* The parts of append_block.                                              *)

\* The block of the new data, and the indirect block.
NewBlock == alloc_block(using_blocks, 1)
IndirectOf(i) ==
  IF BlockCount(i) = NDIRECT THEN alloc_block(using_blocks, 2)
  ELSE get_inode(disk, i).blocks[NDIRECT]

\* The inode and the ids that an append writes.
AppendInode(i) ==
  IF BlockCount(i) < NDIRECT
  THEN [get_inode(disk, i) EXCEPT !.size = @ + BLOCK_SIZE, !.blocks[BlockCount(i)] = NewBlock]
  ELSE [get_inode(disk, i) EXCEPT !.size = @ + BLOCK_SIZE, !.blocks[NDIRECT] = IndirectOf(i)]
AppendIds(i) ==
  [kind |-> "ids",
   ids |-> [Ids(disk[IndirectOf(i)]) EXCEPT ![BlockCount(i) - NDIRECT] = NewBlock]]

\* append_block in terms of its parts.
LEMMA AppendIs ==
  ASSUME NEW i, append_block(i)
  PROVE  disk' = IF BlockCount(i) < NDIRECT THEN put_inode(disk, i, AppendInode(i))
                 ELSE put_inode([disk EXCEPT ![IndirectOf(i)] = AppendIds(i)], i, AppendInode(i))
<1>1. CASE BlockCount(i) < NDIRECT
  BY <1>1 DEF append_block, AppendInode, NewBlock, BlockCount
<1>2. CASE ~(BlockCount(i) < NDIRECT)
  BY <1>2 DEF append_block, AppendInode, AppendIds, IndirectOf, NewBlock, BlockCount
<1> QED
  BY <1>1, <1>2

\* What an append leaves in each block.
LEMMA AppendBlocks ==
  ASSUME DiskTypeOK, NEW i, BlockCount(i) \in 0..(MaxBlocks - 1), Exists(disk, i),
         append_block(i)
  PROVE  /\ disk' \in [BlockIds -> Contents]
         /\ disk'[IBLOCK(i)] = AppendInode(i)
         /\ AppendInode(i) \in Inode
         /\ AppendInode(i).type = get_inode(disk, i).type
         /\ blockNum(AppendInode(i).size) = BlockCount(i) + 1
         /\ blockNum(AppendInode(i).size) <= MaxBlocks
         /\ \A s \in 0..NDIRECT : AppendInode(i).blocks[s] =
              IF BlockCount(i) < NDIRECT
              THEN IF s = BlockCount(i) THEN NewBlock ELSE get_inode(disk, i).blocks[s]
              ELSE IF s = NDIRECT THEN IndirectOf(i) ELSE get_inode(disk, i).blocks[s]
         /\ IndirectOf(i) \in BlockIds
         /\ \A b \in BlockIds \ {IBLOCK(i)} :
              disk'[b] = IF BlockCount(i) >= NDIRECT /\ b = IndirectOf(i)
                         THEN AppendIds(i) ELSE disk[b]
         /\ \A b \in BlockIds \ {IBLOCK(i)} : disk'[b].kind = "ids" \/ disk'[b] = disk[b]
<1> DEFINE n == BlockCount(i)
           ino == get_inode(disk, i)
           ind == IndirectOf(i)
<1>1. i \in Inums /\ IBLOCK(i) \in BlockIds /\ disk \in [BlockIds -> Contents] /\ ino \in Inode
  BY InodeType, Layout DEF DiskTypeOK, Contents
<1>2. /\ n = blockNum(ino.size) /\ ino.size \in Nat /\ ino.blocks \in [0..NDIRECT -> BlockIds]
      /\ n \in Nat /\ NDIRECT \in Nat /\ n < MaxBlocks /\ MaxBlocks <= NDIRECT + NINDIRECT
  BY <1>1, Sizes DEF Inode, BlockCount
<1>3. NewBlock \in BlockIds
  BY AllocType DEF NewBlock
<1>4. ind \in BlockIds
  BY <1>2, AllocType DEF IndirectOf
<1>5. /\ AppendIds(i) \in Contents /\ AppendIds(i).kind = "ids"
  <2>1. Ids(disk[ind]) \in [0..(NINDIRECT - 1) -> BlockIds]
    BY <1>1, <1>4, IdsType
  <2>2. [Ids(disk[ind]) EXCEPT ![n - NDIRECT] = NewBlock] \in [0..(NINDIRECT - 1) -> BlockIds]
    BY <1>3, <2>1
  <2> QED
    BY <2>2 DEF AppendIds, Contents, Pointers
<1>6. /\ AppendInode(i) \in Inode
      /\ AppendInode(i).size = ino.size + BLOCK_SIZE
      /\ AppendInode(i).type = ino.type
      /\ \A s \in 0..NDIRECT : AppendInode(i).blocks[s] =
           IF n < NDIRECT THEN IF s = n THEN NewBlock ELSE ino.blocks[s]
           ELSE IF s = NDIRECT THEN ind ELSE ino.blocks[s]
  <2>1. ino.size + BLOCK_SIZE \in Nat
    BY <1>2, Sizes
  <2>2. CASE n < NDIRECT
    <3>1. AppendInode(i) = [ino EXCEPT !.size = ino.size + BLOCK_SIZE, !.blocks[n] = NewBlock]
      BY <2>2 DEF AppendInode
    <3>2. n \in 0..NDIRECT /\ NewBlock \in BlockIds
      BY <1>2, <1>3, <2>2
    <3> HIDE DEF n, ino, ind
    <3>3. AppendInode(i) \in Inode
      <4>1. ino \in Inode
        BY <1>1
      <4>2. [ino EXCEPT !.size = ino.size + BLOCK_SIZE, !.blocks[n] = NewBlock] \in Inode
        BY <2>1, <3>2, <4>1 DEF Inode
      <4> QED
        BY <3>1, <4>2, Zenon
    <3>4. AppendInode(i).size = ino.size + BLOCK_SIZE
      BY <1>1, <3>1 DEF Inode
    <3>5. AppendInode(i).type = ino.type
      BY <1>1, <3>1 DEF Inode
    <3>6. AppendInode(i).blocks = [ino.blocks EXCEPT ![n] = NewBlock]
      BY <1>1, <3>1 DEF Inode
    <3> QED
      BY <3>4, <3>5, <3>6, <1>2, <2>2, <3>3
  <2>3. CASE ~(n < NDIRECT)
    <3>1. AppendInode(i) = [ino EXCEPT !.size = ino.size + BLOCK_SIZE, !.blocks[NDIRECT] = ind]
      BY <2>3 DEF AppendInode
    <3>2. NDIRECT \in 0..NDIRECT /\ ind \in BlockIds
      BY <1>2, <1>4, <2>3
    <3> HIDE DEF n, ino, ind
    <3>3. AppendInode(i) \in Inode
      <4>1. ino \in Inode
        BY <1>1
      <4>2. [ino EXCEPT !.size = ino.size + BLOCK_SIZE, !.blocks[NDIRECT] = ind] \in Inode
        BY <2>1, <3>2, <4>1 DEF Inode
      <4> QED
        BY <3>1, <4>2, Zenon
    <3>4. AppendInode(i).size = ino.size + BLOCK_SIZE
      BY <1>1, <3>1 DEF Inode
    <3>5. AppendInode(i).type = ino.type
      BY <1>1, <3>1 DEF Inode
    <3>6. AppendInode(i).blocks = [ino.blocks EXCEPT ![NDIRECT] = ind]
      BY <1>1, <3>1 DEF Inode
    <3> QED
      BY <3>4, <3>5, <3>6, <1>2, <2>3, <3>3
  <2> QED
    BY <2>2, <2>3
<1>7. blockNum(AppendInode(i).size) = n + 1
  BY <1>2, <1>6, BlockNumIs
<1>8. /\ disk' \in [BlockIds -> Contents] /\ disk'[IBLOCK(i)] = AppendInode(i)
      /\ \A b \in BlockIds \ {IBLOCK(i)} :
           disk'[b] = IF n >= NDIRECT /\ b = ind THEN AppendIds(i) ELSE disk[b]
  <2>1. disk' = IF n < NDIRECT THEN [disk EXCEPT ![IBLOCK(i)] = AppendInode(i)]
                ELSE [[disk EXCEPT ![ind] = AppendIds(i)] EXCEPT ![IBLOCK(i)] = AppendInode(i)]
    BY AppendIs DEF put_inode
  <2>2. AppendInode(i) \in Contents
    BY <1>6 DEF Contents
  <2> HIDE DEF n, ino, ind
  <2>3. CASE n < NDIRECT
    BY <1>1, <1>2, <2>1, <2>2, <2>3
  <2>4. CASE ~(n < NDIRECT)
    BY <1>1, <1>2, <1>4, <1>5, <2>1, <2>2, <2>4
  <2> QED
    BY <2>3, <2>4
<1>9. n + 1 <= MaxBlocks
  BY <1>2, Sizes
<1>10. \A b \in BlockIds \ {IBLOCK(i)} : disk'[b].kind = "ids" \/ disk'[b] = disk[b]
  BY <1>5, <1>8
<1> QED
  BY <1>4, <1>6, <1>7, <1>8, <1>9, <1>10, Zenon

-----------------------------------------------------------------------------
(* Type correctness.                                                       *)

\* No hypothesis on the room: a block 0 that a full disk answers, and the
\* number INODE_NUM that a full table answers, are still blocks of the disk.
DiskInv == DiskTypeOK /\ SizesFit

\* What a step has to show for DiskInv: types, and inodes old or small enough.
LEMMA DiskInvFrom ==
  ASSUME DiskInv, disk' \in [BlockIds -> Contents], using_blocks' \subseteq DataBlocks,
         \A i \in Inums : disk'[IBLOCK(i)].kind = "inode" =>
           \/ disk'[IBLOCK(i)] = disk[IBLOCK(i)]
           \/ blockNum(disk'[IBLOCK(i)].size) <= MaxBlocks
           \/ disk'[IBLOCK(i)].type = "free"
  PROVE  DiskInv'
<1>1. DiskTypeOK'
  BY DEF DiskTypeOK, Contents
<1>2. ASSUME NEW i \in Inums, Exists(disk, i)'
      PROVE  BlockCount(i)' <= MaxBlocks
  <2>1. /\ disk'[IBLOCK(i)].kind = "inode" /\ get_inode(disk, i)' = disk'[IBLOCK(i)]
        /\ disk'[IBLOCK(i)].type # "free"
    BY <1>2 DEF Exists, get_inode, NoInode
  <2>2. CASE disk'[IBLOCK(i)] = disk[IBLOCK(i)]
    <3>1. get_inode(disk, i) = disk[IBLOCK(i)]
      BY <2>1, <2>2 DEF get_inode
    <3>2. i \in Live /\ BlockCount(i)' = BlockCount(i)
      BY <2>1, <2>2, <3>1 DEF Live, Exists, BlockCount
    <3> QED
      BY <3>2 DEF DiskInv, SizesFit
  <2> QED
    BY <2>1, <2>2 DEF BlockCount
<1> QED
  BY <1>1, <1>2 DEF DiskInv, SizesFit, Live

\* DiskInv is inductive, on a full disk too.
LEMMA DiskInvInit == LayerInit => DiskInv
<1> SUFFICES ASSUME LayerInit PROVE DiskInv
  OBVIOUS
<1>1. [NoInode EXCEPT !.type = "dir"] \in Inode
  BY Layout DEF NoInode, NoIds, Inode, Types
<1>2. DiskTypeOK
  BY <1>1 DEF LayerInit, DiskTypeOK
<1>3. ASSUME NEW i \in Live PROVE BlockCount(i) <= MaxBlocks
  <2>1. get_inode(disk, i) = disk[IBLOCK(i)] /\ IBLOCK(i) \in BlockIds /\ disk[IBLOCK(i)].kind = "inode"
    BY <1>3, Layout DEF Live, Exists, get_inode, NoInode
  <2>2. disk[IBLOCK(i)].size = 0
    BY <2>1 DEF LayerInit, NoInode, Zero
  <2> QED
    BY <2>1, <2>2, BlockNumIs, Sizes DEF BlockCount
<1> QED
  BY <1>2, <1>3 DEF DiskInv, SizesFit

\* No operation breaks the types of the disk or the bound on sizes.
LEMMA DiskInvStep == DiskInv /\ [LayerNext]_layerVars => DiskInv'
<1> SUFFICES ASSUME DiskInv, [LayerNext]_layerVars PROVE DiskInv'
  OBVIOUS
<1>0. disk \in [BlockIds -> Contents] /\ using_blocks \subseteq DataBlocks
  BY DEF DiskInv, DiskTypeOK, Contents
<1>1. CASE UNCHANGED layerVars
  BY <1>0, <1>1, DiskInvFrom DEF layerVars
<1>2. ASSUME NEW t \in Types, alloc_inode(t) PROVE DiskInv'
  <2> DEFINE new == [NoInode EXCEPT !.type = t]
  <2>1. new \in Inode /\ blockNum(new.size) <= MaxBlocks
    <3>1. new \in Inode
      BY NoInodeType DEF Inode
    <3>2. new.size = 0
      BY DEF NoInode
    <3>3. blockNum(0) = 0 /\ 0 <= MaxBlocks
      BY BlockNumIs, Sizes
    <3> HIDE DEF new
    <3> QED
      BY <3>1, <3>2, <3>3
  <2>2. IBLOCK(FirstFreeInum) \in BlockIds
    BY FirstFreeIs, Layout
  <2>3. disk' = [disk EXCEPT ![IBLOCK(FirstFreeInum)] = new] /\ using_blocks' = using_blocks
    BY <1>2 DEF alloc_inode, put_inode
  <2> HIDE DEF new
  <2>4. disk' \in [BlockIds -> Contents]
    BY <1>0, <2>1, <2>3 DEF Contents
  <2>5. \A b \in BlockIds : disk'[b] = disk[b] \/ disk'[b] = new
    BY <1>0, <2>2, <2>3
  <2> QED
    BY <1>0, <2>1, <2>3, <2>4, <2>5, DiskInvFrom, Layout
<1>3. ASSUME NEW i \in Inums, NEW buf \in Buffers, NEW size \in SizesOf(Len(buf)),
             write_file(i, buf, size)
      PROVE  DiskInv'
  <2>1. size \in Nat /\ blockNum(size) = Len(buf) /\ blockNum(size) \in 0..MaxBlocks
    BY InodeLayerAssumption, Sizes DEF SizesOf
  <2>2. CASE ~Exists(disk, i)
    BY <1>0, <1>3, <2>2, DiskInvFrom DEF write_file, layerVars
  <2>3. CASE Exists(disk, i)
    <3>1. BlockCount(i) \in 0..MaxBlocks
      BY <2>3, InodeType, Sizes DEF DiskInv, SizesFit, Live
    <3>2. DiskTypeOK /\ ~(blockNum(size) > MAXFILE)
      BY <2>1, Sizes DEF DiskInv
    <3>3. disk' \in [BlockIds -> Contents] /\ disk'[IBLOCK(i)] = NowInode(i, size)
      BY <1>3, <2>1, <2>3, <3>1, <3>2, PutBlocks
    <3>4. NowInode(i, size).size = size
      BY <3>2, InodeType DEF NowInode, Inode
    <3>5. \A j \in Inums \ {i} : IBLOCK(j) \in BlockIds \ {IBLOCK(i)}
      BY Layout
    <3>6. ASSUME NEW b \in BlockIds \ {IBLOCK(i)}
          PROVE  disk'[b].kind \in {"data", "ids"} \/ disk'[b] = disk[b]
      <4>1. \/ \E c : disk'[b] = [kind |-> "data", cell |-> c]
            \/ \E ids : disk'[b] = [kind |-> "ids", ids |-> ids]
            \/ disk'[b] = disk[b]
        BY <1>3, <2>1, <2>3, <3>1, <3>2, PutBlocks, ZenonT(30)
      <4>2. ASSUME NEW c, disk'[b] = [kind |-> "data", cell |-> c] PROVE disk'[b].kind = "data"
        BY <4>2
      <4>3. ASSUME NEW ids, disk'[b] = [kind |-> "ids", ids |-> ids] PROVE disk'[b].kind = "ids"
        BY <4>3
      <4> QED
        BY <4>1, <4>2, <4>3
    <3>7. using_blocks' \subseteq DataBlocks
      BY <1>0, <1>3, <2>3, <3>2, PutIs
    <3> QED
      BY <2>1, <3>3, <3>4, <3>5, <3>6, <3>7, DiskInvFrom
  <2> QED
    BY <2>2, <2>3
<1>4. ASSUME NEW i \in Inums, remove_file(i) PROVE DiskInv'
  <2>1. disk' = [b \in BlockIds |-> IF \E j \in Tree(i) : b = IBLOCK(j) THEN NoInode ELSE disk[b]]
    BY <1>4 DEF remove_file
  <2>2. disk' \in [BlockIds -> Contents]
    BY <1>0, <2>1, NoInodeType DEF Contents
  <2>3. \A b \in BlockIds : disk'[b] = disk[b] \/ disk'[b].type = "free"
    BY <2>1 DEF NoInode
  <2>4. using_blocks' \subseteq DataBlocks
    BY <1>0, <1>4 DEF remove_file
  <2> QED
    BY <2>2, <2>3, <2>4, DiskInvFrom, Layout
<1>5. ASSUME NEW i \in Inums, append_block(i) PROVE DiskInv'
  <2>1. BlockCount(i) \in 0..(MaxBlocks - 1) /\ Exists(disk, i)
    BY <1>5, InodeType, Sizes DEF append_block, DiskInv, BlockCount
  <2>2. /\ disk' \in [BlockIds -> Contents] /\ disk'[IBLOCK(i)] = AppendInode(i)
        /\ blockNum(AppendInode(i).size) <= MaxBlocks
        /\ \A b \in BlockIds \ {IBLOCK(i)} : disk'[b].kind = "ids" \/ disk'[b] = disk[b]
    BY <1>5, <2>1, AppendBlocks DEF DiskInv
  <2>3. using_blocks' \subseteq DataBlocks
    BY <1>5 DEF append_block
  <2>4. \A j \in Inums \ {i} : IBLOCK(j) \in BlockIds \ {IBLOCK(i)}
    BY Layout
  <2> QED
    BY <2>2, <2>3, <2>4, DiskInvFrom
<1>6. ASSUME NEW i \in Inums, NEW k \in 1..MaxBlocks, NEW c \in CellsWritten, write_block(i, k, c)
      PROVE  DiskInv'
  <2> DEFINE block == [kind |-> "data", cell |-> c]
  <2>1. c \in Cells
    BY InodeLayerAssumption DEF CellsWritten, Cells
  <2>2. block \in Contents /\ block.kind = "data"
    BY <2>1 DEF Contents, Data
  <2>3. disk' = [disk EXCEPT ![get_block_ids(i)[k]] = block] /\ using_blocks' = using_blocks
    BY <1>6 DEF write_block
  <2> HIDE DEF block
  <2>4. disk' \in [BlockIds -> Contents]
    BY <1>0, <2>2, <2>3
  <2>5. \A b \in BlockIds : disk'[b] = disk[b] \/ disk'[b].kind = "data"
    BY <1>0, <2>2, <2>3
  <2> QED
    BY <1>0, <2>3, <2>4, <2>5, DiskInvFrom, Layout
<1>7. ASSUME NEW i \in Inums, NEW size \in 0..(MaxBlocks * BLOCK_SIZE), complete(i, size)
      PROVE  DiskInv'
  <2> DEFINE ino == [get_inode(disk, i) EXCEPT !.size = size]
  <2>1. get_inode(disk, i) \in Inode /\ Exists(disk, i) /\ i \in Live
    BY <1>7, InodeType DEF complete, Live, DiskInv
  <2>2. size \in Nat
    BY Sizes
  <2>3. ino \in Inode /\ ino.size = size
    BY <2>1, <2>2 DEF Inode
  <2>4. blockNum(size) <= MaxBlocks
    BY <1>7, <2>1 DEF complete, DiskInv, SizesFit, BlockCount
  <2>5. disk' = [disk EXCEPT ![IBLOCK(i)] = ino] /\ using_blocks' = using_blocks
    BY <1>7 DEF complete, put_inode
  <2> HIDE DEF ino
  <2>6. disk' \in [BlockIds -> Contents]
    BY <1>0, <2>3, <2>5 DEF Contents
  <2>7. \A b \in BlockIds : disk'[b] = disk[b] \/ disk'[b] = ino
    BY <1>0, <2>5, Layout
  <2> QED
    BY <1>0, <2>3, <2>4, <2>5, <2>6, <2>7, DiskInvFrom, Layout
<1> QED
  BY <1>1, <1>2, <1>3, <1>4, <1>5, <1>6, <1>7
     DEF LayerNext, DoCreate, DoPut, DoRemove, DoAppend, DoWrite, DoComplete

-----------------------------------------------------------------------------
(* Reading a file off a disk d: the ids and the data it leads to.          *)
NumOf(d, i) == blockNum(get_inode(d, i).size)
IdsIn(d, i) == [s \in Slots(NumOf(d, i)) |-> Table(d, get_inode(d, i))[s]]
ReadIn(d, i) == [k \in 1..NumOf(d, i) |-> Held(d[IdsIn(d, i)[Slot(k - 1)]])]

\* The reading operators of InodeLayer, now and after a step.
LEMMA ReadingIs ==
  ASSUME NEW i
  PROVE  /\ BlockCount(i) = NumOf(disk, i) /\ BlockCount(i)' = NumOf(disk', i)
         /\ BlocksOf(i) = IdsIn(disk, i) /\ BlocksOf(i)' = IdsIn(disk', i)
         /\ get_inode(disk, i)' = get_inode(disk', i)
         /\ Exists(disk, i)' = Exists(disk', i)
<1>1. BlockCount(i) = NumOf(disk, i) /\ BlockCount(i)' = NumOf(disk', i)
  BY DEF NumOf, BlockCount, get_inode
<1>2. BlocksOf(i) = IdsIn(disk, i) /\ BlocksOf(i)' = IdsIn(disk', i)
  BY Zenon DEF BlocksOf, IdsIn, NumOf, get_inode, Table
<1>3. get_inode(disk, i)' = get_inode(disk', i) /\ Exists(disk, i)' = Exists(disk', i)
  BY DEF get_inode, Exists
<1> QED
  BY <1>1, <1>2, <1>3

\* get_block_ids and read_file in terms of a disk.
LEMMA GetIdsAre ==
  ASSUME NEW i
  PROVE  /\ get_block_ids(i) = [k \in 1..NumOf(disk, i) |-> IdsIn(disk, i)[Slot(k - 1)]]
         /\ read_file(i) = ReadIn(disk, i)
         /\ read_file(i)' = ReadIn(disk', i)
<1>1. get_block_ids(i) = [k \in 1..NumOf(disk, i) |-> IdsIn(disk, i)[Slot(k - 1)]]
  BY ReadingIs, Zenon DEF get_block_ids, NumOf
<1>2. get_block_ids(i)' = [k \in 1..NumOf(disk', i) |-> IdsIn(disk', i)[Slot(k - 1)]]
  BY ReadingIs, Zenon DEF get_block_ids, NumOf
<1>3. read_file(i) = ReadIn(disk, i)
  BY <1>1 DEF read_file, ReadIn
<1>4. read_file(i)' = ReadIn(disk', i)
  BY <1>2 DEF read_file, ReadIn
<1> QED
  BY <1>1, <1>3, <1>4

\* Inodes read off a well-typed disk are well typed.
LEMMA InodeOnDisk ==
  ASSUME NEW d \in [BlockIds -> Contents], NEW i
  PROVE  /\ get_inode(d, i) \in Inode
         /\ get_inode(d, i).blocks \in [0..NDIRECT -> BlockIds]
         /\ NumOf(d, i) \in Nat
<1>1. i \in Inums => d[IBLOCK(i)] \in Contents
  BY Layout
<1>2. \A block \in Contents : block.kind = "inode" => block \in Inode
  BY DEF Contents, Pointers, Data, Zero
<1>3. get_inode(d, i) \in Inode
  BY <1>1, <1>2, NoInodeType DEF get_inode
<1>4. get_inode(d, i).size \in Nat /\ get_inode(d, i).blocks \in [0..NDIRECT -> BlockIds]
  BY <1>3 DEF Inode
<1> QED
  BY <1>3, <1>4, BlockNumIs DEF NumOf

\* The ids in terms of the inode and its indirect block.
LEMMA IdsOfFile ==
  ASSUME NEW d \in [BlockIds -> Contents], NEW i, NumOf(d, i) \in 0..MaxBlocks
  PROVE  /\ IdsIn(d, i) \in [Slots(NumOf(d, i)) -> BlockIds]
         /\ \A s \in Slots(NumOf(d, i)) :
              IF s <= NDIRECT THEN s \in 0..NDIRECT /\ IdsIn(d, i)[s] = get_inode(d, i).blocks[s]
              ELSE /\ NDIRECT \in Slots(NumOf(d, i)) /\ s - NDIRECT - 1 \in 0..(NINDIRECT - 1)
                   /\ IdsIn(d, i)[s] = Ids(d[IdsIn(d, i)[NDIRECT]])[s - NDIRECT - 1]
<1> DEFINE n == NumOf(d, i)
           ino == get_inode(d, i)
           ids == Ids(d[ino.blocks[NDIRECT]])
<1>1. ino.blocks \in [0..NDIRECT -> BlockIds] /\ n \in Nat
  BY InodeOnDisk
<1>2. ids \in [0..(NINDIRECT - 1) -> BlockIds]
  <2>1. d[ino.blocks[NDIRECT]] \in Contents
    BY <1>1, Sizes
  <2> QED
    BY <2>1, IdsType
<1>3. IdsIn(d, i) = [s \in Slots(n) |->
        [t \in 0..MAXFILE |-> IF t <= NDIRECT THEN ino.blocks[t] ELSE ids[t - NDIRECT - 1]][s]]
  BY Zenon DEF IdsIn, Table
<1>4. Slots(n) = 0..(Count(n) - 1) /\ Count(n) \in Nat /\ Slots(n) \subseteq 0..MAXFILE
  BY SlotsAre
<1>5. \A s \in 0..MAXFILE : IF s <= NDIRECT THEN s \in 0..NDIRECT
                                            ELSE s - NDIRECT - 1 \in 0..(NINDIRECT - 1)
  BY Sizes
<1>6. \A s \in Slots(n) : ~(s <= NDIRECT) => NDIRECT \in Slots(n)
  BY <1>4, Sizes
<1>7. IdsIn(d, i) = [s \in Slots(n) |-> IF s <= NDIRECT THEN ino.blocks[s] ELSE ids[s - NDIRECT - 1]]
  <2> HIDE DEF n, ino, ids
  <2> QED
    BY <1>3, <1>4
<1>8. NDIRECT \in Slots(n) => IdsIn(d, i)[NDIRECT] = ino.blocks[NDIRECT]
  BY <1>7, Sizes
<1>9. \A s \in Slots(n) :
        IdsIn(d, i)[s] = IF s <= NDIRECT THEN ino.blocks[s] ELSE ids[s - NDIRECT - 1]
  <2> HIDE DEF n, ino, ids
  <2> QED
    BY <1>7
<1>10. \A s \in Slots(n) :
         (IF s <= NDIRECT THEN ino.blocks[s] ELSE ids[s - NDIRECT - 1]) \in BlockIds
  <2> HIDE DEF n, ino, ids
  <2> QED
    BY <1>1, <1>2, <1>4, <1>5
<1>11. IdsIn(d, i) \in [Slots(n) -> BlockIds]
  <2> HIDE DEF n, ino, ids
  <2> QED
    BY <1>7, <1>10
<1>12. ASSUME NEW s \in Slots(n), ~(s <= NDIRECT)
       PROVE  IdsIn(d, i)[s] = Ids(d[IdsIn(d, i)[NDIRECT]])[s - NDIRECT - 1]
  BY <1>6, <1>8, <1>9, <1>12
<1> HIDE DEF n, ino, ids
<1>13. \A s \in Slots(n) : s \in 0..MAXFILE
  BY <1>4
<1> QED
  BY <1>5, <1>6, <1>9, <1>11, <1>12, <1>13, Zenon DEF n, ino

\* A file keeps its ids as long as its inode's ids and its indirect block stay.
LEMMA SameIds ==
  ASSUME NEW d \in [BlockIds -> Contents], NEW e \in [BlockIds -> Contents],
         NEW i, NumOf(d, i) \in 0..MaxBlocks, NumOf(e, i) = NumOf(d, i),
         get_inode(e, i).blocks = get_inode(d, i).blocks,
         NDIRECT \in Slots(NumOf(d, i)) => e[IdsIn(d, i)[NDIRECT]] = d[IdsIn(d, i)[NDIRECT]]
  PROVE  IdsIn(e, i) = IdsIn(d, i)
<1>1. NumOf(e, i) = NumOf(d, i)
  OBVIOUS
<1>2. \A s \in Slots(NumOf(d, i)) : s <= NDIRECT => IdsIn(e, i)[s] = IdsIn(d, i)[s]
  BY <1>1, IdsOfFile
<1>3. \A s \in Slots(NumOf(d, i)) : ~(s <= NDIRECT) => IdsIn(e, i)[s] = IdsIn(d, i)[s]
  <2> SUFFICES ASSUME NEW s \in Slots(NumOf(d, i)), ~(s <= NDIRECT)
               PROVE  IdsIn(e, i)[s] = IdsIn(d, i)[s]
    OBVIOUS
  <2>1. NDIRECT \in Slots(NumOf(d, i)) /\ NDIRECT <= NDIRECT
    BY IdsOfFile, Sizes
  <2>2. IdsIn(e, i)[NDIRECT] = IdsIn(d, i)[NDIRECT]
    BY <1>2, <2>1
  <2>3. IdsIn(d, i)[s] = Ids(d[IdsIn(d, i)[NDIRECT]])[s - NDIRECT - 1]
    BY IdsOfFile
  <2>4. IdsIn(e, i)[s] = Ids(e[IdsIn(e, i)[NDIRECT]])[s - NDIRECT - 1]
    BY <1>1, IdsOfFile
  <2> QED
    BY <2>1, <2>2, <2>3, <2>4
<1>4. /\ IdsIn(d, i) \in [Slots(NumOf(d, i)) -> BlockIds]
      /\ IdsIn(e, i) \in [Slots(NumOf(d, i)) -> BlockIds]
  BY <1>1, IdsOfFile
<1> QED
  BY <1>1, <1>2, <1>3, <1>4

\* A file whose inode and blocks stay is the same file.
LEMMA SameFile ==
  ASSUME NEW d \in [BlockIds -> Contents], NEW e \in [BlockIds -> Contents],
         NEW i \in Inums, NumOf(d, i) \in 0..MaxBlocks, e[IBLOCK(i)] = d[IBLOCK(i)],
         \A s \in Slots(NumOf(d, i)) : e[IdsIn(d, i)[s]] = d[IdsIn(d, i)[s]]
  PROVE  /\ get_inode(e, i) = get_inode(d, i)
         /\ NumOf(e, i) = NumOf(d, i) /\ IdsIn(e, i) = IdsIn(d, i)
         /\ ReadIn(e, i) = ReadIn(d, i)
<1>1. get_inode(e, i) = get_inode(d, i)
  BY DEF get_inode
<1>2. NumOf(e, i) = NumOf(d, i) /\ IdsIn(e, i) = IdsIn(d, i)
  <2>1. NumOf(e, i) = NumOf(d, i)
    BY <1>1 DEF NumOf
  <2> QED
    BY <1>1, <2>1, SameIds
<1>3. \A k \in 1..NumOf(d, i) : Slot(k - 1) \in Slots(NumOf(d, i))
  BY SlotOf
<1>4. \A k \in 1..NumOf(d, i) :
        Held(e[IdsIn(d, i)[Slot(k - 1)]]) = Held(d[IdsIn(d, i)[Slot(k - 1)]])
  BY <1>3
<1> QED
  BY <1>1, <1>2, <1>4 DEF ReadIn

-----------------------------------------------------------------------------
(* One owner for each block: how a step that touches one file keeps it so. *)

\* The blocks that file i of disk d uses.
UsedBy(d, i) == {IdsIn(d, i)[s] : s \in Slots(NumOf(d, i))}

\* The files of disk d, and that each of their slots has a data block of its own.
LiveIn(d) == {i \in Inums : Exists(d, i)}
OwnedIn(d) ==
  \A i, j \in LiveIn(d) : \A s \in Slots(NumOf(d, i)), t \in Slots(NumOf(d, j)) :
    /\ IdsIn(d, i)[s] \in DataBlocks
    /\ IdsIn(d, i)[s] = IdsIn(d, j)[t] => i = j /\ s = t

\* The inductive invariant.
LayerInv ==
  /\ DiskInv
  /\ BlocksAreAccountedFor
  /\ Cardinality(Live) <= MaxFiles

\* The accounts, now and after a step, in terms of a disk.
LEMMA AccountsAre ==
  /\ BlocksAreAccountedFor <=>
       OwnedIn(disk) /\ using_blocks = UNION {UsedBy(disk, i) : i \in LiveIn(disk)}
  /\ BlocksAreAccountedFor' <=>
       OwnedIn(disk') /\ using_blocks' = UNION {UsedBy(disk', i) : i \in LiveIn(disk')}
  /\ Live = LiveIn(disk) /\ Live' = LiveIn(disk')
<1>1. Live = LiveIn(disk) /\ Live' = LiveIn(disk')
  BY ReadingIs, Zenon DEF Live, LiveIn
<1>2. ASSUME NEW i
      PROVE  /\ DOMAIN BlocksOf(i) = Slots(NumOf(disk, i))
             /\ (DOMAIN BlocksOf(i))' = Slots(NumOf(disk', i))
  <2>1. DOMAIN IdsIn(disk, i) = Slots(NumOf(disk, i)) /\ DOMAIN IdsIn(disk', i) = Slots(NumOf(disk', i))
    BY DEF IdsIn
  <2> QED
    BY <2>1, ReadingIs
<1>3. BlocksAreOwned <=> OwnedIn(disk)
  BY <1>1, <1>2, ReadingIs DEF BlocksAreOwned, OwnedIn
<1>4. BlocksAreOwned' <=> OwnedIn(disk')
  BY <1>1, <1>2, ReadingIs DEF BlocksAreOwned, OwnedIn
<1>5. BitmapIsExact <=> using_blocks = UNION {UsedBy(disk, i) : i \in LiveIn(disk)}
  BY <1>1, <1>2, ReadingIs DEF BitmapIsExact, UsedBy
<1>6. BitmapIsExact' <=> using_blocks' = UNION {UsedBy(disk', i) : i \in LiveIn(disk')}
  BY <1>1, <1>2, ReadingIs DEF BitmapIsExact, UsedBy
<1> QED
  BY <1>1, <1>3, <1>4, <1>5, <1>6 DEF BlocksAreAccountedFor

\* What LayerInv says of each file.
LEMMA FilesAre ==
  ASSUME LayerInv
  PROVE  /\ disk \in [BlockIds -> Contents]
         /\ OwnedIn(disk)
         /\ using_blocks = UNION {UsedBy(disk, i) : i \in LiveIn(disk)}
         /\ using_blocks \subseteq DataBlocks
         /\ \A i \in LiveIn(disk) :
              /\ NumOf(disk, i) \in 0..MaxBlocks
              /\ UsedBy(disk, i) \subseteq using_blocks
         /\ LiveIn(disk) \subseteq Inums
<1>1. /\ disk \in [BlockIds -> Contents] /\ OwnedIn(disk)
      /\ using_blocks = UNION {UsedBy(disk, i) : i \in LiveIn(disk)}
      /\ using_blocks \subseteq DataBlocks
  BY AccountsAre DEF LayerInv, DiskInv, DiskTypeOK, Contents
<1>2. ASSUME NEW i \in LiveIn(disk) PROVE NumOf(disk, i) \in 0..MaxBlocks
  <2>1. BlockCount(i) <= MaxBlocks
    BY AccountsAre DEF LayerInv, DiskInv, SizesFit
  <2> QED
    BY <1>1, <2>1, InodeOnDisk, ReadingIs, Sizes
<1> QED
  BY <1>1, <1>2 DEF LiveIn

\* A step that gives file i the blocks of table f, blocks of its own or free
\* ones, leaves the other files theirs and moves the bitmap along keeps the accounts.
LEMMA OneFileMoves ==
  ASSUME LayerInv, NEW i \in LiveIn(disk), LiveIn(disk') = LiveIn(disk),
         \A j \in LiveIn(disk) \ {i} :
           NumOf(disk', j) = NumOf(disk, j) /\ IdsIn(disk', j) = IdsIn(disk, j),
         \A s, t \in Slots(NumOf(disk', i)) :
           /\ IdsIn(disk', i)[s] \in UsedBy(disk, i) \cup (DataBlocks \ using_blocks)
           /\ IdsIn(disk', i)[s] = IdsIn(disk', i)[t] => s = t,
         using_blocks' = (using_blocks \ UsedBy(disk, i)) \cup UsedBy(disk', i)
  PROVE  BlocksAreAccountedFor'
<1> DEFINE U(j) == UsedBy(disk, j)
           V(j) == UsedBy(disk', j)
<1>1. /\ OwnedIn(disk) /\ using_blocks = UNION {U(j) : j \in LiveIn(disk)}
      /\ using_blocks \subseteq DataBlocks
      /\ U(i) \subseteq using_blocks
  BY FilesAre
<1>2. \A j \in LiveIn(disk) \ {i} : V(j) = U(j)
  BY DEF UsedBy
<1>3. \A j \in LiveIn(disk) \ {i} : U(j) \cap U(i) = {} /\ U(j) \subseteq using_blocks
  BY <1>1 DEF OwnedIn, UsedBy
<1>4. V(i) \subseteq U(i) \cup (DataBlocks \ using_blocks)
  BY DEF UsedBy
<1>5. \A j \in LiveIn(disk) \ {i} : U(j) \cap V(i) = {}
  BY <1>3, <1>4
<1>6. OwnedIn(disk')
  <2> SUFFICES ASSUME NEW j \in LiveIn(disk), NEW m \in LiveIn(disk),
                      NEW s \in Slots(NumOf(disk', j)), NEW t \in Slots(NumOf(disk', m))
               PROVE  /\ IdsIn(disk', j)[s] \in DataBlocks
                      /\ IdsIn(disk', j)[s] = IdsIn(disk', m)[t] => j = m /\ s = t
    BY DEF OwnedIn
  <2>1. IdsIn(disk', j)[s] \in V(j) /\ IdsIn(disk', m)[t] \in V(m)
    BY DEF UsedBy
  <2>2. CASE j = i /\ m = i
    BY <1>1, <2>2
  <2>3. CASE j = i /\ m # i
    BY <1>1, <1>2, <1>4, <1>5, <2>1, <2>3
  <2>4. CASE j # i /\ m = i
    BY <1>1, <1>2, <1>3, <1>5, <2>1, <2>4
  <2>5. CASE j # i /\ m # i
    BY <1>1, <2>5 DEF OwnedIn
  <2> QED
    BY <2>2, <2>3, <2>4, <2>5
<1>7. using_blocks' = UNION {V(j) : j \in LiveIn(disk')}
  <2>1. \A b \in using_blocks \ U(i) : \E j \in LiveIn(disk) \ {i} : b \in V(j)
    BY <1>1, <1>2
  <2>2. \A j \in LiveIn(disk) \ {i} : V(j) \subseteq using_blocks \ U(i)
    BY <1>2, <1>3
  <2> HIDE DEF U, V
  <2>3. using_blocks' = (using_blocks \ U(i)) \cup V(i)
    BY DEF U, V
  <2> QED
    BY <2>1, <2>2, <2>3
<1> QED
  BY <1>6, <1>7, AccountsAre

-----------------------------------------------------------------------------
(* Room on the disk.                                                       *)

\* The data area has a block for each slot of each file when the files are as
\* many and as large as they get: then alloc_block always finds one.
RoomOnDisk == MaxFiles * Cardinality(Slots(MaxBlocks)) <= Cardinality(DataBlocks)

\* The blocks of all files but i are fewer than the slots those files may have.
LEMMA OthersUse ==
  ASSUME LayerInv, NEW i \in LiveIn(disk)
  PROVE  /\ IsFiniteSet(using_blocks \ UsedBy(disk, i))
         /\ Cardinality(using_blocks \ UsedBy(disk, i))
              <= Cardinality(LiveIn(disk) \ {i}) * Cardinality(Slots(MaxBlocks))
<1> DEFINE others == using_blocks \ UsedBy(disk, i)
           places == (LiveIn(disk) \ {i}) \X Slots(MaxBlocks)
           at(b) == CHOOSE p \in places : p[2] \in Slots(NumOf(disk, p[1]))
                                          /\ IdsIn(disk, p[1])[p[2]] = b
<1>1. IsFiniteSet(places)
      /\ Cardinality(places) = Cardinality(LiveIn(disk) \ {i}) * Cardinality(Slots(MaxBlocks))
  <2>1. IsFiniteSet(LiveIn(disk) \ {i})
    BY LiveIsFinite, AccountsAre, FS_Difference
  <2>2. IsFiniteSet(Slots(MaxBlocks))
    BY SlotsAre, Sizes
  <2> QED
    BY <2>1, <2>2, FS_Product
<1>2. ASSUME NEW b \in others
      PROVE  \E p \in places : p[2] \in Slots(NumOf(disk, p[1])) /\ IdsIn(disk, p[1])[p[2]] = b
  <2>1. PICK j \in LiveIn(disk) : b \in UsedBy(disk, j)
    BY FilesAre
  <2>2. PICK s \in Slots(NumOf(disk, j)) : IdsIn(disk, j)[s] = b
    BY <2>1 DEF UsedBy
  <2>3. j # i
    BY <2>1
  <2>4. s \in Slots(MaxBlocks)
    <3>1. NumOf(disk, j) \in 0..MaxBlocks
      BY FilesAre
    <3>2. /\ Slots(NumOf(disk, j)) = 0..(Count(NumOf(disk, j)) - 1)
          /\ Count(NumOf(disk, j)) \in Nat
          /\ Count(NumOf(disk, j)) <= Count(MaxBlocks)
      BY <3>1, SlotsAre, Sizes
    <3>3. Slots(MaxBlocks) = 0..(Count(MaxBlocks) - 1) /\ Count(MaxBlocks) \in Nat
      BY SlotsAre, Sizes
    <3> QED
      BY <3>2, <3>3
  <2>5. <<j, s>> \in places
    BY <2>3, <2>4
  <2> QED
    BY <2>2, <2>5
<1>3. \A b \in others : /\ at(b) \in places
                        /\ IdsIn(disk, at(b)[1])[at(b)[2]] = b
  BY <1>2
<1> HIDE DEF others, places, at
<1>4. [b \in others |-> at(b)] \in Injection(others, places)
  <2>1. [b \in others |-> at(b)] \in [others -> places]
    BY <1>3
  <2>2. \A b, c \in others : at(b) = at(c) => b = c
    BY <1>3
  <2> QED
    BY <2>1, <2>2 DEF Injection, IsInjective
<1>5. IsFiniteSet(others) /\ Cardinality(others) <= Cardinality(places)
  BY <1>1, <1>4, FS_Injection
<1> QED
  BY <1>1, <1>5 DEF others

\* So a file that is to have n blocks gets every block it asks for.
LEMMA RoomForOne ==
  ASSUME LayerInv, RoomOnDisk, NEW i \in LiveIn(disk), NEW n \in 0..MaxBlocks,
         NEW k \in 1..(Count(n) - Count(NumOf(disk, i)))
  PROVE  alloc_block(using_blocks, k) # 0
<1> DEFINE own == UsedBy(disk, i)
           others == using_blocks \ own
           all == Slots(MaxBlocks)
           a == NumOf(disk, i)
<1>1. IsFiniteSet(DataBlocks) /\ Cardinality(DataBlocks) \in Nat
  <2>1. firstBlockId \in Int /\ BLOCK_NUM - 1 \in Int
    BY Sizes DEF firstBlockId
  <2> QED
    BY <2>1, FS_Interval, FS_CardinalityType DEF DataBlocks
<1>2. a \in 0..MaxBlocks /\ using_blocks \subseteq DataBlocks /\ own \subseteq using_blocks
  BY FilesAre
<1>3. /\ Count(a) \in Nat /\ Count(n) \in Nat /\ Count(n) <= Count(MaxBlocks)
      /\ Cardinality(all) = Count(MaxBlocks) /\ Count(MaxBlocks) \in Nat
      /\ IsFiniteSet(Slots(a)) /\ Cardinality(Slots(a)) = Count(a)
  <2>1. MaxBlocks \in 0..MaxBlocks /\ MaxBlocks \in n..MaxBlocks
    BY Sizes
  <2>2. \A m \in 0..MaxBlocks : Count(m) \in Nat
    BY SlotsAre, Sizes
  <2>3. Count(n) <= Count(MaxBlocks)
    BY <2>1, SlotsAre
  <2>4. /\ Cardinality(all) = Count(MaxBlocks)
        /\ IsFiniteSet(Slots(a)) /\ Cardinality(Slots(a)) = Count(a)
    BY <1>2, <2>1, SlotsAre
  <2> QED
    BY <1>2, <2>1, <2>2, <2>3, <2>4
<1>4. IsFiniteSet(own) /\ Cardinality(own) \in Nat /\ Cardinality(own) <= Count(a)
  <2>1. [s \in Slots(a) |-> IdsIn(disk, i)[s]] \in Surjection(Slots(a), own)
    BY DEF Surjection, UsedBy
  <2>2. IsFiniteSet(own) /\ Cardinality(own) <= Cardinality(Slots(a))
    <3> HIDE DEF own, a
    <3> QED
      BY <1>3, <2>1, FS_Surjection
  <2> QED
    BY <1>3, <2>2, FS_CardinalityType
<1>5. /\ IsFiniteSet(others) /\ Cardinality(others) \in Nat
      /\ Cardinality(others) <= (MaxFiles - 1) * Count(MaxBlocks)
  <2>1. /\ IsFiniteSet(LiveIn(disk)) /\ Cardinality(LiveIn(disk)) \in Nat
        /\ Cardinality(LiveIn(disk)) <= MaxFiles
    BY LiveIsFinite, AccountsAre DEF LayerInv
  <2>2. Cardinality(LiveIn(disk) \ {i}) = Cardinality(LiveIn(disk)) - 1
    BY <2>1, FS_RemoveElement
  <2>3. Cardinality(LiveIn(disk) \ {i}) \in Nat
    BY <2>1, FS_RemoveElement, FS_CardinalityType
  <2>4. Cardinality(others) <= Cardinality(LiveIn(disk) \ {i}) * Count(MaxBlocks)
    BY <1>3, OthersUse
  <2>5. Cardinality(LiveIn(disk) \ {i}) <= MaxFiles - 1
    BY <2>1, <2>2, Sizes
  <2>6. \A x, y, z \in Nat : x <= y => x * z <= y * z
    OBVIOUS
  <2>7. IsFiniteSet(others) /\ Cardinality(others) \in Nat
    BY OthersUse, FS_CardinalityType
  <2>8. Cardinality(LiveIn(disk) \ {i}) * Count(MaxBlocks) <= (MaxFiles - 1) * Count(MaxBlocks)
    BY <1>3, <2>3, <2>5, <2>6, Sizes
  <2>9. (MaxFiles - 1) * Count(MaxBlocks) \in Nat /\ Cardinality(LiveIn(disk) \ {i}) * Count(MaxBlocks) \in Nat
    BY <1>3, <2>3, Sizes
  <2> HIDE DEF others
  <2> QED
    BY <2>4, <2>7, <2>8, <2>9
<1>6. Cardinality(using_blocks) <= Cardinality(others) + Cardinality(own)
      /\ IsFiniteSet(using_blocks) /\ Cardinality(using_blocks) \in Nat
  <2>1. using_blocks = others \cup own /\ others \cap own = {}
    BY <1>2
  <2>2. Cardinality(others \cup own) = Cardinality(others) + Cardinality(own) - Cardinality(others \cap own)
    <3> HIDE DEF others, own
    <3> QED
      BY <1>4, <1>5, FS_Union
  <2>3. IsFiniteSet(using_blocks) /\ Cardinality(using_blocks) \in Nat /\ Cardinality({}) = 0
    BY <1>1, <1>2, FS_Subset, FS_CardinalityType, FS_EmptySet
  <2> HIDE DEF others, own
  <2>4. Cardinality(using_blocks) = Cardinality(others) + Cardinality(own) - 0
    BY <2>1, <2>2, <2>3
  <2> QED
    BY <1>4, <1>5, <2>3, <2>4
<1>7. Cardinality(DataBlocks \ using_blocks) = Cardinality(DataBlocks) - Cardinality(using_blocks)
  <2>1. DataBlocks \cap using_blocks = using_blocks
    BY <1>2
  <2> QED
    BY <1>1, <2>1, FS_Difference
<1>8. MaxFiles * Count(MaxBlocks) <= Cardinality(DataBlocks)
  BY <1>3 DEF RoomOnDisk
<1>9. MaxFiles * Count(MaxBlocks) = (MaxFiles - 1) * Count(MaxBlocks) + Count(MaxBlocks)
      /\ (MaxFiles - 1) * Count(MaxBlocks) \in Nat
  BY <1>3, Sizes
<1>10. k <= Cardinality(DataBlocks \ using_blocks)
  <2> HIDE DEF others, own, all, a
  <2>1. Cardinality(using_blocks) <= (MaxFiles - 1) * Count(MaxBlocks) + Count(a)
    BY <1>3, <1>4, <1>5, <1>6, <1>9
  <2>2. k <= Count(MaxBlocks) - Count(a)
    BY <1>3 DEF a
  <2> QED
    BY <1>1, <1>3, <1>6, <1>7, <1>8, <1>9, <2>1, <2>2
<1>11. k \in Nat \ {0}
  OBVIOUS
<1> QED
  BY <1>10, <1>11, AllocAnswers

-----------------------------------------------------------------------------
(* What each operation does to the files.                                  *)

\* A step that writes nothing but inodes outside the data area.
WritesInodes ==
  \A b \in BlockIds \ DataBlocks : disk'[b] = disk[b] \/ disk'[b].kind = "inode"

\* A step that writes only the inode of file i, blocks of that file and free
\* blocks leaves every other file as it was.
LEMMA OneFileTouched ==
  ASSUME LayerInv, disk' \in [BlockIds -> Contents], NEW i \in LiveIn(disk), Exists(disk', i),
         \A b \in BlockIds : \/ disk'[b] = disk[b]
                             \/ b = IBLOCK(i)
                             \/ b \in UsedBy(disk, i)
                             \/ b \in DataBlocks \ using_blocks
  PROVE  /\ LiveIn(disk') = LiveIn(disk)
         /\ \A j \in Inums \ {i} : get_inode(disk', j) = get_inode(disk, j)
         /\ \A j \in LiveIn(disk) \ {i} :
              NumOf(disk', j) = NumOf(disk, j) /\ IdsIn(disk', j) = IdsIn(disk, j)
         /\ \A j \in LiveIn(disk) \ {i} : ReadIn(disk', j) = ReadIn(disk, j)
         /\ WritesInodes
<1>1. /\ disk \in [BlockIds -> Contents] /\ OwnedIn(disk)
      /\ using_blocks = UNION {UsedBy(disk, j) : j \in LiveIn(disk)}
      /\ using_blocks \subseteq DataBlocks
      /\ \A j \in LiveIn(disk) : UsedBy(disk, j) \subseteq using_blocks
      /\ LiveIn(disk) \subseteq Inums
  BY FilesAre
<1>2. ASSUME NEW j \in Inums \ {i} PROVE disk'[IBLOCK(j)] = disk[IBLOCK(j)]
  BY <1>1, Layout
<1>3. ASSUME NEW j \in Inums \ {i} PROVE get_inode(disk', j) = get_inode(disk, j)
  BY <1>2 DEF get_inode
<1>4. LiveIn(disk') = LiveIn(disk)
  BY <1>1, <1>3 DEF LiveIn, Exists
<1>5. ASSUME NEW j \in LiveIn(disk) \ {i}
      PROVE  /\ NumOf(disk', j) = NumOf(disk, j) /\ IdsIn(disk', j) = IdsIn(disk, j)
             /\ ReadIn(disk', j) = ReadIn(disk, j)
  <2>1. NumOf(disk, j) \in 0..MaxBlocks /\ j \in Inums /\ j # i
    BY <1>1, FilesAre
  <2>2. ASSUME NEW s \in Slots(NumOf(disk, j))
        PROVE  disk'[IdsIn(disk, j)[s]] = disk[IdsIn(disk, j)[s]]
    <3>1. IdsIn(disk, j)[s] \in UsedBy(disk, j) /\ IdsIn(disk, j)[s] \in DataBlocks
      BY <1>1 DEF UsedBy, OwnedIn
    <3>2. IdsIn(disk, j)[s] \notin UsedBy(disk, i)
      BY <1>1, <2>1 DEF UsedBy, OwnedIn
    <3>3. IdsIn(disk, j)[s] \in BlockIds /\ IdsIn(disk, j)[s] # IBLOCK(i)
      BY <1>1, <3>1, Layout
    <3>4. IdsIn(disk, j)[s] \in using_blocks
      BY <1>1, <3>1
    <3> QED
      BY <3>2, <3>3, <3>4
  <2>3. disk'[IBLOCK(j)] = disk[IBLOCK(j)]
    BY <1>2, <2>1
  <2> QED
    BY <1>1, <2>1, <2>2, <2>3, SameFile
<1>6. disk'[IBLOCK(i)].kind = "inode"
  BY DEF Exists, get_inode, NoInode
<1>7. WritesInodes
  BY <1>1, <1>6 DEF WritesInodes
<1> QED
  BY <1>3, <1>4, <1>5, <1>7

\* What a put does to the files when it gets every block it asks for: the file
\* reads as the buffer, and has a block of its own for each slot.
LEMMA PutEffect ==
  ASSUME LayerInv, NEW i \in LiveIn(disk), NEW buf \in Buffers,
         NEW size \in Nat, blockNum(size) = Len(buf), disk' \in [BlockIds -> Contents],
         \A k \in 1..(Count(Len(buf)) - Count(NumOf(disk, i))) : alloc_block(using_blocks, k) # 0,
         write_file(i, buf, size)
  PROVE  /\ LiveIn(disk') = LiveIn(disk)
         /\ \A j \in Inums : get_inode(disk', j).type = get_inode(disk, j).type
         /\ \A j \in LiveIn(disk) \ {i} : ReadIn(disk', j) = ReadIn(disk, j)
         /\ WritesInodes
         /\ ReadIn(disk', i) = buf
         /\ BlocksAreAccountedFor'
<1> DEFINE a == NumOf(disk, i)
           n == Len(buf)
           now == NowIds(i, size)
           old == IdsIn(disk, i)
           free == DataBlocks \ using_blocks
<1>1. /\ disk \in [BlockIds -> Contents] /\ OwnedIn(disk) /\ DiskTypeOK
      /\ UsedBy(disk, i) \subseteq using_blocks /\ using_blocks \subseteq DataBlocks
      /\ a \in 0..MaxBlocks /\ BlockCount(i) = a /\ i \in Inums /\ Exists(disk, i)
      /\ n \in 0..MaxBlocks /\ ~(blockNum(size) > MAXFILE)
  <2>1. n \in 0..MaxBlocks /\ ~(blockNum(size) > MAXFILE)
    BY InodeLayerAssumption, Sizes
  <2> QED
    BY <2>1, FilesAre, ReadingIs DEF LayerInv, DiskInv, LiveIn
<1>2. /\ Slots(a) = 0..(Count(a) - 1) /\ Count(a) \in Nat
      /\ Slots(n) = 0..(Count(n) - 1) /\ Count(n) \in Nat /\ Slots(n) \subseteq 0..MAXFILE
  BY <1>1, SlotsAre
<1>3. old \in [Slots(a) -> BlockIds]
      /\ \A s \in Slots(a) : old[s] = Table(disk, get_inode(disk, i))[s] /\ old[s] \in UsedBy(disk, i)
  <2>1. old \in [Slots(a) -> BlockIds]
    BY <1>1, IdsOfFile
  <2>2. old = [s \in Slots(a) |-> Table(disk, get_inode(disk, i))[s]]
    BY DEF IdsIn
  <2> QED
    BY <2>1, <2>2 DEF UsedBy
<1>4. /\ now \in [0..MAXFILE -> BlockIds]
      /\ \A s \in Slots(n) \cap Slots(a) : now[s] = old[s]
      /\ \A s \in Slots(n) \ Slots(a) :
           /\ s - Count(a) + 1 \in 1..(Count(n) - Count(a))
           /\ now[s] = alloc_block(using_blocks, s - Count(a) + 1)
      /\ NewSlots(i, size) = Slots(n) \ Slots(a)
  <2>1. NewSlots(i, size) = Slots(n) \ Slots(a)
    BY <1>1 DEF NewSlots
  <2>2. /\ now \in [0..MAXFILE -> BlockIds]
        /\ \A s \in Slots(n) \cap Slots(a) : now[s] = Table(disk, get_inode(disk, i))[s]
        /\ \A s \in NewSlots(i, size) :
             /\ s - Count(a) + 1 \in 1..(Count(n) - Count(a))
             /\ now[s] = alloc_block(using_blocks, s - Count(a) + 1)
    BY <1>1, NowIdsAre
  <2> QED
    BY <1>3, <2>1, <2>2
<1>5. ASSUME NEW s \in Slots(n) \ Slots(a)
      PROVE  now[s] \in free
  <2>1. s - Count(a) + 1 \in Nat \ {0} /\ alloc_block(using_blocks, s - Count(a) + 1) # 0
    BY <1>4
  <2>2. now[s] = alloc_block(using_blocks, s - Count(a) + 1)
    BY <1>4
  <2>3. alloc_block(using_blocks, s - Count(a) + 1) \in free
    BY <2>1, AllocIs
  <2> QED
    BY <2>2, <2>3
<1>6. ASSUME NEW s \in Slots(n), NEW t \in Slots(n), now[s] = now[t]
      PROVE  s = t
  <2>1. CASE s \in Slots(a) /\ t \in Slots(a)
    BY <1>1, <1>4, <1>6, <2>1 DEF OwnedIn
  <2>2. CASE s \in Slots(a) /\ t \notin Slots(a)
    BY <1>1, <1>3, <1>4, <1>5, <1>6, <2>2
  <2>3. CASE s \notin Slots(a) /\ t \in Slots(a)
    BY <1>1, <1>3, <1>4, <1>5, <1>6, <2>3
  <2>4. CASE s \notin Slots(a) /\ t \notin Slots(a)
    <3>1. /\ s - Count(a) + 1 \in Nat \ {0} /\ alloc_block(using_blocks, s - Count(a) + 1) # 0
          /\ t - Count(a) + 1 \in Nat \ {0}
          /\ alloc_block(using_blocks, s - Count(a) + 1) = alloc_block(using_blocks, t - Count(a) + 1)
      BY <1>4, <1>6, <2>4
    <3>2. s - Count(a) + 1 = t - Count(a) + 1
      BY <3>1, AllocDiffers
    <3>3. s \in Int /\ t \in Int /\ Count(a) \in Int
      BY <1>2
    <3> QED
      BY <3>2, <3>3
  <2> QED
    BY <2>1, <2>2, <2>3, <2>4
<1>7. ASSUME NEW s \in Slots(n)
      PROVE  now[s] \in UsedBy(disk, i) \cup free /\ now[s] \in BlockIds \ {IBLOCK(i)}
  <2>1. now[s] \in UsedBy(disk, i) \cup free
    BY <1>3, <1>4, <1>5
  <2> QED
    BY <1>1, <2>1, Layout
<1>8. /\ \A k \in 1..n : Slot(k - 1) \in Slots(n) \ {NDIRECT}
      /\ \A k, m \in 1..n : Slot(k - 1) = Slot(m - 1) => k = m
  BY <1>1, SlotOf
<1>9. /\ disk'[IBLOCK(i)] = NowInode(i, size) /\ NowInode(i, size) \in Inode
      /\ \A b \in BlockIds \ {IBLOCK(i)} :
           \/ \E k \in WrittenTo(i, size, b) : disk'[b] = [kind |-> "data", cell |-> buf[k]]
           \/ /\ WrittenTo(i, size, b) = {}
              /\ NewSlots(i, size) # {} /\ NDIRECT \in Slots(n)
              /\ b = now[NDIRECT]
              /\ disk'[b] = [kind |-> "ids", ids |->
                   [j \in 0..(NINDIRECT - 1) |-> now[NDIRECT + 1 + j]]]
           \/ /\ WrittenTo(i, size, b) = {}
              /\ ~(NewSlots(i, size) # {} /\ NDIRECT \in Slots(n) /\ b = now[NDIRECT])
              /\ disk'[b] = disk[b]
  <2>1. BlockCount(i) \in 0..MaxBlocks
    BY <1>1
  <2> HIDE DEF a, n, old, free
  <2>2. blockNum(size) = n
    BY DEF n
  <2>3. /\ disk'[IBLOCK(i)] = NowInode(i, size) /\ NowInode(i, size) \in Inode
        /\ \A b \in BlockIds \ {IBLOCK(i)} :
             \/ \E k \in WrittenTo(i, size, b) : disk'[b] = [kind |-> "data", cell |-> buf[k]]
             \/ /\ WrittenTo(i, size, b) = {}
                /\ NewSlots(i, size) # {} /\ NDIRECT \in Slots(blockNum(size))
                /\ b = NowIds(i, size)[NDIRECT]
                /\ disk'[b] = [kind |-> "ids", ids |->
                     [j \in 0..(NINDIRECT - 1) |-> NowIds(i, size)[NDIRECT + 1 + j]]]
             \/ /\ WrittenTo(i, size, b) = {}
                /\ ~(/\ NewSlots(i, size) # {} /\ NDIRECT \in Slots(blockNum(size))
                     /\ b = NowIds(i, size)[NDIRECT])
                /\ disk'[b] = disk[b]
    BY <1>1, <2>1, PutBlocks
  <2> QED
    BY <2>2, <2>3, Zenon
<1>10. \A b : WrittenTo(i, size, b) = {k \in 1..n : now[Slot(k - 1)] = b}
  BY DEF WrittenTo
<1>11. /\ get_inode(disk', i) = NowInode(i, size) /\ NumOf(disk', i) = n
       /\ get_inode(disk', i).type = get_inode(disk, i).type
       /\ \A s \in 0..NDIRECT : get_inode(disk', i).blocks[s] = now[s]
       /\ Exists(disk', i)
  <2>1. get_inode(disk', i) = NowInode(i, size)
    BY <1>1, <1>9 DEF get_inode, Inode
  <2>2. get_inode(disk, i) \in Inode
    BY <1>1, InodeOnDisk
  <2>3. /\ NowInode(i, size).size = size
        /\ NowInode(i, size).type = get_inode(disk, i).type
        /\ NowInode(i, size).blocks = [s \in 0..NDIRECT |-> now[s]]
    <3>1. NowInode(i, size).size = size
      BY <2>2 DEF NowInode, Inode
    <3>2. NowInode(i, size).type = get_inode(disk, i).type
      BY <2>2 DEF NowInode, Inode
    <3>3. NowInode(i, size).blocks = [s \in 0..NDIRECT |-> now[s]]
      BY <2>2 DEF NowInode, Inode
    <3> QED
      BY <3>1, <3>2, <3>3
  <2> HIDE DEF now
  <2> QED
    BY <1>1, <2>1, <2>3 DEF NumOf, Exists
<1> HIDE DEF a, n, now, old, free
<1>12. \A b \in BlockIds : \/ disk'[b] = disk[b] \/ b = IBLOCK(i)
                           \/ b \in UsedBy(disk, i) \/ b \in DataBlocks \ using_blocks
  <2> SUFFICES ASSUME NEW b \in BlockIds, b # IBLOCK(i), disk'[b] # disk[b]
               PROVE  b \in UsedBy(disk, i) \cup free
    BY DEF free
  <2>1. \/ \E k \in 1..n : now[Slot(k - 1)] = b
        \/ NDIRECT \in Slots(n) /\ b = now[NDIRECT]
    BY <1>9, <1>10
  <2> QED
    BY <1>7, <1>8, <2>1
<1>13. ASSUME NEW s \in Slots(n), ~(s <= NDIRECT), NDIRECT \in Slots(n),
              s - NDIRECT - 1 \in 0..(NINDIRECT - 1)
       PROVE  Ids(disk'[now[NDIRECT]])[s - NDIRECT - 1] = now[s]
  <2>1. WrittenTo(i, size, now[NDIRECT]) = {}
    BY <1>6, <1>8, <1>10, <1>13
  <2>2. now[NDIRECT] \in BlockIds \ {IBLOCK(i)}
    BY <1>7, <1>13
  <2>3. CASE NewSlots(i, size) # {}
    <3> DEFINE ids == [j \in 0..(NINDIRECT - 1) |-> now[NDIRECT + 1 + j]]
    <3>1. disk'[now[NDIRECT]] = [kind |-> "ids", ids |-> ids]
      BY <1>9, <1>13, <2>1, <2>2, <2>3
    <3>2. Ids(disk'[now[NDIRECT]]) = ids
      <4> HIDE DEF ids
      <4> QED
        BY <3>1 DEF Ids
    <3>3. NDIRECT + 1 + (s - NDIRECT - 1) = s
      <4>1. s \in Int /\ NDIRECT \in Int
        BY <1>2, Sizes DEF Slots
      <4> QED
        BY <4>1
    <3> QED
      BY <1>13, <3>2, <3>3
  <2>4. CASE NewSlots(i, size) = {}
    <3>1. s \in Slots(a) /\ NDIRECT \in Slots(a) /\ now[s] = old[s] /\ now[NDIRECT] = old[NDIRECT]
      BY <1>4, <1>13, <2>4
    <3>2. disk'[now[NDIRECT]] = disk[now[NDIRECT]]
      BY <1>9, <2>1, <2>2, <2>4
    <3>3. old[s] = Ids(disk[old[NDIRECT]])[s - NDIRECT - 1]
      BY <1>1, <1>13, <3>1, IdsOfFile DEF old, a
    <3> QED
      BY <3>1, <3>2, <3>3
  <2> QED
    BY <2>3, <2>4
<1>14. IdsIn(disk', i) \in [Slots(n) -> BlockIds] /\ \A s \in Slots(n) : IdsIn(disk', i)[s] = now[s]
  <2>1. \A s \in Slots(n) :
          IF s <= NDIRECT THEN s \in 0..NDIRECT /\ IdsIn(disk', i)[s] = get_inode(disk', i).blocks[s]
          ELSE /\ NDIRECT \in Slots(n) /\ s - NDIRECT - 1 \in 0..(NINDIRECT - 1)
               /\ IdsIn(disk', i)[s] = Ids(disk'[IdsIn(disk', i)[NDIRECT]])[s - NDIRECT - 1]
    BY <1>1, <1>11, IdsOfFile
  <2>2. \A s \in Slots(n) : s <= NDIRECT => IdsIn(disk', i)[s] = now[s]
    BY <1>11, <2>1
  <2>3. \A s \in Slots(n) : ~(s <= NDIRECT) => IdsIn(disk', i)[s] = now[s]
    <3> SUFFICES ASSUME NEW s \in Slots(n), ~(s <= NDIRECT)
                 PROVE  IdsIn(disk', i)[s] = now[s]
      OBVIOUS
    <3>1. /\ NDIRECT \in Slots(n) /\ s - NDIRECT - 1 \in 0..(NINDIRECT - 1)
          /\ IdsIn(disk', i)[s] = Ids(disk'[IdsIn(disk', i)[NDIRECT]])[s - NDIRECT - 1]
      BY <2>1
    <3>2. NDIRECT <= NDIRECT
      BY Sizes
    <3>3. IdsIn(disk', i)[NDIRECT] = now[NDIRECT]
      BY <2>2, <3>1, <3>2
    <3>4. Ids(disk'[now[NDIRECT]])[s - NDIRECT - 1] = now[s]
      BY <1>13, <3>1
    <3> QED
      BY <3>1, <3>3, <3>4
  <2>4. IdsIn(disk', i) \in [Slots(n) -> BlockIds]
    BY <1>1, <1>11, IdsOfFile
  <2> QED
    BY <2>2, <2>3, <2>4
<1>15. ASSUME NEW k \in 1..n PROVE Held(disk'[now[Slot(k - 1)]]) = buf[k]
  <2> DEFINE b == now[Slot(k - 1)]
  <2>1. k \in WrittenTo(i, size, b) /\ b \in BlockIds \ {IBLOCK(i)}
    BY <1>7, <1>8, <1>10
  <2>2. PICK m \in WrittenTo(i, size, b) : disk'[b] = [kind |-> "data", cell |-> buf[m]]
    BY <1>9, <2>1
  <2>3. m = k
    BY <1>6, <1>8, <1>10, <2>2
  <2> QED
    BY <2>2, <2>3 DEF Held
<1>16. ReadIn(disk', i) = buf
  <2>1. ReadIn(disk', i) = [k \in 1..n |-> Held(disk'[IdsIn(disk', i)[Slot(k - 1)]])]
    BY <1>11 DEF ReadIn
  <2>2. \A k \in 1..n : Held(disk'[IdsIn(disk', i)[Slot(k - 1)]]) = buf[k]
    BY <1>8, <1>14, <1>15
  <2>3. buf = [k \in 1..n |-> buf[k]]
    BY InodeLayerAssumption DEF n
  <2> QED
    BY <2>1, <2>2, <2>3
<1>17. UsedBy(disk', i) = {now[s] : s \in Slots(n)}
  BY <1>11, <1>14 DEF UsedBy
<1>18. using_blocks' = (using_blocks \ UsedBy(disk, i)) \cup UsedBy(disk', i)
  <2>1. using_blocks' = (using_blocks \cup ({now[s] : s \in Slots(n) \ Slots(a)} \cap DataBlocks))
                          \ {old[s] : s \in Slots(a) \ Slots(n)}
    <3>1. using_blocks' =
            (using_blocks \cup ({now[s] : s \in NewSlots(i, size)} \cap DataBlocks))
              \ {Table(disk, get_inode(disk, i))[s] :
                   s \in Slots(BlockCount(i)) \ Slots(blockNum(size))}
      BY <1>1, PutIs DEF now
    <3>2. \A s \in Slots(a) \ Slots(n) : Table(disk, get_inode(disk, i))[s] = old[s]
      BY <1>3
    <3>3. BlockCount(i) = a /\ blockNum(size) = n
      BY <1>1 DEF n
    <3> QED
      BY <1>4, <3>1, <3>2, <3>3
  <2>2. UsedBy(disk, i) = {old[s] : s \in Slots(a)}
    BY DEF UsedBy, old, a
  <2>3. \A s, t \in Slots(a) : old[s] = old[t] => s = t
    BY <1>1 DEF OwnedIn, old, a
  <2>4. \A s \in Slots(n) \ Slots(a) : now[s] \in DataBlocks /\ now[s] \notin using_blocks
    BY <1>5 DEF free
  <2>5. ASSUME NEW b \in using_blocks'
        PROVE  b \in (using_blocks \ UsedBy(disk, i)) \cup UsedBy(disk', i)
    BY <1>4, <1>17, <2>1, <2>2
  <2>6. ASSUME NEW b \in using_blocks \ UsedBy(disk, i)
        PROVE  b \in using_blocks'
    BY <2>1, <2>2
  <2>7. ASSUME NEW s \in Slots(n)
        PROVE  now[s] \in using_blocks'
    <3>1. CASE s \in Slots(a)
      <4>1. now[s] \in using_blocks /\ now[s] = old[s]
        BY <1>1, <1>3, <1>4, <3>1
      <4>2. now[s] \notin {old[t] : t \in Slots(a) \ Slots(n)}
        BY <2>3, <3>1, <4>1
      <4> QED
        BY <2>1, <4>1, <4>2
    <3>2. CASE s \notin Slots(a)
      <4>1. now[s] \notin {old[t] : t \in Slots(a) \ Slots(n)}
        BY <1>1, <1>3, <2>4, <3>2
      <4> QED
        BY <2>1, <2>4, <3>2, <4>1
    <3> QED
      BY <3>1, <3>2
  <2> QED
    BY <1>17, <2>5, <2>6, <2>7
<1>19. /\ LiveIn(disk') = LiveIn(disk)
       /\ \A j \in Inums \ {i} : get_inode(disk', j) = get_inode(disk, j)
       /\ \A j \in LiveIn(disk) \ {i} :
            NumOf(disk', j) = NumOf(disk, j) /\ IdsIn(disk', j) = IdsIn(disk, j)
       /\ \A j \in LiveIn(disk) \ {i} : ReadIn(disk', j) = ReadIn(disk, j)
       /\ WritesInodes
  BY <1>11, <1>12, OneFileTouched
<1>20. \A s, t \in Slots(NumOf(disk', i)) :
         /\ IdsIn(disk', i)[s] \in UsedBy(disk, i) \cup (DataBlocks \ using_blocks)
         /\ IdsIn(disk', i)[s] = IdsIn(disk', i)[t] => s = t
  BY <1>6, <1>7, <1>11, <1>14 DEF free
<1>21. BlocksAreAccountedFor'
  BY <1>18, <1>19, <1>20, OneFileMoves
<1> QED
  BY <1>11, <1>16, <1>19, <1>21

\* One of the two blocks an append asks for is a free data block.
LEMMA AllocatedIs ==
  ASSUME NEW used, NEW k \in 1..2, alloc_block(used, k) # 0
  PROVE  alloc_block(used, k) \in DataBlocks \ used
<1>1. k \in Nat \ {0}
  OBVIOUS
<1> QED
  BY <1>1, AllocIs

\* The slots that one more block takes.
LEMMA OneMoreSlot ==
  ASSUME NEW n \in 0..(MaxBlocks - 1)
  PROVE  /\ Slots(n + 1) = Slots(n) \cup {Slot(n)} \cup (IF n = NDIRECT THEN {NDIRECT} ELSE {})
         /\ Slot(n) \notin Slots(n)
         /\ n = NDIRECT => NDIRECT \notin Slots(n) /\ Slot(n) # NDIRECT
         /\ n > NDIRECT => NDIRECT \in Slots(n)
         /\ Count(n + 1) - Count(n) >= IF n = NDIRECT THEN 2 ELSE 1
         /\ Count(n) \in Nat /\ Count(n + 1) \in Nat
<1>1. n \in Nat /\ NDIRECT \in Nat \ {0}
  BY Sizes
<1>2. CASE n < NDIRECT
  <2>1. Slots(n) = 0..(n - 1) /\ Slots(n + 1) = 0..n /\ Slot(n) = n /\ n # NDIRECT
    BY <1>1, <1>2 DEF Slots, Slot
  <2>2. Count(n) = n /\ Count(n + 1) = n + 1
    BY <1>1, <1>2 DEF Count
  <2> QED
    BY <1>1, <1>2, <2>1, <2>2
<1>3. CASE n = NDIRECT
  <2>1. Slots(n) = 0..(n - 1) /\ Slots(n + 1) = 0..(n + 1) /\ Slot(n) = n + 1
    BY <1>1, <1>3 DEF Slots, Slot
  <2>2. Count(n) = n /\ Count(n + 1) = n + 2
    BY <1>1, <1>3 DEF Count
  <2> QED
    BY <1>1, <1>3, <2>1, <2>2
<1>4. CASE n > NDIRECT
  <2>1. Slots(n) = 0..n /\ Slots(n + 1) = 0..(n + 1) /\ Slot(n) = n + 1 /\ n # NDIRECT
    BY <1>1, <1>4 DEF Slots, Slot
  <2>2. Count(n) = n + 1 /\ Count(n + 1) = n + 2
    BY <1>1, <1>4 DEF Count
  <2> QED
    BY <1>1, <1>4, <2>1, <2>2
<1> QED
  BY <1>1, <1>2, <1>3, <1>4

\* What an append does to the files when it gets the blocks it asks for: one
\* more block, which holds what the disk held there.
LEMMA AppendEffect ==
  ASSUME LayerInv, NEW i \in LiveIn(disk), disk' \in [BlockIds -> Contents],
         NumOf(disk, i) < MaxBlocks,
         \A k \in 1..(Count(NumOf(disk, i) + 1) - Count(NumOf(disk, i))) :
           alloc_block(using_blocks, k) # 0,
         append_block(i)
  PROVE  /\ LiveIn(disk') = LiveIn(disk)
         /\ \A j \in Inums : get_inode(disk', j).type = get_inode(disk, j).type
         /\ \A j \in LiveIn(disk) \ {i} : ReadIn(disk', j) = ReadIn(disk, j)
         /\ WritesInodes
         /\ ReadIn(disk', i) = [k \in 1..(NumOf(disk, i) + 1) |->
              IF k <= NumOf(disk, i) THEN ReadIn(disk, i)[k] ELSE Held(disk[NewBlock])]
         /\ BlocksAreAccountedFor'
<1> DEFINE n == NumOf(disk, i)
           ind == IndirectOf(i)
           old == IdsIn(disk, i)
           free == DataBlocks \ using_blocks
           now == [s \in Slots(n + 1) |-> IF s \in Slots(n) THEN old[s]
                                          ELSE IF s = Slot(n) THEN NewBlock ELSE ind]
<1>1. /\ disk \in [BlockIds -> Contents] /\ OwnedIn(disk) /\ DiskTypeOK
      /\ UsedBy(disk, i) \subseteq using_blocks /\ using_blocks \subseteq DataBlocks
      /\ n \in 0..(MaxBlocks - 1) /\ n \in 0..MaxBlocks /\ n + 1 \in 0..MaxBlocks
      /\ BlockCount(i) = n /\ i \in Inums /\ Exists(disk, i) /\ IBLOCK(i) \in BlockIds \ DataBlocks
      /\ n \in Nat /\ NDIRECT \in Nat \ {0} /\ NINDIRECT \in Nat
  <2>1. /\ disk \in [BlockIds -> Contents] /\ OwnedIn(disk) /\ n \in 0..MaxBlocks
        /\ UsedBy(disk, i) \subseteq using_blocks /\ using_blocks \subseteq DataBlocks
        /\ i \in Inums
    BY FilesAre
  <2>2. n < MaxBlocks /\ MaxBlocks \in Nat
    BY Sizes
  <2>3. n \in 0..(MaxBlocks - 1) /\ n + 1 \in 0..MaxBlocks /\ n \in Nat
    <3> HIDE DEF n
    <3> QED
      BY <2>1, <2>2
  <2>4. NDIRECT \in Nat \ {0} /\ NINDIRECT \in Nat
    BY Sizes
  <2>5. BlockCount(i) = n /\ Exists(disk, i) /\ DiskTypeOK
    BY ReadingIs DEF LayerInv, DiskInv, LiveIn
  <2>6. IBLOCK(i) \in BlockIds \ DataBlocks
    BY <2>1, Layout
  <2> QED
    BY <2>1, <2>3, <2>4, <2>5, <2>6
<1>2. /\ Slots(n + 1) = Slots(n) \cup {Slot(n)} \cup (IF n = NDIRECT THEN {NDIRECT} ELSE {})
      /\ Slot(n) \notin Slots(n)
      /\ n = NDIRECT => NDIRECT \notin Slots(n) /\ Slot(n) # NDIRECT
      /\ n > NDIRECT => NDIRECT \in Slots(n)
      /\ Slots(n) \subseteq Nat /\ Slots(n + 1) \subseteq Nat
  BY <1>1, OneMoreSlot, SlotsAre
<1>3. /\ old \in [Slots(n) -> BlockIds]
      /\ \A s \in Slots(n) : old[s] \in UsedBy(disk, i) /\ old[s] \in using_blocks
      /\ \A s, t \in Slots(n) : old[s] = old[t] => s = t
      /\ \A s \in Slots(n) :
           IF s <= NDIRECT THEN s \in 0..NDIRECT /\ old[s] = get_inode(disk, i).blocks[s]
           ELSE /\ NDIRECT \in Slots(n) /\ s - NDIRECT - 1 \in 0..(NINDIRECT - 1)
                /\ old[s] = Ids(disk[old[NDIRECT]])[s - NDIRECT - 1]
  <2>1. \A s \in Slots(n) : old[s] \in UsedBy(disk, i)
    BY DEF UsedBy
  <2>2. \A s, t \in Slots(n) : old[s] = old[t] => s = t
    BY <1>1 DEF OwnedIn
  <2> QED
    BY <1>1, <2>1, <2>2, IdsOfFile
<1>4. NewBlock \in free
  <2>1. alloc_block(using_blocks, 1) # 0
    <3>1. 1 \in 1..(Count(n + 1) - Count(n))
      BY <1>1, OneMoreSlot
    <3> QED
      BY <3>1
  <2> QED
    BY <2>1, AllocatedIs DEF NewBlock
<1>5. n = NDIRECT => ind \in free /\ ind # NewBlock
  <2> SUFFICES ASSUME n = NDIRECT PROVE ind \in free /\ ind # NewBlock
    OBVIOUS
  <2>1. ind = alloc_block(using_blocks, 2)
    BY <1>1 DEF IndirectOf
  <2>2. alloc_block(using_blocks, 2) # 0
    <3>1. 2 \in 1..(Count(n + 1) - Count(n))
      BY <1>1, OneMoreSlot
    <3> QED
      BY <3>1
  <2>3. alloc_block(using_blocks, 2) \in free
    BY <2>2, AllocatedIs
  <2>4. alloc_block(using_blocks, 1) # alloc_block(using_blocks, 2)
    <3>1. 1 \in Nat \ {0} /\ 2 \in Nat \ {0} /\ 1 # 2
      OBVIOUS
    <3> QED
      BY <2>2, <3>1, AllocDiffers
  <2> QED
    BY <2>1, <2>3, <2>4 DEF NewBlock
<1>6. n > NDIRECT => ind = old[NDIRECT]
  BY <1>1, <1>2, <1>3 DEF IndirectOf
<1>7. /\ disk'[IBLOCK(i)] = AppendInode(i) /\ AppendInode(i) \in Inode
      /\ AppendInode(i).type = get_inode(disk, i).type
      /\ blockNum(AppendInode(i).size) = n + 1
      /\ \A s \in 0..NDIRECT : AppendInode(i).blocks[s] =
           IF n < NDIRECT
           THEN IF s = n THEN NewBlock ELSE get_inode(disk, i).blocks[s]
           ELSE IF s = NDIRECT THEN ind ELSE get_inode(disk, i).blocks[s]
      /\ ind \in BlockIds
      /\ \A b \in BlockIds \ {IBLOCK(i)} :
           disk'[b] = IF n >= NDIRECT /\ b = ind THEN AppendIds(i) ELSE disk[b]
  <2>1. BlockCount(i) \in 0..(MaxBlocks - 1)
    BY <1>1
  <2> QED
    BY <1>1, <2>1, AppendBlocks
<1>8. /\ get_inode(disk', i) = AppendInode(i) /\ NumOf(disk', i) = n + 1
      /\ get_inode(disk', i).type = get_inode(disk, i).type /\ Exists(disk', i)
  <2>1. get_inode(disk', i) = AppendInode(i)
    BY <1>1, <1>7 DEF get_inode, Inode
  <2> QED
    BY <1>1, <1>7, <2>1 DEF NumOf, Exists
<1>9. \A j \in 0..(NINDIRECT - 1) :
        AppendIds(i).ids[j] = IF j = n - NDIRECT THEN NewBlock ELSE Ids(disk[ind])[j]
  <2>1. Ids(disk[ind]) \in [0..(NINDIRECT - 1) -> BlockIds]
    BY <1>1, <1>7, IdsType
  <2>2. AppendIds(i).ids = [Ids(disk[ind]) EXCEPT ![n - NDIRECT] = NewBlock]
    BY <1>1 DEF AppendIds
  <2> QED
    BY <2>1, <2>2
<1>10. /\ \A s \in Slots(n) : now[s] = old[s]
       /\ now[Slot(n)] = NewBlock
       /\ n = NDIRECT => now[NDIRECT] = ind
  BY <1>2
<1> HIDE DEF n, ind, old, free, now
<1>11. ASSUME n >= NDIRECT PROVE disk'[ind] = AppendIds(i) /\ Ids(disk'[ind]) = AppendIds(i).ids
  <2>1. ind \in DataBlocks
    <3>1. CASE n = NDIRECT
      BY <1>5, <3>1 DEF free
    <3>2. CASE n > NDIRECT
      BY <1>1, <1>2, <1>3, <1>6, <3>2
    <3> QED
      BY <1>1, <1>11, <3>1, <3>2
  <2>2. ind \in BlockIds \ {IBLOCK(i)}
    BY <1>1, <1>7, <2>1
  <2>3. disk'[ind] = AppendIds(i)
    BY <1>7, <1>11, <2>2
  <2> QED
    BY <2>3 DEF Ids, AppendIds
<1>12. IdsIn(disk', i) \in [Slots(n + 1) -> BlockIds] /\ \A s \in Slots(n + 1) : IdsIn(disk', i)[s] = now[s]
  <2>1. /\ IdsIn(disk', i) \in [Slots(n + 1) -> BlockIds]
        /\ \A s \in Slots(n + 1) :
          IF s <= NDIRECT THEN s \in 0..NDIRECT /\ IdsIn(disk', i)[s] = AppendInode(i).blocks[s]
          ELSE /\ NDIRECT \in Slots(n + 1) /\ s - NDIRECT - 1 \in 0..(NINDIRECT - 1)
               /\ IdsIn(disk', i)[s] = Ids(disk'[IdsIn(disk', i)[NDIRECT]])[s - NDIRECT - 1]
    BY <1>1, <1>8, IdsOfFile
  <2>2. ASSUME NEW s \in Slots(n + 1), s <= NDIRECT PROVE IdsIn(disk', i)[s] = now[s]
    <3>1. s \in 0..NDIRECT /\ IdsIn(disk', i)[s] = AppendInode(i).blocks[s]
      BY <2>1, <2>2
    <3>2. CASE s \in Slots(n)
      <4>1. now[s] = get_inode(disk, i).blocks[s]
        BY <1>3, <1>10, <2>2, <3>2
      <4>2. n < NDIRECT => s # n
        BY <1>2, <3>2 DEF Slot
      <4>3. n >= NDIRECT /\ s = NDIRECT => now[s] = ind
        BY <1>1, <1>2, <1>6, <1>10, <3>2
      <4> QED
        BY <1>1, <1>7, <3>1, <4>1, <4>2, <4>3
    <3>3. CASE s = Slot(n)
      <4>1. n < NDIRECT /\ s = n
        BY <1>1, <2>2, <3>3 DEF Slot
      <4> QED
        BY <1>7, <1>10, <3>1, <3>3, <4>1
    <3>4. CASE n = NDIRECT /\ s = NDIRECT
      BY <1>1, <1>7, <1>10, <3>1, <3>4
    <3> QED
      BY <1>2, <3>2, <3>3, <3>4
  <2>3. ASSUME NEW s \in Slots(n + 1), ~(s <= NDIRECT) PROVE IdsIn(disk', i)[s] = now[s]
    <3>1. /\ NDIRECT \in Slots(n + 1) /\ s - NDIRECT - 1 \in 0..(NINDIRECT - 1)
          /\ IdsIn(disk', i)[s] = Ids(disk'[IdsIn(disk', i)[NDIRECT]])[s - NDIRECT - 1]
      BY <2>1, <2>3
    <3>2. n >= NDIRECT /\ IdsIn(disk', i)[NDIRECT] = ind
      <4>1. NDIRECT \in Slots(n) => n > NDIRECT
        BY <1>1 DEF Slots
      <4>2. Slot(n) = NDIRECT => FALSE
        BY <1>1 DEF Slot
      <4>3. n >= NDIRECT
        BY <1>1, <1>2, <3>1, <4>1, <4>2
      <4>4. now[NDIRECT] = ind
        BY <1>1, <1>2, <1>6, <1>10, <4>3
      <4> QED
        BY <1>1, <2>2, <3>1, <4>3, <4>4
    <3>3. IdsIn(disk', i)[s] =
            IF s - NDIRECT - 1 = n - NDIRECT THEN NewBlock ELSE Ids(disk[ind])[s - NDIRECT - 1]
      BY <1>9, <1>11, <3>1, <3>2
    <3>4. s = Slot(n) <=> s - NDIRECT - 1 = n - NDIRECT
      BY <1>1, <1>2, <3>2 DEF Slot
    <3>5. CASE s = Slot(n)
      BY <1>10, <3>3, <3>4, <3>5
    <3>6. CASE s # Slot(n)
      <4>1. s \in Slots(n)
        BY <1>1, <1>2, <2>3, <3>6
      <4>2. n > NDIRECT
        BY <1>1, <1>2, <1>3, <2>3, <3>2, <4>1
      <4> QED
        BY <1>3, <1>6, <1>10, <2>3, <3>3, <3>4, <3>6, <4>1, <4>2
    <3> QED
      BY <3>5, <3>6
  <2> QED
    BY <2>1, <2>2, <2>3
<1>13. \A s \in Slots(n + 1) : now[s] \in UsedBy(disk, i) \cup free
  BY <1>2, <1>3, <1>4, <1>5, <1>10
<1>14. \A s, t \in Slots(n + 1) : now[s] = now[t] => s = t
  <2>1. \A s \in Slots(n) : now[s] # NewBlock /\ (n = NDIRECT => now[s] # ind)
    BY <1>3, <1>4, <1>5, <1>10 DEF free
  <2> QED
    BY <1>2, <1>3, <1>5, <1>10, <2>1
<1>15. UsedBy(disk', i) = {now[s] : s \in Slots(n + 1)}
  BY <1>8, <1>12 DEF UsedBy
<1>16. using_blocks' = (using_blocks \ UsedBy(disk, i)) \cup UsedBy(disk', i)
  <2>1. using_blocks' = (using_blocks \cup {NewBlock} \cup (IF n = NDIRECT THEN {ind} ELSE {}))
                          \cap DataBlocks
    <3>1. CASE n = NDIRECT
      <4>1. blockNum(get_inode(disk, i).size) = NDIRECT /\ ind = alloc_block(using_blocks, 2)
        BY <1>1, <3>1 DEF BlockCount, IndirectOf, ind
      <4> QED
        BY <3>1, <4>1 DEF append_block, NewBlock
    <3>2. CASE n # NDIRECT
      <4>1. blockNum(get_inode(disk, i).size) # NDIRECT
        BY <1>1, <3>2 DEF BlockCount
      <4> QED
        BY <3>2, <4>1 DEF append_block, NewBlock
    <3> QED
      BY <3>1, <3>2
  <2>2. UsedBy(disk, i) = {old[s] : s \in Slots(n)}
    BY DEF UsedBy, old, n
  <2>3. UsedBy(disk', i) = UsedBy(disk, i) \cup {NewBlock} \cup (IF n = NDIRECT THEN {ind} ELSE {})
    BY <1>2, <1>10, <1>15, <2>2
  <2> QED
    BY <1>1, <1>4, <1>5, <2>1, <2>3 DEF free
<1>17. \A b \in BlockIds : \/ disk'[b] = disk[b] \/ b = IBLOCK(i)
                           \/ b \in UsedBy(disk, i) \/ b \in DataBlocks \ using_blocks
  <2> SUFFICES ASSUME NEW b \in BlockIds, b # IBLOCK(i), disk'[b] # disk[b]
               PROVE  b \in UsedBy(disk, i) \cup free
    BY DEF free
  <2>1. n >= NDIRECT /\ b = ind
    BY <1>7
  <2> QED
    BY <1>1, <1>2, <1>3, <1>5, <1>6, <2>1
<1>18. /\ LiveIn(disk') = LiveIn(disk)
       /\ \A j \in Inums \ {i} : get_inode(disk', j) = get_inode(disk, j)
       /\ \A j \in LiveIn(disk) \ {i} :
            NumOf(disk', j) = NumOf(disk, j) /\ IdsIn(disk', j) = IdsIn(disk, j)
       /\ \A j \in LiveIn(disk) \ {i} : ReadIn(disk', j) = ReadIn(disk, j)
       /\ WritesInodes
  BY <1>8, <1>17, OneFileTouched
<1>19. \A s, t \in Slots(NumOf(disk', i)) :
         /\ IdsIn(disk', i)[s] \in UsedBy(disk, i) \cup (DataBlocks \ using_blocks)
         /\ IdsIn(disk', i)[s] = IdsIn(disk', i)[t] => s = t
  BY <1>8, <1>12, <1>13, <1>14 DEF free
<1>20. BlocksAreAccountedFor'
  BY <1>16, <1>18, <1>19, OneFileMoves
<1>21. ASSUME NEW s \in Slots(n + 1), s # NDIRECT
       PROVE  disk'[now[s]] = disk[now[s]]
  <2>1. now[s] \in BlockIds \ {IBLOCK(i)}
    BY <1>1, <1>13, Layout DEF free
  <2>2. n >= NDIRECT => now[s] # ind
    <3>1. CASE n = NDIRECT
      BY <1>2, <1>10, <1>14, <1>21, <3>1
    <3>2. CASE n > NDIRECT
      BY <1>2, <1>6, <1>10, <1>14, <1>21, <3>2
    <3> QED
      BY <1>1, <3>1, <3>2
  <2> QED
    BY <1>7, <2>1, <2>2
<1>22. ReadIn(disk', i) = [k \in 1..(n + 1) |-> IF k <= n THEN ReadIn(disk, i)[k]
                                                ELSE Held(disk[NewBlock])]
  <2>1. ReadIn(disk', i) = [k \in 1..(n + 1) |-> Held(disk'[IdsIn(disk', i)[Slot(k - 1)]])]
    BY <1>8 DEF ReadIn
  <2>2. ReadIn(disk, i) = [k \in 1..n |-> Held(disk[old[Slot(k - 1)]])]
    BY DEF ReadIn, n, old
  <2>3. ASSUME NEW k \in 1..(n + 1)
        PROVE  Held(disk'[IdsIn(disk', i)[Slot(k - 1)]]) =
                 IF k <= n THEN ReadIn(disk, i)[k] ELSE Held(disk[NewBlock])
    <3>1. Slot(k - 1) \in Slots(n + 1) \ {NDIRECT}
      BY <1>1, SlotOf
    <3>2. disk'[IdsIn(disk', i)[Slot(k - 1)]] = disk[now[Slot(k - 1)]]
      BY <1>12, <1>21, <3>1
    <3>3. CASE k <= n
      <4>1. Slot(k - 1) \in Slots(n) /\ k \in 1..n
        BY <1>1, <3>3, SlotOf
      <4> QED
        BY <1>10, <2>2, <3>2, <3>3, <4>1
    <3>4. CASE ~(k <= n)
      <4>1. k - 1 = n
        BY <1>1, <3>4
      <4> QED
        BY <1>10, <3>2, <3>4, <4>1
    <3> QED
      BY <3>3, <3>4
  <2> QED
    BY <2>1, <2>3
<1> QED
  BY <1>8, <1>18, <1>20, <1>22 DEF n

\* Files whose inodes stay, on a disk whose used blocks stay, are the same files.
LEMMA FilesStay ==
  ASSUME LayerInv, disk' \in [BlockIds -> Contents], NEW i \in LiveIn(disk),
         disk'[IBLOCK(i)] = disk[IBLOCK(i)], \A b \in using_blocks : disk'[b] = disk[b]
  PROVE  /\ get_inode(disk', i) = get_inode(disk, i)
         /\ NumOf(disk', i) = NumOf(disk, i) /\ IdsIn(disk', i) = IdsIn(disk, i)
         /\ ReadIn(disk', i) = ReadIn(disk, i)
<1>1. /\ disk \in [BlockIds -> Contents] /\ i \in Inums /\ NumOf(disk, i) \in 0..MaxBlocks
      /\ UsedBy(disk, i) \subseteq using_blocks
  BY FilesAre
<1>2. \A s \in Slots(NumOf(disk, i)) : disk'[IdsIn(disk, i)[s]] = disk[IdsIn(disk, i)[s]]
  BY <1>1 DEF UsedBy
<1> QED
  BY <1>1, <1>2, SameFile

\* What a create does to the files while the table has room: a new empty one.
LEMMA CreateEffect ==
  ASSUME LayerInv, RoomInTable, NEW t \in Types, disk' \in [BlockIds -> Contents],
         alloc_inode(t)
  PROVE  /\ FirstFreeInum \in Inums \ LiveIn(disk)
         /\ LiveIn(disk') = LiveIn(disk) \cup {FirstFreeInum}
         /\ \A j \in Inums \ {FirstFreeInum} : get_inode(disk', j) = get_inode(disk, j)
         /\ get_inode(disk', FirstFreeInum).type = t
         /\ \A j \in LiveIn(disk) : ReadIn(disk', j) = ReadIn(disk, j)
         /\ WritesInodes
         /\ ReadIn(disk', FirstFreeInum) = <<>>
         /\ BlocksAreAccountedFor'
<1> DEFINE f == FirstFreeInum
           new == [NoInode EXCEPT !.type = t]
<1>1. f \in Inums \ LiveIn(disk)
  BY FirstFreeIsANumber, AccountsAre DEF alloc_inode
<1>2. /\ disk \in [BlockIds -> Contents] /\ using_blocks \subseteq DataBlocks /\ OwnedIn(disk)
      /\ using_blocks = UNION {UsedBy(disk, j) : j \in LiveIn(disk)}
      /\ LiveIn(disk) \subseteq Inums
  BY FilesAre
<1>3. disk' = [disk EXCEPT ![IBLOCK(f)] = new] /\ using_blocks' = using_blocks
  BY DEF alloc_inode, put_inode
<1>4. new.kind = "inode" /\ new.type = t /\ new.size = 0 /\ t # "free"
  BY DEF NoInode, Types
<1> HIDE DEF new, f
<1>5. /\ disk'[IBLOCK(f)] = new
      /\ \A b \in BlockIds \ {IBLOCK(f)} : disk'[b] = disk[b]
      /\ IBLOCK(f) \in BlockIds \ DataBlocks
  BY <1>1, <1>2, <1>3, Layout
<1>6. get_inode(disk', f) = new
  BY <1>1, <1>4, <1>5 DEF get_inode
<1>7. \A j \in Inums \ {f} : disk'[IBLOCK(j)] = disk[IBLOCK(j)]
  BY <1>1, <1>5, Layout
<1>8. \A j \in Inums \ {f} : get_inode(disk', j) = get_inode(disk, j)
  BY <1>7 DEF get_inode
<1>9. LiveIn(disk') = LiveIn(disk) \cup {f}
  BY <1>1, <1>4, <1>6, <1>8 DEF LiveIn, Exists
<1>10. \A b \in using_blocks : disk'[b] = disk[b]
  BY <1>2, <1>5, Layout
<1>11. ASSUME NEW j \in LiveIn(disk)
       PROVE  /\ NumOf(disk', j) = NumOf(disk, j) /\ IdsIn(disk', j) = IdsIn(disk, j)
              /\ ReadIn(disk', j) = ReadIn(disk, j) /\ UsedBy(disk', j) = UsedBy(disk, j)
  <2>1. disk'[IBLOCK(j)] = disk[IBLOCK(j)]
    BY <1>1, <1>2, <1>7
  <2> QED
    BY <1>10, <2>1, FilesStay DEF UsedBy
<1>12. NumOf(disk', f) = 0 /\ Slots(NumOf(disk', f)) = {} /\ UsedBy(disk', f) = {}
  <2>1. NumOf(disk', f) = 0
    BY <1>4, <1>6, BlockNumIs DEF NumOf
  <2>2. Slots(0) = {}
    BY Sizes DEF Slots
  <2> QED
    BY <2>1, <2>2 DEF UsedBy
<1>13. ReadIn(disk', f) = <<>>
  <2>1. ReadIn(disk', f) = [k \in {} |-> Held(disk'[IdsIn(disk', f)[Slot(k - 1)]])]
    BY <1>12 DEF ReadIn
  <2> QED
    BY <2>1
<1>14. OwnedIn(disk')
  <2> SUFFICES ASSUME NEW j \in LiveIn(disk'), NEW m \in LiveIn(disk'),
                      NEW s \in Slots(NumOf(disk', j)), NEW u \in Slots(NumOf(disk', m))
               PROVE  /\ IdsIn(disk', j)[s] \in DataBlocks
                      /\ IdsIn(disk', j)[s] = IdsIn(disk', m)[u] => j = m /\ s = u
    BY DEF OwnedIn
  <2>1. j \in LiveIn(disk) /\ m \in LiveIn(disk)
    BY <1>9, <1>12
  <2> QED
    BY <1>2, <1>11, <2>1 DEF OwnedIn
<1>15. using_blocks' = UNION {UsedBy(disk', j) : j \in LiveIn(disk')}
  <2>1. ASSUME NEW b \in using_blocks' PROVE \E j \in LiveIn(disk') : b \in UsedBy(disk', j)
    <3>1. PICK j \in LiveIn(disk) : b \in UsedBy(disk, j)
      BY <1>2, <1>3
    <3> QED
      BY <1>9, <1>11, <3>1
  <2>2. ASSUME NEW j \in LiveIn(disk'), NEW b \in UsedBy(disk', j) PROVE b \in using_blocks'
    <3>1. j \in LiveIn(disk)
      BY <1>9, <1>12
    <3>2. b \in UsedBy(disk, j)
      BY <1>11, <3>1
    <3> QED
      BY <1>2, <1>3, <3>1, <3>2
  <2> QED
    BY <2>1, <2>2
<1>16. BlocksAreAccountedFor'
  BY <1>14, <1>15, AccountsAre
<1>17. WritesInodes
  BY <1>4, <1>5 DEF WritesInodes
<1> QED
  BY <1>1, <1>4, <1>6, <1>8, <1>9, <1>11, <1>13, <1>16, <1>17 DEF f

\* What a remove does to the files: a tree of files goes, with all its blocks.
LEMMA RemoveEffect ==
  ASSUME LayerInv, NEW i, disk' \in [BlockIds -> Contents], remove_file(i)
  PROVE  /\ Tree(i) \subseteq LiveIn(disk)
         /\ LiveIn(disk') = LiveIn(disk) \ Tree(i)
         /\ \A j \in LiveIn(disk) \ Tree(i) : get_inode(disk', j) = get_inode(disk, j)
         /\ \A j \in LiveIn(disk) \ Tree(i) : ReadIn(disk', j) = ReadIn(disk, j)
         /\ WritesInodes
         /\ BlocksAreAccountedFor'
<1> DEFINE tree == Tree(i)
           stay == LiveIn(disk) \ tree
<1>1. /\ disk \in [BlockIds -> Contents] /\ using_blocks \subseteq DataBlocks /\ OwnedIn(disk)
      /\ using_blocks = UNION {UsedBy(disk, j) : j \in LiveIn(disk)}
      /\ LiveIn(disk) \subseteq Inums /\ DiskTypeOK
  BY FilesAre DEF LayerInv, DiskInv
<1>2. tree \subseteq LiveIn(disk)
  BY <1>1, InodeType DEF Tree, LiveIn
<1>3. \A b \in BlockIds : disk'[b] = IF \E j \in tree : b = IBLOCK(j) THEN NoInode ELSE disk[b]
  BY DEF remove_file
<1>4. using_blocks' = using_blocks \ UNION {UsedBy(disk, j) : j \in tree}
  <2>1. \A j : {BlocksOf(j)[s] : s \in DOMAIN BlocksOf(j)} = UsedBy(disk, j)
    <3> SUFFICES ASSUME NEW j PROVE {BlocksOf(j)[s] : s \in DOMAIN BlocksOf(j)} = UsedBy(disk, j)
      OBVIOUS
    <3>1. DOMAIN IdsIn(disk, j) = Slots(NumOf(disk, j))
      BY DEF IdsIn
    <3> QED
      BY <3>1, ReadingIs DEF UsedBy
  <2> QED
    BY <2>1 DEF remove_file
<1> HIDE DEF tree, stay
<1>5. \A j \in Inums : disk'[IBLOCK(j)] = IF j \in tree THEN NoInode ELSE disk[IBLOCK(j)]
  BY <1>1, <1>2, <1>3, Layout
<1>6. LiveIn(disk') = stay
  <2>1. \A j \in tree : get_inode(disk', j) = NoInode
    BY <1>1, <1>2, <1>5 DEF get_inode
  <2>2. \A j \in Inums \ tree : get_inode(disk', j) = get_inode(disk, j)
    BY <1>5 DEF get_inode
  <2>3. NoInode.type = "free"
    BY DEF NoInode
  <2> QED
    BY <1>1, <1>2, <2>1, <2>2, <2>3 DEF LiveIn, Exists, stay
<1>7. ASSUME NEW b \in using_blocks PROVE disk'[b] = disk[b]
  <2>1. b \in BlockIds /\ \A j \in tree : b # IBLOCK(j)
    BY <1>1, <1>2, Layout
  <2> QED
    BY <1>3, <2>1
<1>8. ASSUME NEW j \in stay
      PROVE  /\ get_inode(disk', j) = get_inode(disk, j)
             /\ NumOf(disk', j) = NumOf(disk, j) /\ IdsIn(disk', j) = IdsIn(disk, j)
             /\ ReadIn(disk', j) = ReadIn(disk, j) /\ UsedBy(disk', j) = UsedBy(disk, j)
  <2>1. j \in LiveIn(disk) /\ disk'[IBLOCK(j)] = disk[IBLOCK(j)]
    BY <1>1, <1>5 DEF stay
  <2> QED
    BY <1>7, <2>1, FilesStay DEF UsedBy
<1>9. OwnedIn(disk')
  <2> SUFFICES ASSUME NEW j \in stay, NEW m \in stay,
                      NEW s \in Slots(NumOf(disk', j)), NEW u \in Slots(NumOf(disk', m))
               PROVE  /\ IdsIn(disk', j)[s] \in DataBlocks
                      /\ IdsIn(disk', j)[s] = IdsIn(disk', m)[u] => j = m /\ s = u
    BY <1>6 DEF OwnedIn
  <2> QED
    BY <1>1, <1>8 DEF OwnedIn, stay
<1>10. using_blocks' = UNION {UsedBy(disk', j) : j \in LiveIn(disk')}
  <2>1. \A j \in tree, m \in stay : UsedBy(disk, j) \cap UsedBy(disk, m) = {}
    BY <1>1, <1>2 DEF OwnedIn, UsedBy, stay
  <2>2. \A m \in stay : UsedBy(disk', m) = UsedBy(disk, m)
    BY <1>8
  <2>3. ASSUME NEW b \in using_blocks' PROVE \E m \in stay : b \in UsedBy(disk', m)
    BY <1>1, <1>4, <2>2 DEF stay
  <2>4. ASSUME NEW m \in stay, NEW b \in UsedBy(disk', m) PROVE b \in using_blocks'
    <3>1. b \in UsedBy(disk, m) /\ m \in LiveIn(disk)
      BY <2>2 DEF stay
    <3>2. b \in using_blocks
      BY <1>1, <3>1
    <3>3. \A j \in tree : b \notin UsedBy(disk, j)
      BY <2>1, <3>1
    <3> QED
      BY <1>4, <3>2, <3>3
  <2> QED
    BY <1>6, <2>3, <2>4
<1>11. BlocksAreAccountedFor'
  BY <1>9, <1>10, AccountsAre
<1>12. WritesInodes
  <2>1. NoInode.kind = "inode"
    BY DEF NoInode
  <2> QED
    BY <1>3, <2>1 DEF WritesInodes
<1> QED
  BY <1>2, <1>6, <1>8, <1>11, <1>12 DEF tree, stay

\* A step that leaves every file its blocks keeps the accounts.
LEMMA SameBlocks ==
  ASSUME LayerInv, NEW i \in LiveIn(disk), LiveIn(disk') = LiveIn(disk),
         \A j \in LiveIn(disk) \ {i} :
           NumOf(disk', j) = NumOf(disk, j) /\ IdsIn(disk', j) = IdsIn(disk, j),
         NumOf(disk', i) = NumOf(disk, i), IdsIn(disk', i) = IdsIn(disk, i),
         using_blocks' = using_blocks
  PROVE  BlocksAreAccountedFor'
<1>1. UsedBy(disk', i) = UsedBy(disk, i) /\ UsedBy(disk, i) \subseteq using_blocks
  BY FilesAre DEF UsedBy
<1>2. using_blocks' = (using_blocks \ UsedBy(disk, i)) \cup UsedBy(disk', i)
  BY <1>1
<1>3. \A s, t \in Slots(NumOf(disk', i)) :
        /\ IdsIn(disk', i)[s] \in UsedBy(disk, i) \cup (DataBlocks \ using_blocks)
        /\ IdsIn(disk', i)[s] = IdsIn(disk', i)[t] => s = t
  BY FilesAre DEF OwnedIn, UsedBy
<1> QED
  BY <1>2, <1>3, OneFileMoves

\* What write_block does to the files: one block of one file.
LEMMA WriteEffect ==
  ASSUME LayerInv, NEW i \in LiveIn(disk), disk' \in [BlockIds -> Contents],
         NEW k, NEW c, write_block(i, k, c)
  PROVE  /\ LiveIn(disk') = LiveIn(disk)
         /\ \A j \in Inums : get_inode(disk', j) = get_inode(disk, j)
         /\ \A j \in LiveIn(disk) \ {i} : ReadIn(disk', j) = ReadIn(disk, j)
         /\ WritesInodes
         /\ k \in 1..NumOf(disk, i)
         /\ ReadIn(disk', i) = [ReadIn(disk, i) EXCEPT ![k] = c]
         /\ BlocksAreAccountedFor'
<1> DEFINE n == NumOf(disk, i)
           old == IdsIn(disk, i)
           b == old[Slot(k - 1)]
           block == [kind |-> "data", cell |-> c]
<1>1. /\ disk \in [BlockIds -> Contents] /\ OwnedIn(disk)
      /\ UsedBy(disk, i) \subseteq using_blocks /\ using_blocks \subseteq DataBlocks
      /\ n \in 0..MaxBlocks /\ i \in Inums /\ Exists(disk, i) /\ IBLOCK(i) \in BlockIds \ DataBlocks
  BY FilesAre, Layout DEF LiveIn
<1>2. k \in 1..n /\ disk' = [disk EXCEPT ![b] = block] /\ using_blocks' = using_blocks
  <2>1. get_block_ids(i) = [m \in 1..n |-> old[Slot(m - 1)]]
    BY GetIdsAre
  <2>2. /\ k \in DOMAIN get_block_ids(i) /\ using_blocks' = using_blocks
        /\ disk' = [disk EXCEPT ![get_block_ids(i)[k]] = block]
    BY DEF write_block
  <2> HIDE DEF n, old, block
  <2>3. k \in 1..n /\ get_block_ids(i)[k] = b
    BY <2>1, <2>2
  <2> QED
    BY <2>2, <2>3
<1>3. /\ \A m \in 1..n : Slot(m - 1) \in Slots(n) \ {NDIRECT}
      /\ \A m, l \in 1..n : Slot(m - 1) = Slot(l - 1) => m = l
  BY <1>1, SlotOf
<1>4. \A s, t \in Slots(n) : /\ old[s] \in DataBlocks /\ old[s] \in UsedBy(disk, i)
                             /\ old[s] = old[t] => s = t
  BY <1>1 DEF OwnedIn, UsedBy
<1>5. Held(block) = c
  BY DEF Held
<1> HIDE DEF n, old, b, block
<1>6. b \in DataBlocks /\ b \in UsedBy(disk, i) /\ b # IBLOCK(i)
      /\ \A s \in Slots(n) : old[s] = b <=> s = Slot(k - 1)
  BY <1>1, <1>2, <1>3, <1>4 DEF b
<1>7. disk'[b] = block /\ \A a \in BlockIds \ {b} : disk'[a] = disk[a]
  BY <1>1, <1>2, <1>6, Layout
<1>8. get_inode(disk', i) = get_inode(disk, i) /\ Exists(disk', i) /\ NumOf(disk', i) = n
  <2>1. disk'[IBLOCK(i)] = disk[IBLOCK(i)]
    BY <1>1, <1>6, <1>7
  <2> QED
    BY <1>1, <2>1 DEF get_inode, Exists, NumOf, n
<1>9. IdsIn(disk', i) = old
  <2>1. NDIRECT \in Slots(n) => disk'[old[NDIRECT]] = disk[old[NDIRECT]]
    BY <1>2, <1>3, <1>4, <1>6, <1>7, Layout
  <2> QED
    BY <1>1, <1>8, <2>1, SameIds DEF n, old
<1>10. /\ LiveIn(disk') = LiveIn(disk)
       /\ \A j \in Inums \ {i} : get_inode(disk', j) = get_inode(disk, j)
       /\ \A j \in LiveIn(disk) \ {i} :
            NumOf(disk', j) = NumOf(disk, j) /\ IdsIn(disk', j) = IdsIn(disk, j)
       /\ \A j \in LiveIn(disk) \ {i} : ReadIn(disk', j) = ReadIn(disk, j)
       /\ WritesInodes
  BY <1>6, <1>7, <1>8, OneFileTouched
<1>11. BlocksAreAccountedFor'
  BY <1>2, <1>8, <1>9, <1>10, SameBlocks DEF n, old
<1>12. ReadIn(disk', i) = [ReadIn(disk, i) EXCEPT ![k] = c]
  <2>1. ReadIn(disk', i) = [m \in 1..n |-> Held(disk'[old[Slot(m - 1)]])]
    BY <1>8, <1>9 DEF ReadIn
  <2>2. ReadIn(disk, i) = [m \in 1..n |-> Held(disk[old[Slot(m - 1)]])]
    BY DEF ReadIn, n, old
  <2>3. ASSUME NEW m \in 1..n
        PROVE  Held(disk'[old[Slot(m - 1)]]) = IF m = k THEN c ELSE Held(disk[old[Slot(m - 1)]])
    <3>1. CASE m = k
      BY <1>5, <1>7, <3>1 DEF b
    <3>2. CASE m # k
      <4>1. old[Slot(m - 1)] # b /\ old[Slot(m - 1)] \in BlockIds
        BY <1>2, <1>3, <1>4, <1>6, <3>2, Layout
      <4> QED
        BY <1>7, <3>2, <4>1
    <3> QED
      BY <3>1, <3>2
  <2> QED
    BY <2>1, <2>2, <2>3
<1> QED
  BY <1>2, <1>8, <1>10, <1>11, <1>12 DEF n

\* What complete does to the files: nothing that shows in blocks.
LEMMA CompleteEffect ==
  ASSUME LayerInv, NEW i \in LiveIn(disk), disk' \in [BlockIds -> Contents],
         NEW size, complete(i, size)
  PROVE  /\ LiveIn(disk') = LiveIn(disk)
         /\ \A j \in Inums : get_inode(disk', j).type = get_inode(disk, j).type
         /\ \A j \in LiveIn(disk) : ReadIn(disk', j) = ReadIn(disk, j)
         /\ WritesInodes
         /\ BlocksAreAccountedFor'
<1> DEFINE ino == get_inode(disk, i)
           new == [ino EXCEPT !.size = size]
<1>1. /\ disk \in [BlockIds -> Contents] /\ OwnedIn(disk) /\ NumOf(disk, i) \in 0..MaxBlocks
      /\ UsedBy(disk, i) \subseteq using_blocks /\ using_blocks \subseteq DataBlocks
      /\ i \in Inums /\ Exists(disk, i) /\ IBLOCK(i) \in BlockIds \ DataBlocks
  BY FilesAre, Layout DEF LiveIn
<1>2. /\ disk' = [disk EXCEPT ![IBLOCK(i)] = new] /\ using_blocks' = using_blocks
      /\ blockNum(size) = NumOf(disk, i)
  BY DEF complete, put_inode, NumOf
<1>3. ino \in Inode /\ ino.blocks \in [0..NDIRECT -> BlockIds]
  BY <1>1, InodeOnDisk
<1>4. new.kind = "inode" /\ new.type = ino.type /\ new.size = size /\ new.blocks = ino.blocks
  BY <1>3 DEF Inode
<1> HIDE DEF ino, new
<1>5. disk'[IBLOCK(i)] = new /\ \A b \in BlockIds \ {IBLOCK(i)} : disk'[b] = disk[b]
  BY <1>1, <1>2
<1>6. get_inode(disk', i) = new
  BY <1>1, <1>4, <1>5 DEF get_inode
<1>7. NumOf(disk', i) = NumOf(disk, i) /\ Exists(disk', i)
  BY <1>1, <1>2, <1>4, <1>6 DEF NumOf, Exists, ino
<1>8. /\ LiveIn(disk') = LiveIn(disk)
      /\ \A j \in Inums \ {i} : get_inode(disk', j) = get_inode(disk, j)
      /\ \A j \in LiveIn(disk) \ {i} :
           NumOf(disk', j) = NumOf(disk, j) /\ IdsIn(disk', j) = IdsIn(disk, j)
      /\ \A j \in LiveIn(disk) \ {i} : ReadIn(disk', j) = ReadIn(disk, j)
      /\ WritesInodes
  BY <1>5, <1>7, OneFileTouched
<1>9. \A s \in Slots(NumOf(disk, i)) : disk'[IdsIn(disk, i)[s]] = disk[IdsIn(disk, i)[s]]
  <2>1. \A s \in Slots(NumOf(disk, i)) : IdsIn(disk, i)[s] \in DataBlocks
    BY <1>1 DEF OwnedIn
  <2> QED
    BY <1>1, <1>5, <2>1, Layout
<1>10. IdsIn(disk', i) = IdsIn(disk, i)
  BY <1>1, <1>4, <1>6, <1>7, <1>9, SameIds DEF ino
<1>11. ReadIn(disk', i) = ReadIn(disk, i)
  <2>1. \A k \in 1..NumOf(disk, i) : Slot(k - 1) \in Slots(NumOf(disk, i))
    BY <1>1, SlotOf
  <2>2. \A k \in 1..NumOf(disk, i) :
          Held(disk'[IdsIn(disk, i)[Slot(k - 1)]]) = Held(disk[IdsIn(disk, i)[Slot(k - 1)]])
    BY <1>9, <2>1
  <2> QED
    BY <1>7, <1>10, <2>2 DEF ReadIn
<1>12. BlocksAreAccountedFor'
  BY <1>2, <1>7, <1>8, <1>10, SameBlocks
<1> QED
  BY <1>4, <1>6, <1>8, <1>11, <1>12 DEF ino

-----------------------------------------------------------------------------
(* The two operations that allocate, given room.                           *)

\* A put, and an append, with the room they need: what their effects are.
LEMMA PutWithRoom ==
  ASSUME LayerInv, RoomOnDisk, NEW i \in Inums, NEW buf \in Buffers,
         NEW size \in SizesOf(Len(buf)), disk' \in [BlockIds -> Contents],
         write_file(i, buf, size)
  PROVE  IF i \in LiveIn(disk)
         THEN /\ LiveIn(disk') = LiveIn(disk)
              /\ \A j \in Inums : get_inode(disk', j).type = get_inode(disk, j).type
              /\ \A j \in LiveIn(disk) \ {i} : ReadIn(disk', j) = ReadIn(disk, j)
              /\ WritesInodes
              /\ ReadIn(disk', i) = buf
              /\ BlocksAreAccountedFor'
         ELSE UNCHANGED layerVars
<1>1. size \in Nat /\ blockNum(size) = Len(buf) /\ Len(buf) \in 0..MaxBlocks
  BY InodeLayerAssumption, Sizes DEF SizesOf
<1>2. CASE i \in LiveIn(disk)
  <2>1. \A k \in 1..(Count(Len(buf)) - Count(NumOf(disk, i))) : alloc_block(using_blocks, k) # 0
    BY <1>1, <1>2, RoomForOne
  <2> QED
    BY <1>1, <1>2, <2>1, PutEffect
<1>3. CASE i \notin LiveIn(disk)
  <2>1. ~Exists(disk, i)
    BY <1>3 DEF LiveIn
  <2> QED
    BY <1>3, <2>1 DEF write_file
<1> QED
  BY <1>2, <1>3

\* The same for an append, which meets no full disk.
LEMMA AppendWithRoom ==
  ASSUME LayerInv, RoomOnDisk, NEW i \in Inums, disk' \in [BlockIds -> Contents],
         append_block(i)
  PROVE  /\ i \in LiveIn(disk)
         /\ LiveIn(disk') = LiveIn(disk)
         /\ \A j \in Inums : get_inode(disk', j).type = get_inode(disk, j).type
         /\ \A j \in LiveIn(disk) \ {i} : ReadIn(disk', j) = ReadIn(disk, j)
         /\ WritesInodes
         /\ ReadIn(disk', i) = [k \in 1..(NumOf(disk, i) + 1) |->
              IF k <= NumOf(disk, i) THEN ReadIn(disk, i)[k] ELSE Held(disk[NewBlock])]
         /\ BlocksAreAccountedFor'
<1>1. i \in LiveIn(disk) /\ NumOf(disk, i) < MaxBlocks
  BY DEF append_block, LiveIn, NumOf
<1>2. NumOf(disk, i) + 1 \in 0..MaxBlocks
  BY <1>1, FilesAre, Sizes
<1>3. \A k \in 1..(Count(NumOf(disk, i) + 1) - Count(NumOf(disk, i))) :
        alloc_block(using_blocks, k) # 0
  BY <1>1, <1>2, RoomForOne
<1> QED
  BY <1>1, <1>3, AppendEffect

-----------------------------------------------------------------------------
(* The accounts of the blocks.                                             *)

\* LayerInv is inductive: the first state has one empty file and no block in
\* use, and every operation keeps the accounts and the bound on files.
LEMMA LayerInvInit == LayerInit => LayerInv
<1> SUFFICES ASSUME LayerInit PROVE LayerInv
  OBVIOUS
<1>1. DiskInv
  BY DiskInvInit
<1>2. ASSUME NEW i \in LiveIn(disk) PROVE i = 1 /\ get_inode(disk, i).size = 0
  <2>1. /\ i \in Inums /\ IBLOCK(i) \in BlockIds
        /\ disk[IBLOCK(i)].kind = "inode" /\ get_inode(disk, i) = disk[IBLOCK(i)]
    BY <1>2, Layout DEF LiveIn, Exists, get_inode, NoInode
  <2>2. IBLOCK(i) = IBLOCK(1)
    BY <2>1 DEF LayerInit, Zero
  <2>3. i = 1
    BY <2>1, <2>2 DEF IBLOCK, Inums
  <2>4. disk[IBLOCK(i)].size = 0
    BY <2>1 DEF LayerInit, NoInode, Zero
  <2> QED
    BY <2>1, <2>3, <2>4
<1>3. ASSUME NEW i \in LiveIn(disk) PROVE NumOf(disk, i) = 0 /\ Slots(NumOf(disk, i)) = {}
  <2>1. NumOf(disk, i) = 0
    BY <1>2, BlockNumIs DEF NumOf
  <2>2. Slots(0) = {}
    BY Sizes DEF Slots
  <2> QED
    BY <2>1, <2>2
<1>4. OwnedIn(disk)
  BY <1>3 DEF OwnedIn
<1>5. using_blocks = UNION {UsedBy(disk, i) : i \in LiveIn(disk)}
  <2>1. \A i \in LiveIn(disk) : UsedBy(disk, i) = {}
    BY <1>3 DEF UsedBy
  <2> QED
    BY <2>1 DEF LayerInit
<1>6. Cardinality(Live) <= MaxFiles
  <2>1. Live \subseteq {1}
    BY <1>2, AccountsAre
  <2>2. IsFiniteSet({1}) /\ Cardinality({1}) = 1
    BY FS_Singleton
  <2>3. Cardinality(Live) <= Cardinality({1})
    BY <2>1, <2>2, FS_Subset
  <2> QED
    BY <2>2, <2>3, LiveIsFinite, Sizes
<1> QED
  BY <1>1, <1>4, <1>5, <1>6, AccountsAre DEF LayerInv

\* Every operation keeps LayerInv while there is room.
LEMMA LayerInvStep ==
  ASSUME LayerInv, RoomInTable, RoomOnDisk, [LayerNext]_layerVars
  PROVE  LayerInv'
<1>1. DiskInv' /\ disk' \in [BlockIds -> Contents]
  <2>1. DiskInv'
    BY DiskInvStep DEF LayerInv
  <2> QED
    BY <2>1 DEF DiskInv, DiskTypeOK, Contents
<1> DEFINE Kept == LiveIn(disk') = LiveIn(disk) /\ BlocksAreAccountedFor'
<1>2. ASSUME Kept PROVE LayerInv'
  <2>1. Live' = Live
    BY <1>2, AccountsAre
  <2>2. Cardinality(Live') <= MaxFiles
    BY <2>1 DEF LayerInv
  <2> QED
    BY <1>1, <1>2, <2>2 DEF LayerInv
<1>3. CASE UNCHANGED layerVars
  BY <1>2, <1>3, AccountsAre DEF LayerInv, layerVars
<1>4. ASSUME NEW t \in Types, alloc_inode(t) PROVE LayerInv'
  <2>1. /\ FirstFreeInum \in Inums \ LiveIn(disk)
        /\ LiveIn(disk') = LiveIn(disk) \cup {FirstFreeInum}
        /\ BlocksAreAccountedFor'
    BY <1>1, <1>4, CreateEffect
  <2>2. Cardinality(LiveIn(disk')) = Cardinality(LiveIn(disk)) + 1
    BY <2>1, LiveIsFinite, AccountsAre, FS_AddElement
  <2>3. Cardinality(Live) < MaxFiles /\ Cardinality(Live) \in Nat /\ MaxFiles \in Nat
    BY <1>4, LiveIsFinite, Sizes DEF alloc_inode
  <2>4. Cardinality(Live') <= MaxFiles
    BY <2>2, <2>3, AccountsAre
  <2> QED
    BY <1>1, <2>1, <2>4 DEF LayerInv
<1>5. ASSUME NEW i \in Inums, NEW buf \in Buffers, NEW size \in SizesOf(Len(buf)),
             write_file(i, buf, size)
      PROVE  LayerInv'
  <2>1. Kept \/ UNCHANGED layerVars
    BY <1>1, <1>5, PutWithRoom
  <2> QED
    BY <1>2, <1>3, <2>1
<1>6. ASSUME NEW i \in Inums, remove_file(i) PROVE LayerInv'
  <2>1. LiveIn(disk') \subseteq LiveIn(disk) /\ BlocksAreAccountedFor'
    BY <1>1, <1>6, RemoveEffect
  <2>2. Cardinality(LiveIn(disk')) <= Cardinality(LiveIn(disk))
        /\ Cardinality(LiveIn(disk')) \in Nat
    BY <2>1, LiveIsFinite, AccountsAre, FS_Subset, FS_CardinalityType
  <2>3. Cardinality(LiveIn(disk)) <= MaxFiles /\ Cardinality(LiveIn(disk)) \in Nat
    BY LiveIsFinite, AccountsAre DEF LayerInv
  <2>4. Cardinality(Live') <= MaxFiles
    BY <2>2, <2>3, AccountsAre, Sizes
  <2> QED
    BY <1>1, <2>1, <2>4 DEF LayerInv
<1>7. ASSUME NEW i \in Inums, append_block(i) PROVE LayerInv'
  BY <1>1, <1>2, <1>7, AppendWithRoom
<1>8. ASSUME NEW i \in Inums, NEW k, NEW c, write_block(i, k, c) PROVE LayerInv'
  <2>1. i \in LiveIn(disk)
    BY <1>8 DEF write_block, LiveIn
  <2> QED
    BY <1>1, <1>2, <1>8, <2>1, WriteEffect
<1>9. ASSUME NEW i \in Inums, NEW size, complete(i, size) PROVE LayerInv'
  <2>1. i \in LiveIn(disk)
    BY <1>9 DEF complete, LiveIn
  <2> QED
    BY <1>1, <1>2, <1>9, <2>1, CompleteEffect
<1> HIDE DEF Kept
<1> QED
  BY <1>3, <1>4, <1>5, <1>6, <1>7, <1>8, <1>9
     DEF LayerNext, DoCreate, DoPut, DoRemove, DoAppend, DoWrite, DoComplete

\* Data and indirect blocks stay in the data area.
LEMMA DataStaysStep ==
  ASSUME LayerInv, RoomInTable, RoomOnDisk, DataStaysInData, [LayerNext]_layerVars
  PROVE  DataStaysInData'
<1>1. disk' \in [BlockIds -> Contents]
  BY LayerInvStep DEF LayerInv, DiskInv, DiskTypeOK, Contents
<1>2. WritesInodes \/ UNCHANGED disk
  <2>1. ASSUME NEW t \in Types, alloc_inode(t) PROVE WritesInodes
    BY <1>1, <2>1, CreateEffect
  <2>2. ASSUME NEW i \in Inums, NEW buf \in Buffers, NEW size \in SizesOf(Len(buf)),
               write_file(i, buf, size)
        PROVE  WritesInodes \/ UNCHANGED disk
    BY <1>1, <2>2, PutWithRoom DEF layerVars
  <2>3. ASSUME NEW i \in Inums, remove_file(i) PROVE WritesInodes
    BY <1>1, <2>3, RemoveEffect
  <2>4. ASSUME NEW i \in Inums, append_block(i) PROVE WritesInodes
    BY <1>1, <2>4, AppendWithRoom
  <2>5. ASSUME NEW i \in Inums, NEW k, NEW c, write_block(i, k, c) PROVE WritesInodes
    <3>1. i \in LiveIn(disk)
      BY <2>5 DEF write_block, LiveIn
    <3> QED
      BY <1>1, <2>5, <3>1, WriteEffect
  <2>6. ASSUME NEW i \in Inums, NEW size, complete(i, size) PROVE WritesInodes
    <3>1. i \in LiveIn(disk)
      BY <2>6 DEF complete, LiveIn
    <3> QED
      BY <1>1, <2>6, <3>1, CompleteEffect
  <2>7. CASE UNCHANGED layerVars
    BY <2>7 DEF layerVars
  <2> QED
    BY <2>1, <2>2, <2>3, <2>4, <2>5, <2>6, <2>7
       DEF LayerNext, DoCreate, DoPut, DoRemove, DoAppend, DoWrite, DoComplete
<1> QED
  BY <1>2 DEF WritesInodes, DataStaysInData

\* Every block of the disk holds an inode, block ids, data or zeros, each well
\* formed, and only data blocks are ever marked in use: on any disk, full or not.
THEOREM DiskTypeCorrect == LayerSpec => []DiskTypeOK
<1>1. LayerInit => DiskInv
  BY DiskInvInit
<1>2. DiskInv /\ [LayerNext]_layerVars => DiskInv'
  BY DiskInvStep
<1>3. DiskInv => DiskTypeOK
  BY DEF DiskInv
<1> QED
  BY <1>1, <1>2, <1>3, PTL DEF LayerSpec

\* As long as the files have room, every block a file uses is a data block that
\* is its own, marked in use, and no other block is marked: whatever is created,
\* grown past the indirect boundary, shrunk, appended to and removed.
THEOREM BlocksAccounted ==
  ASSUME RoomInTable, RoomOnDisk
  PROVE  LayerSpec => []BlocksAreAccountedFor
<1>1. LayerInit => LayerInv
  BY LayerInvInit
<1>2. LayerInv /\ [LayerNext]_layerVars => LayerInv'
  BY LayerInvStep
<1>3. LayerInv => BlocksAreAccountedFor
  BY DEF LayerInv
<1> QED
  BY <1>1, <1>2, <1>3, PTL DEF LayerSpec

\* As long as the files have room, data and block ids are written to the data
\* area only, never over the superblock, the bitmap or the inode table.
THEOREM DataInPlace ==
  ASSUME RoomInTable, RoomOnDisk
  PROVE  LayerSpec => []DataStaysInData
<1>1. LayerInit => LayerInv /\ DataStaysInData
  BY LayerInvInit DEF LayerInit, DataStaysInData, NoInode, Zero, BlockIds
<1>2. LayerInv /\ DataStaysInData /\ [LayerNext]_layerVars => (LayerInv /\ DataStaysInData)'
  BY LayerInvStep, DataStaysStep
<1> QED
  BY <1>1, <1>2, PTL DEF LayerSpec

-----------------------------------------------------------------------------
(* What read_file returns is what was put, appended and written.           *)

\* A file of the store.
Files == [type : Types, cells : Seq(Cells)]

\* The inductive invariant of the two side by side.
StoreInv ==
  /\ LayerInv
  /\ ReadsBack
  /\ files \in [Inums -> Files \cup {NoFile}]

\* What the disk d says of file i.
FileIn(d, i) ==
  IF i \in LiveIn(d) THEN [type |-> get_inode(d, i).type, cells |-> ReadIn(d, i)] ELSE NoFile

\* ReadsBack, now and after a step, in terms of a disk.
LEMMA ReadsBackIs ==
  /\ ReadsBack <=> \A i \in Inums : files[i] = FileIn(disk, i)
  /\ ReadsBack' <=> \A i \in Inums : files'[i] = FileIn(disk', i)
<1>1. \A i \in Inums : /\ Exists(disk, i) <=> i \in LiveIn(disk)
                       /\ Exists(disk', i) <=> i \in LiveIn(disk')
  BY DEF LiveIn
<1>2. ReadsBack <=> \A i \in Inums : files[i] = FileIn(disk, i)
  BY <1>1, GetIdsAre, Zenon DEF ReadsBack, FileIn
<1>3. ReadsBack' <=> \A i \in Inums : files'[i] = FileIn(disk', i)
  <2>1. ReadsBack' <=> \A i \in Inums :
          files'[i] = IF Exists(disk', i)
                      THEN [type |-> get_inode(disk', i).type, cells |-> ReadIn(disk', i)]
                      ELSE NoFile
    BY GetIdsAre, ReadingIs, Zenon DEF ReadsBack
  <2> QED
    BY <1>1, <2>1, Zenon DEF FileIn
<1> QED
  BY <1>2, <1>3

\* A live file reads as a sequence of cells, so it is not taken for a free one.
LEMMA FileIsAFile ==
  ASSUME NEW d \in [BlockIds -> Contents], NEW i \in LiveIn(d), NumOf(d, i) \in 0..MaxBlocks
  PROVE  /\ ReadIn(d, i) \in Seq(Cells) /\ Len(ReadIn(d, i)) = NumOf(d, i)
         /\ FileIn(d, i) = [type |-> get_inode(d, i).type, cells |-> ReadIn(d, i)]
         /\ FileIn(d, i) \in Files /\ FileIn(d, i) # NoFile
<1> DEFINE n == NumOf(d, i)
           read == [k \in 1..n |-> Held(d[IdsIn(d, i)[Slot(k - 1)]])]
<1>1. \A block \in Contents : Held(block) \in Cells
  <2>1. 0 \in Cells
    BY Sizes DEF Cells
  <2>2. \A block \in Contents : block.kind = "data" => block.cell \in Cells
    BY DEF Contents, Inode, Pointers, Data, Zero
  <2> QED
    BY <2>1, <2>2 DEF Held
<1>2. \A k \in 1..n : Held(d[IdsIn(d, i)[Slot(k - 1)]]) \in Cells
  <2>1. \A k \in 1..n : Slot(k - 1) \in Slots(n)
    BY SlotOf
  <2>2. IdsIn(d, i) \in [Slots(n) -> BlockIds]
    BY IdsOfFile
  <2> QED
    BY <1>1, <2>1, <2>2
<1>3. n \in Nat /\ ReadIn(d, i) = read
  BY Sizes DEF ReadIn
<1>4. read \in Seq(Cells) /\ Len(read) = n
  <2> HIDE DEF n
  <2> QED
    BY <1>2, <1>3
<1>5. get_inode(d, i).type \in Types
  <2>1. get_inode(d, i) \in Inode /\ get_inode(d, i).type # "free"
    BY InodeOnDisk DEF LiveIn, Exists
  <2> QED
    BY <2>1 DEF Inode
<1> HIDE DEF read
<1>6. FileIn(d, i) = [type |-> get_inode(d, i).type, cells |-> ReadIn(d, i)]
  BY DEF FileIn
<1>7. FileIn(d, i) \in Files
  BY <1>3, <1>4, <1>5, <1>6 DEF Files
<1>8. FileIn(d, i) # NoFile
  BY <1>7, NoFileAssumption DEF Files
<1> QED
  BY <1>3, <1>4, <1>6, <1>7, <1>8

\* The store knows the files of the disk, and their entries.
LEMMA StoreKnows ==
  ASSUME StoreInv
  PROVE  /\ Store!Live = LiveIn(disk)
         /\ \A i \in LiveIn(disk) :
              files[i] = [type |-> get_inode(disk, i).type, cells |-> ReadIn(disk, i)]
         /\ \A i \in Inums : Store!Entries(i) = Entries(i)
         /\ \A i \in Inums : Store!Contents(i) = Tree(i)
<1>1. \A i \in Inums : files[i] = FileIn(disk, i)
  BY ReadsBackIs DEF StoreInv
<1>2. ASSUME NEW i \in LiveIn(disk)
      PROVE  /\ i \in Inums /\ files[i] # NoFile
             /\ files[i] = [type |-> get_inode(disk, i).type, cells |-> ReadIn(disk, i)]
  <2>1. /\ disk \in [BlockIds -> Contents] /\ i \in Inums /\ NumOf(disk, i) \in 0..MaxBlocks
    BY FilesAre DEF StoreInv
  <2> QED
    BY <1>1, <2>1, FileIsAFile
<1>3. \A i \in Inums \ LiveIn(disk) : files[i] = NoFile
  BY <1>1 DEF FileIn
<1>4. Store!Live = LiveIn(disk)
  BY <1>2, <1>3 DEF Store!Live
<1>5. ASSUME NEW i \in Inums PROVE Store!Entries(i) = Entries(i)
  <2>1. CASE i \in LiveIn(disk)
    <3> DEFINE of == get_inode(disk, i).type
               read == ReadIn(disk, i)
    <3>1. files[i] = [type |-> of, cells |-> read] /\ read = read_file(i)
      BY <1>2, <2>1, GetIdsAre, Zenon
    <3>2. files[i].type = get_inode(disk, i).type /\ files[i].cells = read_file(i)
      <4> HIDE DEF of, read
      <4>1. files[i].type = of /\ files[i].cells = read
        BY <3>1
      <4> QED
        BY <3>1, <4>1 DEF of
    <3> QED
      BY <1>4, <2>1, <3>2, Zenon DEF Store!Entries, Entries
  <2>2. CASE i \notin LiveIn(disk)
    <3>1. get_inode(disk, i).type = "free"
      BY <2>2 DEF LiveIn, Exists
    <3>2. "free" # "dir"
      OBVIOUS
    <3> QED
      BY <1>4, <2>2, <3>1, <3>2 DEF Store!Entries, Entries
  <2> QED
    BY <2>1, <2>2
<1>6. ASSUME NEW i \in Inums PROVE Store!Contents(i) = Tree(i)
  <2>1. [m \in Inums |-> Store!Entries(m)] = [m \in Inums |-> Entries(m)]
    BY <1>5
  <2>2. Store!Below([m \in Inums |-> Entries(m)], i) = Below([m \in Inums |-> Entries(m)], i)
    <3> DEFINE h == [m \in Inums |-> Entries(m)]
    <3>1. Store!Cardinality(DOMAIN h) = Cardinality(DOMAIN h)
      BY Zenon DEF Cardinality, Store!Cardinality
    <3> HIDE DEF h
    <3>2. Store!Below(h, i) = Below(h, i)
      BY <3>1, Zenon DEF Below, Store!Below
    <3> QED
      BY <3>2 DEF h
  <2>3. Store!Contents(i) = Below([m \in Inums |-> Entries(m)], i) \cap LiveIn(disk)
    BY <1>4, <2>1, <2>2, Zenon DEF Store!Contents
  <2>4. \A j : Exists(disk, j) <=> j \in LiveIn(disk)
    BY DEF LiveIn, Exists, get_inode, NoInode
  <2> QED
    BY <2>3, <2>4, Zenon DEF Tree
<1> QED
  BY <1>2, <1>4, <1>5, <1>6

\* Once the store agrees with the disk, its files have their type.
LEMMA FilesAreTyped ==
  ASSUME LayerInv', \A i \in Inums : files'[i] = FileIn(disk', i),
         files' = [i \in Inums |-> files'[i]]
  PROVE  StoreInv'
<1>1. disk' \in [BlockIds -> Contents]
  BY DEF LayerInv, DiskInv, DiskTypeOK, Contents
<1>2. ASSUME NEW i \in LiveIn(disk') PROVE NumOf(disk', i) \in 0..MaxBlocks
  <2>1. i \in Live' /\ \A j \in Live' : BlockCount(j)' <= MaxBlocks
    BY <1>2, AccountsAre DEF LayerInv, DiskInv, SizesFit
  <2>2. BlockCount(i)' = NumOf(disk', i)
    BY ReadingIs
  <2> QED
    BY <1>1, <2>1, <2>2, InodeOnDisk, Sizes
<1>3. \A i \in Inums : FileIn(disk', i) \in Files \cup {NoFile}
  <2>1. \A i \in LiveIn(disk') : FileIn(disk', i) \in Files
    BY <1>1, <1>2, FileIsAFile
  <2>2. \A i \in Inums \ LiveIn(disk') : FileIn(disk', i) = NoFile
    BY DEF FileIn
  <2> QED
    BY <2>1, <2>2
<1>4. files' \in [Inums -> Files \cup {NoFile}]
  BY <1>3
<1> QED
  BY <1>4, ReadsBackIs DEF StoreInv, Files

\* The files of a table, one of them set to f.
LEMMA SetOne ==
  ASSUME NEW T, files \in [Inums -> T], NEW i \in Inums, NEW f,
         files' = [files EXCEPT ![i] = f]
  PROVE  /\ files' = [j \in Inums |-> files'[j]]
         /\ files'[i] = f /\ \A j \in Inums \ {i} : files'[j] = files[j]
<1>1. files' = [j \in Inums |-> IF j = i THEN f ELSE files[j]]
  OBVIOUS
<1> QED
  BY <1>1

\* A step that changes what one file holds, on the disk and in the store.
LEMMA OneFileHolds ==
  ASSUME StoreInv, LayerInv', NEW i \in LiveIn(disk), LiveIn(disk') = LiveIn(disk),
         \A j \in Inums : get_inode(disk', j).type = get_inode(disk, j).type,
         \A j \in LiveIn(disk) \ {i} : ReadIn(disk', j) = ReadIn(disk, j),
         files' = [files EXCEPT ![i] = [type |-> get_inode(disk, i).type,
                                        cells |-> ReadIn(disk', i)]]
  PROVE  StoreInv'
<1>1. /\ files \in [Inums -> Files \cup {NoFile}] /\ i \in Inums
      /\ \A j \in Inums : files[j] = FileIn(disk, j)
  BY ReadsBackIs DEF StoreInv, LiveIn
<1> DEFINE f == [type |-> get_inode(disk, i).type, cells |-> ReadIn(disk', i)]
<1>2. /\ files' = [j \in Inums |-> files'[j]]
      /\ files'[i] = f /\ \A j \in Inums \ {i} : files'[j] = files[j]
  <2> HIDE DEF f
  <2> QED
    BY <1>1, SetOne DEF f
<1>3. f = FileIn(disk', i)
  BY <1>1 DEF FileIn
<1>4. \A j \in Inums \ {i} : FileIn(disk', j) = FileIn(disk, j)
  BY DEF FileIn
<1> HIDE DEF f
<1>5. \A j \in Inums : files'[j] = FileIn(disk', j)
  BY <1>1, <1>2, <1>3, <1>4
<1> QED
  BY <1>2, <1>5, FilesAreTyped

\* Setting the cells of a file.
LEMMA SetCells ==
  ASSUME NEW f, NEW t, NEW r, NEW c, f = [type |-> t, cells |-> r]
  PROVE  [f EXCEPT !.cells = c] = [type |-> t, cells |-> c]
OBVIOUS

\* A sequence is a function.
LEMMA SeqIsFunction ==
  ASSUME NEW S, NEW r \in Seq(S)
  PROVE  r \in [1..Len(r) -> S]
OBVIOUS

\* Appending defines one more value.
LEMMA AppendDefines ==
  ASSUME NEW S, NEW r \in Seq(S), NEW c
  PROVE  Append(r, c) = [k \in 1..(Len(r) + 1) |-> IF k <= Len(r) THEN r[k] ELSE c]
<1>1. Append(r, c) \in Seq(S \cup {c}) /\ Len(Append(r, c)) = Len(r) + 1
  OBVIOUS
<1>2. \A k \in 1..(Len(r) + 1) : Append(r, c)[k] = IF k <= Len(r) THEN r[k] ELSE c
  OBVIOUS
<1>3. Append(r, c) \in [1..Len(Append(r, c)) -> S \cup {c}]
  BY <1>1, SeqIsFunction
<1> QED
  BY <1>1, <1>2, <1>3

\* A step of the two side by side is a step of the layer.
LEMMA StoreLayerStep == [StoreNext]_<<disk, using_blocks, files>> => [LayerNext]_layerVars
BY DEF StoreNext, LayerNext, layerVars, DoCreate, DoPut, DoRemove, DoAppend, DoWrite, DoComplete

\* StoreInv is inductive: whatever an operation does to the files of the disk,
\* the store does to its own.
LEMMA StoreInvInit == StoreInit => StoreInv
<1> SUFFICES ASSUME StoreInit PROVE StoreInv
  OBVIOUS
<1>1. LayerInv /\ LayerInit
  BY LayerInvInit DEF StoreInit
<1>2. files = [i \in Inums |-> IF i = 1 THEN [type |-> "dir", cells |-> <<>>] ELSE NoFile]
  BY DEF StoreInit, Store!Init
<1>3. ASSUME NEW i \in Inums PROVE files[i] = FileIn(disk, i)
  <2>1. IBLOCK(i) \in BlockIds
    BY Layout
  <2>2. CASE i = 1
    <3>1. disk[IBLOCK(1)] = [NoInode EXCEPT !.type = "dir"]
      BY <1>1, <2>1, <2>2 DEF LayerInit
    <3>2. get_inode(disk, 1).type = "dir" /\ get_inode(disk, 1).size = 0
      BY <2>2, <3>1 DEF get_inode, NoInode
    <3>3. 1 \in LiveIn(disk)
      BY <2>2, <3>2 DEF LiveIn, Exists
    <3>4. ReadIn(disk, 1) = <<>>
      <4>1. NumOf(disk, 1) = 0
        BY <3>2, BlockNumIs DEF NumOf
      <4>2. ReadIn(disk, 1) = [k \in 1..0 |-> Held(disk[IdsIn(disk, 1)[Slot(k - 1)]])]
        BY <4>1 DEF ReadIn
      <4> QED
        BY <4>2
    <3> QED
      BY <1>2, <2>2, <3>2, <3>3, <3>4 DEF FileIn
  <2>3. CASE i # 1
    <3>1. disk[IBLOCK(i)] = Zero
      <4>1. IBLOCK(i) # IBLOCK(1)
        BY <2>3 DEF IBLOCK, Inums
      <4> QED
        BY <1>1, <2>1, <4>1 DEF LayerInit
    <3>2. i \notin LiveIn(disk)
      BY <3>1 DEF LiveIn, Exists, get_inode, NoInode, Zero
    <3> QED
      BY <1>2, <2>3, <3>2 DEF FileIn
  <2> QED
    BY <2>2, <2>3
<1>4. files \in [Inums -> Files \cup {NoFile}]
  <2>1. [type |-> "dir", cells |-> <<>>] \in Files
    BY DEF Files, Types
  <2> QED
    BY <1>2, <2>1
<1> QED
  BY <1>1, <1>3, <1>4, ReadsBackIs DEF StoreInv

\* Every operation, made to both, leaves the store what the disk says.
LEMMA StoreInvStep ==
  ASSUME StoreInv, RoomInTable, RoomOnDisk, [StoreNext]_<<disk, using_blocks, files>>
  PROVE  StoreInv'
<1>1. LayerInv /\ LayerInv'
  BY StoreLayerStep, LayerInvStep DEF StoreInv
<1>2. /\ disk \in [BlockIds -> Contents] /\ disk' \in [BlockIds -> Contents]
      /\ LiveIn(disk) \subseteq Inums
  BY <1>1, FilesAre DEF LayerInv, DiskInv, DiskTypeOK, Contents
<1>3. /\ files \in [Inums -> Files \cup {NoFile}]
      /\ \A j \in Inums : files[j] = FileIn(disk, j)
      /\ files = [j \in Inums |-> files[j]]
  BY ReadsBackIs DEF StoreInv
<1>4. CASE UNCHANGED <<disk, using_blocks, files>>
  BY <1>1, <1>3, <1>4, FilesAreTyped
<1>5. ASSUME NEW t \in Types, alloc_inode(t), Store!Create(FirstFreeInum, t) PROVE StoreInv'
  <2> DEFINE f == FirstFreeInum
             new == [type |-> t, cells |-> <<>>]
  <2>1. /\ f \in Inums \ LiveIn(disk) /\ LiveIn(disk') = LiveIn(disk) \cup {f}
        /\ \A j \in Inums \ {f} : get_inode(disk', j) = get_inode(disk, j)
        /\ get_inode(disk', f).type = t /\ ReadIn(disk', f) = <<>>
        /\ \A j \in LiveIn(disk) : ReadIn(disk', j) = ReadIn(disk, j)
    BY <1>1, <1>2, <1>5, CreateEffect
  <2>2. files' = [files EXCEPT ![f] = new]
    BY <1>5 DEF Store!Create
  <2>3. FileIn(disk', f) = new
    BY <2>1 DEF FileIn
  <2>4. \A j \in Inums \ {f} : FileIn(disk', j) = FileIn(disk, j)
    BY <2>1 DEF FileIn
  <2> HIDE DEF f, new
  <2>5. /\ files' = [j \in Inums |-> files'[j]]
        /\ files'[f] = new /\ \A j \in Inums \ {f} : files'[j] = files[j]
    BY <1>3, <2>1, <2>2, SetOne
  <2>6. \A j \in Inums : files'[j] = FileIn(disk', j)
    BY <1>3, <2>3, <2>4, <2>5
  <2> QED
    BY <1>1, <2>5, <2>6, FilesAreTyped
<1>6. ASSUME NEW i \in Inums, NEW buf \in Buffers, NEW size \in SizesOf(Len(buf)),
             write_file(i, buf, size), Store!Put(i, buf)
      PROVE  StoreInv'
  <2>1. CASE i \in LiveIn(disk)
    <3>1. /\ LiveIn(disk') = LiveIn(disk)
          /\ \A j \in Inums : get_inode(disk', j).type = get_inode(disk, j).type
          /\ \A j \in LiveIn(disk) \ {i} : ReadIn(disk', j) = ReadIn(disk, j)
          /\ ReadIn(disk', i) = buf
      BY <1>1, <1>2, <1>6, <2>1, PutWithRoom
    <3>2. files' = [files EXCEPT ![i] = [files[i] EXCEPT !.cells = buf]]
      BY <1>6, <2>1, StoreKnows DEF Store!Put
    <3>3. files[i] = [type |-> get_inode(disk, i).type, cells |-> ReadIn(disk, i)]
      BY <2>1, StoreKnows
    <3>4. [files[i] EXCEPT !.cells = buf]
            = [type |-> get_inode(disk, i).type, cells |-> ReadIn(disk', i)]
      BY <3>1, <3>3, SetCells
    <3> QED
      BY <1>1, <2>1, <3>1, <3>2, <3>4, OneFileHolds
  <2>2. CASE i \notin LiveIn(disk)
    <3>1. UNCHANGED layerVars
      BY <1>1, <1>2, <1>6, <2>2, PutWithRoom
    <3>2. files' = files
      BY <1>6, <2>2, StoreKnows DEF Store!Put
    <3> QED
      BY <1>4, <3>1, <3>2 DEF layerVars
  <2> QED
    BY <2>1, <2>2
<1>7. ASSUME NEW i \in Inums, remove_file(i), Store!Remove(i) PROVE StoreInv'
  <2>1. /\ LiveIn(disk') = LiveIn(disk) \ Tree(i)
        /\ \A j \in LiveIn(disk) \ Tree(i) : get_inode(disk', j) = get_inode(disk, j)
        /\ \A j \in LiveIn(disk) \ Tree(i) : ReadIn(disk', j) = ReadIn(disk, j)
    BY <1>1, <1>2, <1>7, RemoveEffect
  <2>2. files' = [j \in Inums |-> IF j \in Tree(i) THEN NoFile ELSE files[j]]
    BY <1>7, StoreKnows DEF Store!Remove
  <2>3. \A j \in Inums : FileIn(disk', j) = IF j \in Tree(i) THEN NoFile ELSE FileIn(disk, j)
    BY <2>1 DEF FileIn
  <2>4. \A j \in Inums : files'[j] = FileIn(disk', j)
    BY <1>3, <2>2, <2>3
  <2>5. files' = [j \in Inums |-> files'[j]]
    BY <2>2
  <2> QED
    BY <1>1, <2>4, <2>5, FilesAreTyped
<1>8. ASSUME NEW i \in Inums, append_block(i),
             Store!AppendBlock(i, Held(disk[alloc_block(using_blocks, 1)]))
      PROVE  StoreInv'
  <2> DEFINE c == Held(disk[NewBlock])
             r == ReadIn(disk, i)
  <2>1. /\ i \in LiveIn(disk) /\ LiveIn(disk') = LiveIn(disk)
        /\ \A j \in Inums : get_inode(disk', j).type = get_inode(disk, j).type
        /\ \A j \in LiveIn(disk) \ {i} : ReadIn(disk', j) = ReadIn(disk, j)
        /\ ReadIn(disk', i) = [k \in 1..(NumOf(disk, i) + 1) |->
             IF k <= NumOf(disk, i) THEN r[k] ELSE c]
    BY <1>1, <1>2, <1>8, AppendWithRoom
  <2>2. r \in Seq(Cells) /\ Len(r) = NumOf(disk, i) /\ NumOf(disk, i) \in Nat
    BY <1>1, <1>2, <2>1, FilesAre, FileIsAFile, Sizes
  <2>3. files[i] = [type |-> get_inode(disk, i).type, cells |-> r]
    BY <2>1, StoreKnows
  <2>4. files' = [files EXCEPT ![i] = [files[i] EXCEPT !.cells = Append(files[i].cells, c)]]
    BY <1>8 DEF Store!AppendBlock, NewBlock
  <2> HIDE DEF c, r
  <2>5. Append(r, c) = ReadIn(disk', i)
    <3>1. Append(r, c) = [k \in 1..(Len(r) + 1) |-> IF k <= Len(r) THEN r[k] ELSE c]
      BY <2>2, AppendDefines
    <3> QED
      BY <2>1, <2>2, <3>1
  <2>6. [files[i] EXCEPT !.cells = Append(files[i].cells, c)]
          = [type |-> get_inode(disk, i).type, cells |-> ReadIn(disk', i)]
    <3>1. files[i].cells = r
      BY <2>3
    <3> QED
      BY <2>3, <2>5, <3>1, SetCells
  <2> QED
    BY <1>1, <2>1, <2>4, <2>6, OneFileHolds
<1>9. ASSUME NEW i \in Inums, NEW k, NEW c, write_block(i, k, c), Store!WriteBlock(i, k, c)
      PROVE  StoreInv'
  <2> DEFINE r == ReadIn(disk, i)
  <2>0. i \in LiveIn(disk)
    BY <1>9 DEF write_block, LiveIn
  <2>1. /\ LiveIn(disk') = LiveIn(disk)
        /\ \A j \in Inums : get_inode(disk', j) = get_inode(disk, j)
        /\ \A j \in LiveIn(disk) \ {i} : ReadIn(disk', j) = ReadIn(disk, j)
        /\ ReadIn(disk', i) = [r EXCEPT ![k] = c]
    BY <1>1, <1>2, <1>9, <2>0, WriteEffect
  <2>2. files[i] = [type |-> get_inode(disk, i).type, cells |-> r]
    BY <2>0, StoreKnows
  <2>3. files' = [files EXCEPT ![i] = [files[i] EXCEPT !.cells = [files[i].cells EXCEPT ![k] = c]]]
    BY <1>9 DEF Store!WriteBlock
  <2> HIDE DEF r
  <2>4. [files[i] EXCEPT !.cells = [files[i].cells EXCEPT ![k] = c]]
          = [type |-> get_inode(disk, i).type, cells |-> ReadIn(disk', i)]
    <3>1. files[i].cells = r
      BY <2>2
    <3> QED
      BY <2>1, <2>2, <3>1, SetCells
  <2> QED
    BY <1>1, <2>0, <2>1, <2>3, <2>4, OneFileHolds
<1>10. ASSUME NEW i \in Inums, NEW size, complete(i, size), UNCHANGED files PROVE StoreInv'
  <2>0. i \in LiveIn(disk)
    BY <1>10 DEF complete, LiveIn
  <2>1. /\ LiveIn(disk') = LiveIn(disk)
        /\ \A j \in Inums : get_inode(disk', j).type = get_inode(disk, j).type
        /\ \A j \in LiveIn(disk) : ReadIn(disk', j) = ReadIn(disk, j)
    BY <1>1, <1>2, <1>10, <2>0, CompleteEffect
  <2>2. \A j \in Inums : FileIn(disk', j) = FileIn(disk, j)
    BY <2>1 DEF FileIn
  <2> QED
    BY <1>1, <1>3, <1>10, <2>2, FilesAreTyped
<1> QED
  BY <1>4, <1>5, <1>6, <1>7, <1>8, <1>9, <1>10 DEF StoreNext, DoComplete

\* The layer next to the store does nothing that it does not do alone, so what
\* is proved about LayerSpec holds of StoreSpec too.
THEOREM StoreImplementsLayer == StoreSpec => LayerSpec
<1>1. StoreInit => LayerInit
  BY DEF StoreInit
<1>2. [StoreNext]_<<disk, using_blocks, files>> => [LayerNext]_layerVars
  BY StoreLayerStep
<1> QED
  BY <1>1, <1>2, PTL DEF StoreSpec, LayerSpec

\* As long as the files have room, reading gives back what was written: every
\* live inode is a file of the store, of its type, and read_file follows its
\* blocks to the contents last put, appended and written to it, whatever was
\* done to the other files and to the blocks they share the disk with.
THEOREM ReadsBackWhatWasWritten ==
  ASSUME RoomInTable, RoomOnDisk
  PROVE  StoreSpec => []ReadsBack
<1>1. StoreInit => StoreInv
  BY StoreInvInit
<1>2. StoreInv /\ [StoreNext]_<<disk, using_blocks, files>> => StoreInv'
  BY StoreInvStep
<1>3. StoreInv => ReadsBack
  BY DEF StoreInv
<1> QED
  BY <1>1, <1>2, <1>3, PTL DEF StoreSpec

=============================================================================
