-------------------------- MODULE JosKernelProofs --------------------------
(***************************************************************************)
(* Machine-checked proofs about JosKernel, for every size of the table of  *)
(* environments, every set of CPUs and every number of forks.              *)
(***************************************************************************)
EXTENDS JosKernel, FiniteSetTheorems, WellFoundedInduction, TLAPS

Busy == {"RUNNING", "DYING"}

\* The CPUs cu run what the table es says runs: no slot on two of them, ...
Agree(es, cu) ==
  /\ \A c \in CPUs : cu[c] # NULL => es[cu[c]].status \in Busy
  /\ \A s \in Slots : es[s].status \in Busy => \E c \in CPUs : cu[c] = s
  /\ \A c, d \in CPUs : cu[c] # NULL /\ cu[c] = cu[d] => c = d

\* ... and CPU c, whose environment was e, is about to choose what it runs next.
Leaving(c, es, e) ==
  /\ \A d \in CPUs \ {c} : cur[d] # NULL => es[cur[d]].status \in Busy /\ cur[d] # e
  /\ \A s \in Slots : es[s].status \in Busy => s = e \/ \E d \in CPUs \ {c} : cur[d] = s
  /\ \A d, x \in CPUs \ {c} : cur[d] # NULL /\ cur[d] = cur[x] => d = x
  /\ e # NULL => es[e].status \notin {"DYING", "RUNNABLE"}

\* FreeListIsExact and WaitersAreBlocked, of a table, a free list and a set of readers;
\* a freed slot reads no message.
FreeExact(es, fl) ==
  /\ \A s \in Slots : es[s].status = "FREE" <=> \E i \in 1 .. Len(fl) : fl[i] = s
  /\ \A i, j \in 1 .. Len(fl) : fl[i] = fl[j] => i = j

Blocked(es, rd) ==
  \A s \in Slots :
    /\ s \in rd => es[s].status # "FREE"
    /\ es[s].status # "FREE" /\ es[s].recving => es[s].status = "NOT_RUNNABLE" /\ s \in rd
    /\ s \in rd /\ es[s].status = "NOT_RUNNABLE" => es[s].recving

\* The slots used at boot have had an environment.
BootGens(es) == \A s \in 0 .. Boot - 1 : es[s].gen >= 1

KernelInv ==
  /\ TypeOK
  /\ ~ in_monitor => Agree(envs, cur)
  /\ FreeExact(envs, free_list)
  /\ Blocked(envs, reading)
  /\ BootGens(envs)

-----------------------------------------------------------------------------
(* Leaving the kernel.                                                     *)

\* A set of numbers that is not empty has a least element.
LEMMA LeastIsChosen ==
  ASSUME NEW nums, nums \subseteq Nat, nums # {}
  PROVE  (CHOOSE i \in nums : \A j \in nums : i <= j) \in nums
<1>1. PICK x \in nums : \A y \in nums : ~ (<<y, x>> \in OpToRel(<, Nat))
  BY NatLessThanWellFounded, WFMin, Zenon
<1>2. \A y \in nums : ~ (y < x)
  BY <1>1, Zenon DEF OpToRel
<1>3. \A y \in nums : x <= y
  BY <1>2
<1> QED
  BY <1>3

LEMMA SlotRange == ASSUME NEW i \in Nat PROVE i % NENV \in Slots
BY JosKernelAssumption DEF Slots

\* What the scheduler may choose: a runnable environment, the one that ran, or nothing.
LEMMA Chooses ==
  ASSUME NEW c \in CPUs, NEW es \in [Slots -> Env], NEW e \in Slots \cup {NULL},
         sched_yield(c, es, e)
  PROVE  \/ \E s \in Slots : es[s].status = "RUNNABLE" /\ env_run(c, es, e, s)
         \/ e # NULL /\ es[e].status = "RUNNING" /\ env_run(c, es, e, e)
         \/ sched_halt(c, es, e) /\ (e = NULL \/ es[e].status # "RUNNING")
<1> DEFINE start == IF e = NULL THEN 0 ELSE (e + 1) % NENV
           slot(i) == (start + i) % NENV
           runnable == {i \in Slots : es[slot(i)].status = "RUNNABLE"}
           first == CHOOSE i \in runnable : \A j \in runnable : i <= j
<1>1. start \in Nat
  BY JosKernelAssumption, SlotRange DEF Slots, NULL
<1>2. CASE runnable = {}
  BY <1>2 DEF sched_yield
<1>3. CASE runnable # {}
  <2>1. first \in runnable
    <3> HIDE DEF slot
    <3>1. runnable \subseteq Nat
      BY DEF Slots
    <3> HIDE DEF runnable
    <3> QED
      BY <1>3, <3>1, LeastIsChosen
  <2>2. slot(first) \in Slots
    <3> HIDE DEF first, start, slot
    <3>1. first \in Nat
      BY <2>1 DEF Slots
    <3> USE DEF slot
    <3> QED
      BY <1>1, <3>1, SlotRange, start + first \in Nat
  <2>3. env_run(c, es, e, slot(first))
    BY <1>3 DEF sched_yield
  <2>4. es[slot(first)].status = "RUNNABLE"
    BY <2>1
  <2> QED
    BY <2>2, <2>3, <2>4
<1> QED
  BY <1>2, <1>3

\* Of one environment, what changes when it is given the CPU or loses it.
SameButRunning(a, b) ==
  /\ a.gen = b.gen /\ a.parent = b.parent
  /\ a.recving = b.recving /\ a.from = b.from /\ a.value = b.value
  /\ a.status = b.status \/ {a.status, b.status} \subseteq {"RUNNABLE", "RUNNING"}

\* On its way out the kernel changes no more than which environments are running.
LEMMA LeaveTypes ==
  ASSUME NEW c \in CPUs, NEW es \in [Slots -> Env], NEW e \in Slots \cup {NULL},
         cur \in [CPUs -> Slots \cup {NULL}], in_monitor \in BOOLEAN,
         sched_yield(c, es, e) \/ (e \in Slots /\ resume(c, es, e))
  PROVE  /\ envs' \in [Slots -> Env]
         /\ cur' \in [CPUs -> Slots \cup {NULL}]
         /\ in_monitor' \in BOOLEAN
         /\ \A i \in Slots : SameButRunning(es[i], envs'[i])
<1>1. ASSUME NEW s \in Slots, env_run(c, es, e, s),
             es[s].status \in {"RUNNABLE", "RUNNING"}
      PROVE  /\ envs' \in [Slots -> Env]
             /\ cur' \in [CPUs -> Slots \cup {NULL}]
             /\ in_monitor' \in BOOLEAN
             /\ \A i \in Slots : SameButRunning(es[i], envs'[i])
  BY <1>1 DEF env_run, Env, SameButRunning
<1>2. CASE sched_halt(c, es, e)
  BY <1>2 DEF sched_halt, Env, SameButRunning
<1> QED
  BY <1>1, <1>2, Chooses DEF resume

LEMMA LeaveAgree ==
  ASSUME NEW c \in CPUs, NEW es \in [Slots -> Env], NEW e \in Slots \cup {NULL},
         cur \in [CPUs -> Slots \cup {NULL}],
         sched_yield(c, es, e) \/ (e \in Slots /\ resume(c, es, e)),
         Leaving(c, es, e), ~ in_monitor'
  PROVE  Agree(envs', cur')
<1>1. ASSUME NEW s \in Slots, env_run(c, es, e, s), es[s].status = "RUNNABLE"
      PROVE  Agree(envs', cur')
  <2>1. /\ s # e /\ cur' = [cur EXCEPT ![c] = s]
        /\ envs'[s].status = "RUNNING"
        /\ \A i \in Slots : i # s => \/ envs'[i].status = es[i].status /\ i # e
                                     \/ i = e /\ envs'[i].status \notin Busy
    <3>1. s # e
      BY <1>1 DEF Leaving, NULL, Slots
    <3>2. \A i \in Slots : envs'[i] =
            IF i = s THEN [es[i] EXCEPT !.status = "RUNNING"]
            ELSE IF i = e /\ es[i].status = "RUNNING"
                 THEN [es[i] EXCEPT !.status = "RUNNABLE"] ELSE es[i]
      BY <1>1, <3>1 DEF env_run
    <3>3. \A i \in Slots : es[i] \in Env
      OBVIOUS
    <3>4. e # NULL => es[e].status \notin {"DYING", "RUNNABLE"}
      BY DEF Leaving
    <3>5. envs'[s].status = "RUNNING"
      BY <3>2, <3>3 DEF Env
    <3>6. ASSUME NEW i \in Slots, i # s
          PROVE  \/ envs'[i].status = es[i].status /\ i # e
                 \/ i = e /\ envs'[i].status \notin Busy
      <4>1. CASE i # e
        BY <3>2, <3>6, <4>1
      <4>2. CASE i = e /\ es[e].status = "RUNNING"
        <5>1. envs'[i] = [es[i] EXCEPT !.status = "RUNNABLE"]
          BY <3>2, <3>6, <4>2
        <5> QED
          BY <3>3, <4>2, <5>1 DEF Env, Busy
      <4>3. CASE i = e /\ es[e].status # "RUNNING"
        <5>1. envs'[i] = es[i]
          BY <3>2, <3>6, <4>3
        <5>2. e # NULL
          BY <4>3 DEF NULL, Slots
        <5> QED
          BY <3>4, <4>3, <5>1, <5>2 DEF Busy
      <4> QED
        BY <4>1, <4>2, <4>3
    <3>7. cur' = [cur EXCEPT ![c] = s]
      BY <1>1 DEF env_run
    <3> QED
      BY <3>1, <3>5, <3>6, <3>7
  <2>2. \A d \in CPUs \ {c} : cur[d] # s
    BY <1>1, <2>1 DEF Leaving, Busy, NULL, Slots
  <2> QED
    BY <2>1, <2>2 DEF Leaving, Agree, Busy, NULL, Slots
<1>2. ASSUME e \in Slots, env_run(c, es, e, e), es[e].status = "RUNNING"
      PROVE  Agree(envs', cur')
  BY <1>2 DEF env_run, Env, Leaving, Agree, Busy
<1>3. ASSUME sched_halt(c, es, e), e = NULL \/ es[e].status # "RUNNING"
      PROVE  Agree(envs', cur')
  BY <1>3 DEF sched_halt, Env, Leaving, Agree, Busy
<1> QED
  BY <1>1, <1>2, <1>3, Chooses DEF resume

\* What a trap does before it leaves must be right; the way out keeps it so.
LEMMA LeaveInv ==
  ASSUME KernelInv,
         NEW c \in CPUs, NEW es \in [Slots -> Env], NEW e \in Slots \cup {NULL},
         sched_yield(c, es, e) \/ (e \in Slots /\ resume(c, es, e)),
         Leaving(c, es, e), free_list' \in Seq(Slots), reading' \subseteq Slots,
         FreeExact(es, free_list'), Blocked(es, reading'), BootGens(es)
  PROVE  KernelInv'
<1>1. TypeOK' /\ \A i \in Slots : SameButRunning(es[i], envs'[i])
  BY LeaveTypes DEF KernelInv, TypeOK
<1>2. \A i \in Slots :
        /\ envs'[i].gen = es[i].gen /\ envs'[i].recving = es[i].recving
        /\ envs'[i].status = "FREE" <=> es[i].status = "FREE"
        /\ envs'[i].status = "NOT_RUNNABLE" <=> es[i].status = "NOT_RUNNABLE"
  BY <1>1 DEF SameButRunning
<1>3. ~ in_monitor' => Agree(envs', cur')
  BY LeaveAgree DEF KernelInv, TypeOK
<1>4. FreeExact(envs', free_list')
  BY <1>2 DEF FreeExact
<1>5. Blocked(envs', reading')
  BY <1>2 DEF Blocked
<1>6. BootGens(envs')
  BY <1>2, JosKernelAssumption DEF BootGens, Slots
<1> QED
  BY <1>1, <1>3, <1>4, <1>5, <1>6 DEF KernelInv, Agree, FreeExact, Blocked, BootGens

-----------------------------------------------------------------------------
(* The free list and the bound on generations.                             *)

\* env_free puts a slot on the list that was not there.
LEMMA PushFree ==
  ASSUME NEW es \in [Slots -> Env], NEW fl \in Seq(Slots), FreeExact(es, fl),
         NEW s \in Slots, es[s].status # "FREE"
  PROVE  /\ <<s>> \o fl \in Seq(Slots)
         /\ FreeExact([es EXCEPT ![s].status = "FREE"], <<s>> \o fl)
<1> DEFINE new == <<s>> \o fl
           et == [es EXCEPT ![s].status = "FREE"]
<1>1. /\ new \in Seq(Slots) /\ Len(new) = Len(fl) + 1 /\ Len(fl) \in Nat
      /\ new[1] = s /\ \A i \in 1 .. Len(fl) : new[i + 1] = fl[i]
  OBVIOUS
<1>2. \A i \in 1 .. Len(new) : i = 1 \/ (i - 1 \in 1 .. Len(fl) /\ new[i] = fl[i - 1])
  BY <1>1
<1>3. \A i \in 1 .. Len(fl) : fl[i] # s
  BY DEF FreeExact
<1>4. \A t \in Slots : et[t].status = "FREE" <=> es[t].status = "FREE" \/ t = s
  BY DEF Env
<1> HIDE DEF new, et
<1>5. \A t \in Slots : et[t].status = "FREE" <=> \E i \in 1 .. Len(new) : new[i] = t
  <2> SUFFICES ASSUME NEW t \in Slots
               PROVE  et[t].status = "FREE" <=> \E i \in 1 .. Len(new) : new[i] = t
    OBVIOUS
  <2>1. ASSUME NEW i \in 1 .. Len(fl), fl[i] = t PROVE \E j \in 1 .. Len(new) : new[j] = t
    BY <1>1, <2>1, i + 1 \in 1 .. Len(new)
  <2>2. 1 \in 1 .. Len(new) /\ new[1] = s
    BY <1>1
  <2>3. ASSUME NEW j \in 1 .. Len(new), new[j] = t
        PROVE  t = s \/ \E i \in 1 .. Len(fl) : fl[i] = t
    <3>1. CASE j = 1
      BY <1>1, <2>3, <3>1
    <3>2. CASE j # 1
      BY <1>2, <2>3, <3>2
    <3> QED
      BY <3>1, <3>2
  <2>4. es[t].status = "FREE" <=> \E i \in 1 .. Len(fl) : fl[i] = t
    BY DEF FreeExact
  <2>5. (\E j \in 1 .. Len(new) : new[j] = t) <=> t = s \/ \E i \in 1 .. Len(fl) : fl[i] = t
    BY <2>1, <2>2, <2>3, Zenon
  <2> QED
    BY <1>4, <2>4, <2>5, Zenon
<1>6. \A i, j \in 1 .. Len(new) : new[i] = new[j] => i = j
  <2> SUFFICES ASSUME NEW i \in 1 .. Len(new), NEW j \in 1 .. Len(new), new[i] = new[j]
               PROVE  i = j
    OBVIOUS
  <2>1. CASE i = 1 \/ j = 1
    BY <1>1, <1>2, <1>3, <2>1
  <2>2. CASE i # 1 /\ j # 1
    <3>1. /\ i - 1 \in 1 .. Len(fl) /\ j - 1 \in 1 .. Len(fl)
          /\ fl[i - 1] = fl[j - 1]
      BY <1>2, <2>2
    <3>2. i - 1 = j - 1
      BY <3>1 DEF FreeExact
    <3> QED
      BY <1>1, <3>2
  <2> QED
    BY <2>1, <2>2
<1> QED
  BY <1>1, <1>5, <1>6 DEF FreeExact, new, et

\* env_alloc takes the head, and nobody else has it.
LEMMA PopFree ==
  ASSUME NEW es \in [Slots -> Env], NEW fl \in Seq(Slots), FreeExact(es, fl),
         fl # << >>, NEW et \in [Slots -> Env], et[Head(fl)].status # "FREE",
         \A s \in Slots \ {Head(fl)} : et[s] = es[s]
  PROVE  /\ Head(fl) \in Slots /\ es[Head(fl)].status = "FREE"
         /\ Tail(fl) \in Seq(Slots) /\ FreeExact(et, Tail(fl))
<1>1. /\ Len(fl) \in Nat /\ Len(fl) >= 1 /\ Head(fl) = fl[1] /\ fl[1] \in Slots
      /\ Tail(fl) \in Seq(Slots) /\ Len(Tail(fl)) = Len(fl) - 1
      /\ \A i \in 1 .. Len(fl) - 1 : Tail(fl)[i] = fl[i + 1]
  OBVIOUS
<1>2. es[fl[1]].status = "FREE" /\ \A i \in 2 .. Len(fl) : fl[i] # fl[1]
  BY <1>1 DEF FreeExact
<1>3. ASSUME NEW t \in Slots
      PROVE  et[t].status = "FREE" <=> \E i \in 1 .. Len(Tail(fl)) : Tail(fl)[i] = t
  <2>1. CASE t = fl[1]
    BY <1>1, <1>2, <2>1
  <2>2. CASE t # fl[1]
    <3>1. et[t].status = "FREE" <=> \E i \in 1 .. Len(fl) : fl[i] = t
      BY <1>1, <2>2 DEF FreeExact
    <3>2. ASSUME NEW i \in 1 .. Len(fl), fl[i] = t
          PROVE  \E j \in 1 .. Len(Tail(fl)) : Tail(fl)[j] = t
      BY <1>1, <2>2, <3>2, i - 1 \in 1 .. Len(Tail(fl))
    <3>3. ASSUME NEW j \in 1 .. Len(Tail(fl)), Tail(fl)[j] = t
          PROVE  \E i \in 1 .. Len(fl) : fl[i] = t
      BY <1>1, <3>3, j + 1 \in 1 .. Len(fl)
    <3> QED
      BY <3>1, <3>2, <3>3
  <2> QED
    BY <2>1, <2>2
<1>4. \A i, j \in 1 .. Len(Tail(fl)) : Tail(fl)[i] = Tail(fl)[j] => i = j
  BY <1>1 DEF FreeExact
<1> QED
  BY <1>1, <1>2, <1>3, <1>4 DEF FreeExact

\* The bound on environments forked bounds the generation of every slot: were slot s at
\* MaxForks + 1, its environments and those of boot would be Boot + MaxForks.
LEMMA GenBound ==
  ASSUME TypeOK, BootGens(envs), Cardinality(issued) < Boot + MaxForks, NEW s \in Slots
  PROVE  envs[s].gen <= MaxForks
<1> DEFINE n == Boot + MaxForks
           other(j) == IF j < s THEN j ELSE j + 1
           f == [k \in 1 .. n |-> IF k <= MaxForks + 1 THEN [gen |-> k, slot |-> s]
                                  ELSE [gen |-> 1, slot |-> other(k - MaxForks - 2)]]
           g == [id \in issued |-> <<id.gen, id.slot>>]
<1>1. IsFiniteSet(issued)
  <2>1. g \in Injection(issued, (0 .. MaxForks + 1) \X Slots)
    <3>1. g \in [issued -> (0 .. MaxForks + 1) \X Slots]
      BY DEF issued, Ids
    <3>2. \A x, y \in issued : g[x] = g[y] => x = y
      BY DEF issued, Ids
    <3> QED
      BY <3>1, <3>2 DEF Injection, IsInjective
  <2>2. IsFiniteSet((0 .. MaxForks + 1) \X Slots)
    <3>1. IsFiniteSet(0 .. MaxForks + 1) /\ IsFiniteSet(Slots)
      BY FS_Interval, JosKernelAssumption DEF Slots
    <3> QED
      BY <3>1, FS_Product
  <2> QED
    BY <2>1, <2>2, FS_Injection
<1>2. SUFFICES ASSUME envs[s].gen > MaxForks PROVE FALSE
  BY JosKernelAssumption DEF TypeOK, Env
<1>3. \A j \in 0 .. Boot - 2 : other(j) \in Slots /\ other(j) # s /\ envs[other(j)].gen >= 1
  BY <1>2, JosKernelAssumption DEF Slots, BootGens
<1>4. f \in Injection(1 .. n, issued)
  <2>1. \A k \in 1 .. n :
          /\ k <= MaxForks + 1 => f[k] = [gen |-> k, slot |-> s]
          /\ k > MaxForks + 1 => /\ f[k] = [gen |-> 1, slot |-> other(k - MaxForks - 2)]
                                 /\ k - MaxForks - 2 \in 0 .. Boot - 2
    BY JosKernelAssumption
  <2>2. \A k \in 1 .. n : f[k] \in issued
    <3>1. ASSUME NEW k \in 1 .. n, k <= MaxForks + 1 PROVE f[k] \in issued
      BY <1>2, <2>1, <3>1, JosKernelAssumption DEF issued, Ids, TypeOK, Env
    <3>2. ASSUME NEW k \in 1 .. n, k > MaxForks + 1 PROVE f[k] \in issued
      <4> DEFINE j == k - MaxForks - 2
      <4>1. j \in 0 .. Boot - 2 /\ f[k] = [gen |-> 1, slot |-> other(j)]
        BY <2>1, <3>2
      <4>2. other(j) \in Slots /\ envs[other(j)].gen >= 1
        BY <1>3, <4>1
      <4> HIDE DEF other, j, f
      <4> QED
        BY <4>1, <4>2, JosKernelAssumption DEF issued, Ids
    <3> QED
      BY <3>1, <3>2, JosKernelAssumption
  <2>3. ASSUME NEW k \in 1 .. n, NEW l \in 1 .. n, f[k] = f[l] PROVE k = l
    <3>1. \A i \in 1 .. n :
            /\ i <= MaxForks + 1 => f[i].gen = i /\ f[i].slot = s
            /\ i > MaxForks + 1 => /\ f[i].slot = other(i - MaxForks - 2)
                                   /\ i - MaxForks - 2 \in 0 .. Boot - 2
      BY <2>1
    <3>2. f[k].gen = f[l].gen /\ f[k].slot = f[l].slot
      BY <2>3
    <3> HIDE DEF f
    <3>3. CASE k <= MaxForks + 1 /\ l <= MaxForks + 1
      BY <3>1, <3>2, <3>3
    <3>4. CASE k > MaxForks + 1 /\ l > MaxForks + 1
      BY <3>1, <3>2, <3>4, JosKernelAssumption DEF Slots
    <3>5. CASE k <= MaxForks + 1 /\ l > MaxForks + 1
      <4> HIDE DEF other
      <4> QED
        BY <1>3, <3>1, <3>2, <3>5
    <3>6. CASE k > MaxForks + 1 /\ l <= MaxForks + 1
      <4> HIDE DEF other
      <4> QED
        BY <1>3, <3>1, <3>2, <3>6
    <3> QED
      BY <3>3, <3>4, <3>5, <3>6, JosKernelAssumption
  <2>4. f = [k \in 1 .. n |-> f[k]]
    OBVIOUS
  <2> HIDE DEF f, n
  <2> QED
    BY <2>2, <2>3, <2>4 DEF Injection, IsInjective
<1>5. n <= Cardinality(issued)
  <2>1. Cardinality(1 .. n) = n
    BY FS_Interval, JosKernelAssumption
  <2> HIDE DEF f, n
  <2> QED
    BY <1>1, <1>4, <2>1, FS_Injection
<1> QED
  BY <1>1, <1>5, FS_CardinalityType, JosKernelAssumption

-----------------------------------------------------------------------------
(* The traps keep the invariant.                                           *)

LEMMA KernelInvInit == Init => KernelInv
<1> SUFFICES ASSUME Init PROVE KernelInv
  OBVIOUS
<1> USE JosKernelAssumption
<1>1. /\ envs \in [Slots -> Env] /\ cur \in [CPUs -> Slots \cup {NULL}]
      /\ \A s \in Slots : /\ envs[s].status = IF s < Boot THEN "RUNNABLE" ELSE "FREE"
                          /\ envs[s].gen = IF s < Boot THEN 1 ELSE 0
                          /\ envs[s].recving = FALSE
  BY DEF Init, Env, Ids, NoId, NULL, Slots
<1>2. /\ free_list \in Seq(Slots) /\ Len(free_list) = NENV - Boot
      /\ \A i \in 1 .. NENV - Boot : free_list[i] = Boot + i - 1
  BY DEF Init, Slots
<1>3. FreeExact(envs, free_list)
  <2>1. ASSUME NEW s \in Slots
        PROVE  envs[s].status = "FREE" <=> \E i \in 1 .. Len(free_list) : free_list[i] = s
    <3>1. CASE s < Boot
      BY <1>1, <1>2, <3>1
    <3>2. CASE s >= Boot
      <4>1. s - Boot + 1 \in 1 .. Len(free_list) /\ free_list[s - Boot + 1] = s
        BY <1>2, <3>2 DEF Slots
      <4> QED
        BY <1>1, <3>2, <4>1 DEF Slots
    <3> QED
      BY <3>1, <3>2 DEF Slots
  <2> QED
    BY <1>2, <2>1 DEF FreeExact
<1>4. Agree(envs, cur) /\ Blocked(envs, reading) /\ BootGens(envs)
  BY <1>1 DEF Init, Agree, Blocked, BootGens, Busy, Slots
<1> QED
  BY <1>1, <1>2, <1>3, <1>4 DEF KernelInv, TypeOK, Init

LEMMA BootGensKept ==
  ASSUME NEW es, NEW et, BootGens(es), \A s \in Slots : et[s].gen = es[s].gen
  PROVE  BootGens(et)
BY JosKernelAssumption DEF BootGens, Slots

LEMMA FreeExactKept ==
  ASSUME NEW es, NEW et, NEW fl, FreeExact(es, fl),
         \A s \in Slots : et[s].status = "FREE" <=> es[s].status = "FREE"
  PROVE  FreeExact(et, fl)
BY DEF FreeExact

\* A trap that moves no other CPU's environment in or out of "busy" may leave.
LEMMA LeavingFrom ==
  ASSUME KernelInv, ~ in_monitor, NEW c \in CPUs, NEW es \in [Slots -> Env],
         \A s \in Slots : s # cur[c] => (es[s].status \in Busy <=> envs[s].status \in Busy),
         NEW e, \/ e = cur[c] /\ (e # NULL => es[e].status \notin {"DYING", "RUNNABLE"})
                \/ e = NULL /\ (cur[c] # NULL => es[cur[c]].status \notin Busy)
  PROVE  Leaving(c, es, e)
<1>1. Agree(envs, cur) /\ cur \in [CPUs -> Slots \cup {NULL}]
  BY DEF KernelInv, TypeOK
<1>2. \A d \in CPUs \ {c} : cur[d] # NULL => cur[d] # cur[c] /\ cur[d] \in Slots
  BY <1>1 DEF Agree
<1>3. \A d \in CPUs \ {c} : cur[d] # NULL => es[cur[d]].status \in Busy /\ cur[d] # e
  BY <1>1, <1>2 DEF Agree
<1>4. \A s \in Slots : es[s].status \in Busy => s = e \/ \E d \in CPUs \ {c} : cur[d] = s
  <2> SUFFICES ASSUME NEW s \in Slots, es[s].status \in Busy, s # e
               PROVE  \E d \in CPUs \ {c} : cur[d] = s
    OBVIOUS
  <2>1. s # cur[c]
    BY DEF NULL, Slots
  <2> QED
    BY <1>1, <2>1 DEF Agree
<1>5. \A d, x \in CPUs \ {c} : cur[d] # NULL /\ cur[d] = cur[x] => d = x
  BY <1>1 DEF Agree
<1> QED
  BY <1>3, <1>4, <1>5 DEF Leaving

LEMMA YieldStep == ASSUME KernelInv, NEW c \in CPUs, Yield(c) PROVE KernelInv'
<1>1. /\ envs \in [Slots -> Env] /\ cur[c] \in Slots \cup {NULL} /\ ~ in_monitor
      /\ free_list \in Seq(Slots) /\ reading \subseteq Slots
      /\ FreeExact(envs, free_list) /\ Blocked(envs, reading) /\ BootGens(envs)
  BY DEF KernelInv, TypeOK, Yield
<1>2. Leaving(c, envs, cur[c])
  BY <1>1, LeavingFrom DEF Yield
<1> QED
  BY <1>1, <1>2, LeaveInv DEF Yield

\* Reaping a zombie and exiting free the environment that runs on the CPU.
LEMMA FreeOwnStep ==
  ASSUME KernelInv, NEW c \in CPUs, ~ in_monitor, cur[c] # NULL, envs[cur[c]].status \in Busy,
         env_free(cur[c]), sched_yield(c, freed(cur[c]), NULL)
  PROVE  KernelInv'
<1> DEFINE e == cur[c]
<1>1. /\ envs \in [Slots -> Env] /\ e \in Slots
      /\ free_list \in Seq(Slots) /\ reading \subseteq Slots
      /\ FreeExact(envs, free_list) /\ Blocked(envs, reading) /\ BootGens(envs)
  BY DEF KernelInv, TypeOK
<1>2. /\ freed(e) \in [Slots -> Env]
      /\ \A s \in Slots : /\ freed(e)[s].status = IF s = e THEN "FREE" ELSE envs[s].status
                          /\ freed(e)[s].gen = envs[s].gen
                          /\ freed(e)[s].recving = envs[s].recving
  BY <1>1 DEF freed, Env
<1> HIDE DEF e
<1>3. Leaving(c, freed(e), NULL)
  BY <1>1, <1>2, LeavingFrom DEF Busy, e
<1>4. free_list' \in Seq(Slots) /\ FreeExact(freed(e), free_list')
  BY <1>1, PushFree DEF env_free, freed, e, Busy
<1>5. reading' \subseteq Slots /\ Blocked(freed(e), reading')
  BY <1>1, <1>2 DEF env_free, Blocked, e
<1>6. BootGens(freed(e))
  BY <1>1, <1>2, JosKernelAssumption DEF BootGens, Slots
<1> QED
  BY <1>2, <1>3, <1>4, <1>5, <1>6, LeaveInv DEF e

LEMMA ReapStep == ASSUME KernelInv, NEW c \in CPUs, Reap(c) PROVE KernelInv'
BY FreeOwnStep DEF Reap, Busy

LEMMA ExitStep ==
  ASSUME KernelInv, NEW c \in CPUs, NEW e \in Slots, Exit(c, e) PROVE KernelInv'
BY FreeOwnStep DEF Exit, Runs, Busy

\* What holds of the caller and of the environment it names.
LEMMA Caller ==
  ASSUME KernelInv, NEW c \in CPUs, NEW e \in Slots, Runs(c, e)
  PROVE  /\ ~ in_monitor /\ cur[c] = e /\ e # NULL /\ envs[e].status = "RUNNING"
         /\ envs \in [Slots -> Env] /\ free_list \in Seq(Slots) /\ reading \subseteq Slots
         /\ FreeExact(envs, free_list) /\ Blocked(envs, reading) /\ BootGens(envs)
         /\ ~ envs[e].recving
BY DEF KernelInv, TypeOK, Runs, Blocked, NULL, Env

\* What sys_exofork has done when it leaves: one free slot holds a child to be built.
LEMMA ExoforkEffect ==
  ASSUME KernelInv, NEW c \in CPUs, NEW e \in Slots, Exofork(c, e)
  PROVE  \E s \in Slots, es \in [Slots -> Env] :
           /\ envs[s].status = "FREE" /\ envs[s].gen + 1 \in 1 .. MaxForks + 1
           /\ resume(c, es, e) /\ \A t \in Slots \ {s} : es[t] = envs[t]
           /\ es[s].status = "NOT_RUNNABLE" /\ ~ es[s].recving
           /\ es[s].gen = envs[s].gen + 1
           /\ s = Head(free_list) /\ free_list # << >> /\ free_list' = Tail(free_list)
<1> DEFINE s == Head(free_list)
           es == [envs EXCEPT ![s].status = "NOT_RUNNABLE", ![s].gen = @ + 1,
                              ![s].parent = env_id(envs, e), ![s].recving = FALSE]
<1>1. /\ Runs(c, e) /\ free_list # << >> /\ Cardinality(issued) < Boot + MaxForks
      /\ resume(c, es, e) /\ free_list' = Tail(free_list) /\ reading' = reading
  BY DEF Exofork
<1>2. /\ ~ in_monitor /\ cur[c] = e /\ e # NULL /\ envs[e].status = "RUNNING"
      /\ envs \in [Slots -> Env] /\ free_list \in Seq(Slots) /\ reading \subseteq Slots
      /\ FreeExact(envs, free_list) /\ Blocked(envs, reading) /\ BootGens(envs)
  BY <1>1, Caller
<1>3. s \in Slots /\ envs[s].status = "FREE"
  <2>1. Len(free_list) >= 1 /\ s = free_list[1] /\ s \in Slots
    BY <1>1, <1>2
  <2> QED
    BY <1>2, <2>1 DEF FreeExact
<1>4. envs[s].gen + 1 \in 1 .. MaxForks + 1
  BY <1>1, <1>2, <1>3, GenBound, JosKernelAssumption, SMTT(30) DEF KernelInv, Env
<1>5. env_id(envs, e) \in Ids
  BY <1>2, JosKernelAssumption DEF env_id, Ids, Env
<1>6. /\ es \in [Slots -> Env] /\ \A t \in Slots \ {s} : es[t] = envs[t]
      /\ es[s].status = "NOT_RUNNABLE" /\ ~ es[s].recving /\ es[s].gen = envs[s].gen + 1
  <2> DEFINE g == envs[s].gen + 1
             p == env_id(envs, e)
             child == [envs[s] EXCEPT !.status = "NOT_RUNNABLE", !.gen = g, !.parent = p,
                                      !.recving = FALSE]
  <2>1. es = [envs EXCEPT ![s] = child]
    BY <1>2, <1>3
  <2>2. /\ child \in Env /\ child.status = "NOT_RUNNABLE" /\ ~ child.recving
        /\ child.gen = g
    <3>1. envs[s] \in Env /\ g \in 0 .. MaxForks + 1 /\ p \in Ids
      BY <1>2, <1>3, <1>4, <1>5, JosKernelAssumption
    <3> DEFINE x == envs[s]
    <3>2. x \in Env
      BY <3>1
    <3>3. child = [x EXCEPT !.status = "NOT_RUNNABLE", !.gen = g, !.parent = p,
                            !.recving = FALSE]
      OBVIOUS
    <3> HIDE DEF g, p, s, x, child
    <3>4. x = [status |-> x.status, gen |-> x.gen, parent |-> x.parent, recving |-> x.recving,
               from |-> x.from, value |-> x.value]
      BY <3>2 DEF Env
    <3>5. child = [status |-> "NOT_RUNNABLE", gen |-> g, parent |-> p, recving |-> FALSE,
                   from |-> x.from, value |-> x.value]
      BY <3>2, <3>3 DEF Env
    <3>6. child \in Env
      BY <3>1, <3>2, <3>5 DEF Env
    <3> QED
      BY <3>5, <3>6
  <2> HIDE DEF child, es
  <2> QED
    BY <1>2, <1>3, <2>1, <2>2
<1> HIDE DEF es, s
<1> QED
  BY <1>1, <1>3, <1>4, <1>6 DEF s

LEMMA ExoforkStep ==
  ASSUME KernelInv, NEW c \in CPUs, NEW e \in Slots, Exofork(c, e) PROVE KernelInv'
<1>1. /\ ~ in_monitor /\ cur[c] = e /\ e # NULL /\ envs[e].status = "RUNNING"
      /\ envs \in [Slots -> Env] /\ free_list \in Seq(Slots) /\ reading \subseteq Slots
      /\ FreeExact(envs, free_list) /\ Blocked(envs, reading) /\ BootGens(envs)
      /\ reading' = reading
  BY Caller DEF Exofork
<1>2. PICK s \in Slots, es \in [Slots -> Env] :
        /\ envs[s].status = "FREE" /\ envs[s].gen + 1 \in 1 .. MaxForks + 1
        /\ resume(c, es, e) /\ \A t \in Slots \ {s} : es[t] = envs[t]
        /\ es[s].status = "NOT_RUNNABLE" /\ ~ es[s].recving /\ es[s].gen = envs[s].gen + 1
        /\ s = Head(free_list) /\ free_list # << >> /\ free_list' = Tail(free_list)
  BY ExoforkEffect
<1>3. free_list' \in Seq(Slots) /\ FreeExact(es, free_list')
  BY <1>1, <1>2, PopFree
<1>4. Leaving(c, es, e)
  BY <1>1, <1>2, LeavingFrom DEF Busy
<1>5. Blocked(es, reading')
  BY <1>1, <1>2 DEF Blocked
<1>6. BootGens(es)
  <2> SUFFICES ASSUME NEW t \in 0 .. Boot - 1 PROVE es[t].gen >= 1
    BY DEF BootGens
  <2>1. t \in Slots /\ envs[t].gen >= 1
    BY <1>1, JosKernelAssumption DEF BootGens, Slots
  <2>2. CASE t = s
    BY <1>2, <2>2
  <2>3. CASE t # s
    BY <1>2, <2>1, <2>3
  <2> QED
    BY <2>2, <2>3
<1> QED
  BY <1>1, <1>2, <1>3, <1>4, <1>5, <1>6, LeaveInv

LEMMA SetRunnableStep ==
  ASSUME KernelInv, NEW c \in CPUs, NEW e \in Slots, NEW id \in Ids, SetRunnable(c, e, id)
  PROVE  KernelInv'
<1> DEFINE s == id.slot
           es == [envs EXCEPT ![s].status = "RUNNABLE"]
<1>1. /\ Runs(c, e) /\ Embryo(s) /\ s \in Slots /\ resume(c, es, e)
      /\ free_list' = free_list /\ reading' = reading
  BY DEF SetRunnable, Ids
<1>2. /\ ~ in_monitor /\ cur[c] = e /\ e # NULL /\ envs[e].status = "RUNNING"
      /\ envs \in [Slots -> Env] /\ free_list \in Seq(Slots) /\ reading \subseteq Slots
      /\ FreeExact(envs, free_list) /\ Blocked(envs, reading) /\ BootGens(envs)
  BY <1>1, Caller
<1>3. /\ es \in [Slots -> Env]
      /\ \A t \in Slots : /\ es[t].status = IF t = s THEN "RUNNABLE" ELSE envs[t].status
                          /\ es[t].gen = envs[t].gen /\ es[t].recving = envs[t].recving
  BY <1>1, <1>2, ZenonT(40) DEF Env
<1> HIDE DEF es
<1>4. Leaving(c, es, e)
  BY <1>1, <1>2, <1>3, LeavingFrom DEF Busy, Embryo
<1>5. FreeExact(es, free_list')
  BY <1>1, <1>2, <1>3, FreeExactKept DEF Embryo
<1>6. Blocked(es, reading')
  BY <1>1, <1>2, <1>3 DEF Blocked, Embryo
<1>7. BootGens(es)
  BY <1>2, <1>3, BootGensKept
<1> QED
  BY <1>1, <1>2, <1>3, <1>4, <1>5, <1>6, <1>7, LeaveInv

LEMMA DestroyStep ==
  ASSUME KernelInv, NEW c \in CPUs, NEW e \in Slots, NEW id \in Ids, Destroy(c, e, id)
  PROVE  KernelInv'
<1> DEFINE s == id.slot
           dying == [envs EXCEPT ![s].status = "DYING"]
<1>1. /\ Runs(c, e) /\ s \in Slots /\ s # e
      /\ envs[s].status \notin {"FREE", "DYING"}
  BY DEF Destroy, Ids, envid2env
<1>2. /\ ~ in_monitor /\ cur[c] = e /\ e # NULL /\ envs[e].status = "RUNNING"
      /\ envs \in [Slots -> Env] /\ free_list \in Seq(Slots) /\ reading \subseteq Slots
      /\ FreeExact(envs, free_list) /\ Blocked(envs, reading) /\ BootGens(envs)
  BY <1>1, Caller
<1>3. CASE envs[s].status = "RUNNING"
  <2>1. /\ resume(c, dying, e) /\ free_list' = free_list /\ reading' = reading
    BY <1>3 DEF Destroy
  <2>2. /\ dying \in [Slots -> Env]
        /\ \A t \in Slots : /\ dying[t].status = IF t = s THEN "DYING" ELSE envs[t].status
                            /\ dying[t].gen = envs[t].gen
                            /\ dying[t].recving = envs[t].recving
    BY <1>1, <1>2 DEF Env
  <2> HIDE DEF dying
  <2>3. Leaving(c, dying, e)
    BY <1>1, <1>2, <1>3, <2>2, LeavingFrom DEF Busy
  <2>4. FreeExact(dying, free_list') /\ Blocked(dying, reading')
    BY <1>1, <1>2, <1>3, <2>1, <2>2 DEF FreeExact, Blocked
  <2>5. BootGens(dying)
    BY <1>2, <2>2, BootGensKept
  <2> QED
    BY <1>1, <1>2, <2>1, <2>2, <2>3, <2>4, <2>5, LeaveInv
<1>4. CASE envs[s].status # "RUNNING"
  <2>1. resume(c, freed(s), e) /\ env_free(s)
    BY <1>4 DEF Destroy
  <2>2. /\ freed(s) \in [Slots -> Env]
        /\ \A t \in Slots : /\ freed(s)[t].status = IF t = s THEN "FREE" ELSE envs[t].status
                            /\ freed(s)[t].gen = envs[t].gen
                            /\ freed(s)[t].recving = envs[t].recving
    BY <1>1, <1>2 DEF Env, freed
  <2>3. Leaving(c, freed(s), e)
    BY <1>1, <1>2, <1>4, <2>2, LeavingFrom DEF Busy
  <2>4. free_list' \in Seq(Slots) /\ FreeExact(freed(s), free_list')
    BY <1>1, <1>2, <2>1, PushFree DEF env_free, freed
  <2>5. reading' \subseteq Slots /\ Blocked(freed(s), reading')
    BY <1>2, <2>1, <2>2 DEF env_free, Blocked
  <2>6. BootGens(freed(s))
    BY <1>2, <2>2, BootGensKept
  <2> QED
    BY <1>1, <1>2, <2>1, <2>2, <2>3, <2>4, <2>5, <2>6, LeaveInv
<1> QED
  BY <1>3, <1>4

LEMMA RecvStep ==
  ASSUME KernelInv, NEW c \in CPUs, NEW e \in Slots, Recv(c, e) PROVE KernelInv'
<1> DEFINE es == [envs EXCEPT ![e] = [@ EXCEPT !.recving = TRUE, !.status = "NOT_RUNNABLE"]]
<1>1. /\ Runs(c, e) /\ reading' = reading \cup {e} /\ sched_yield(c, es, e)
      /\ free_list' = free_list
  BY DEF Recv
<1>2. /\ ~ in_monitor /\ cur[c] = e /\ e # NULL /\ envs[e].status = "RUNNING"
      /\ envs \in [Slots -> Env] /\ free_list \in Seq(Slots) /\ reading \subseteq Slots
      /\ FreeExact(envs, free_list) /\ Blocked(envs, reading) /\ BootGens(envs)
  BY <1>1, Caller
<1>3. /\ es \in [Slots -> Env]
      /\ \A t \in Slots :
           /\ es[t].status = IF t = e THEN "NOT_RUNNABLE" ELSE envs[t].status
           /\ es[t].gen = envs[t].gen
           /\ es[t].recving = IF t = e THEN TRUE ELSE envs[t].recving
  BY <1>1, <1>2 DEF Env
<1> HIDE DEF es
<1>4. Leaving(c, es, e)
  BY <1>2, <1>3, LeavingFrom DEF Busy
<1>5. FreeExact(es, free_list')
  <2>1. \A t \in Slots : es[t].status = "FREE" <=> envs[t].status = "FREE"
    BY <1>1, <1>2, <1>3
  <2> QED
    BY <1>1, <1>2, <2>1, FreeExactKept
<1>6. Blocked(es, reading') /\ reading' \subseteq Slots
  BY <1>1, <1>2, <1>3 DEF Blocked
<1>7. BootGens(es)
  BY <1>2, <1>3, BootGensKept
<1> QED
  BY <1>1, <1>2, <1>3, <1>4, <1>5, <1>6, <1>7, LeaveInv

LEMMA TrySendStep ==
  ASSUME KernelInv, NEW c \in CPUs, NEW e \in Slots, NEW id \in Ids, TrySend(c, e, id)
  PROVE  KernelInv'
<1> DEFINE s == id.slot
           es == [envs EXCEPT ![s] = [@ EXCEPT !.recving = FALSE,
                    !.from = env_id(envs, e), !.value = id, !.status = "RUNNABLE"]]
<1>1. /\ Runs(c, e) /\ s \in Slots /\ envs[s].status # "FREE" /\ envs[s].recving
      /\ resume(c, es, e) /\ free_list' = free_list /\ reading' = reading
  BY DEF TrySend, Ids, envid2env
<1>2. /\ ~ in_monitor /\ cur[c] = e /\ e # NULL /\ envs[e].status = "RUNNING"
      /\ envs \in [Slots -> Env] /\ free_list \in Seq(Slots) /\ reading \subseteq Slots
      /\ FreeExact(envs, free_list) /\ Blocked(envs, reading) /\ BootGens(envs)
      /\ envs[s].status = "NOT_RUNNABLE"
  BY <1>1, Caller DEF Blocked
<1>3. /\ es \in [Slots -> Env]
      /\ \A t \in Slots : /\ es[t].status = IF t = s THEN "RUNNABLE" ELSE envs[t].status
                          /\ es[t].gen = envs[t].gen
                          /\ es[t].recving = IF t = s THEN FALSE ELSE envs[t].recving
  <2>1. env_id(envs, e) \in Ids
    BY <1>2, JosKernelAssumption DEF env_id, Ids, Env
  <2> QED
    BY <1>1, <1>2, <2>1, ZenonT(40) DEF Env
<1> HIDE DEF es
<1>4. Leaving(c, es, e)
  BY <1>1, <1>2, <1>3, LeavingFrom DEF Busy
<1>5. FreeExact(es, free_list')
  <2>1. \A t \in Slots : es[t].status = "FREE" <=> envs[t].status = "FREE"
    BY <1>1, <1>2, <1>3
  <2> QED
    BY <1>1, <1>2, <2>1, FreeExactKept
<1>6. Blocked(es, reading')
  BY <1>1, <1>2, <1>3, ZenonT(40) DEF Blocked
<1>7. BootGens(es)
  BY <1>2, <1>3, BootGensKept
<1> QED
  BY <1>1, <1>2, <1>3, <1>4, <1>5, <1>6, <1>7, LeaveInv

LEMMA ReadMessageStep ==
  ASSUME KernelInv, NEW c \in CPUs, NEW e \in Slots, ReadMessage(c, e) PROVE KernelInv'
<1>1. envs[e].status = "RUNNING" /\ reading' = reading \ {e}
      /\ UNCHANGED <<envs, free_list, cur, in_monitor>>
  BY DEF ReadMessage, Runs
<1>2. Blocked(envs, reading')
  BY <1>1 DEF KernelInv, Blocked
<1> QED
  BY <1>1, <1>2 DEF KernelInv, TypeOK, Agree, FreeExact, Blocked, BootGens

LEMMA KernelInvStep == KernelInv /\ [Next]_vars => KernelInv'
<1> SUFFICES ASSUME KernelInv, [Next]_vars PROVE KernelInv'
  OBVIOUS
<1>1. CASE UNCHANGED vars
  BY <1>1 DEF vars, KernelInv, TypeOK, Agree, FreeExact, Blocked, BootGens
<1> QED
  BY <1>1, YieldStep, ReapStep, ExoforkStep, ExitStep, RecvStep, ReadMessageStep,
     SetRunnableStep, DestroyStep, TrySendStep DEF Next

LEMMA KernelInvariant == Spec => []KernelInv
<1> QED
  BY KernelInvInit, KernelInvStep, PTL DEF Spec

-----------------------------------------------------------------------------
(* What follows from the invariant.                                        *)

\* The table of environments, the free list and the CPUs keep their types.
THEOREM TypeCorrect == Spec => []TypeOK
<1>1. KernelInv => TypeOK
  BY DEF KernelInv
<1> QED
  BY <1>1, KernelInvariant, PTL

\* However traps interleave, every environment that the table calls running is run by one
\* CPU, no other is run by any, and the free list is the list of the free slots.
THEOREM SlotAccounting == Spec => []SlotsAreAccountedFor
<1>1. ASSUME KernelInv PROVE RunsOnOneCpu
  <2> SUFFICES ASSUME ~ in_monitor, NEW s \in Slots
               PROVE  Cardinality({c \in CPUs : cur[c] = s}) =
                        IF envs[s].status \in {"RUNNING", "DYING"} THEN 1 ELSE 0
    BY DEF RunsOnOneCpu
  <2>1. Agree(envs, cur) /\ s # NULL
    BY <1>1 DEF KernelInv, NULL, Slots
  <2>2. CASE envs[s].status \in Busy
    <3>1. PICK c \in CPUs : cur[c] = s
      BY <2>1, <2>2 DEF Agree
    <3>2. {d \in CPUs : cur[d] = s} = {c}
      BY <2>1, <3>1 DEF Agree
    <3> QED
      BY <2>2, <3>2, FS_Singleton DEF Busy
  <2>3. CASE envs[s].status \notin Busy
    <3>1. {d \in CPUs : cur[d] = s} = {}
      BY <2>1, <2>3 DEF Agree
    <3> QED
      BY <2>3, <3>1, FS_EmptySet DEF Busy
  <2> QED
    BY <2>2, <2>3
<1>2. ASSUME KernelInv PROVE FreeListIsExact
  <2>1. free_list \in Seq(Slots) /\ FreeExact(envs, free_list)
    BY <1>2 DEF KernelInv, TypeOK
  <2>2. \A i \in 1 .. Len(free_list) : free_list[i] \in Slots
    BY <2>1
  <2> QED
    BY <2>1, <2>2 DEF FreeListIsExact, FreeExact
<1>3. KernelInv => SlotsAreAccountedFor
  BY <1>1, <1>2 DEF SlotsAreAccountedFor
<1> QED
  BY <1>3, KernelInvariant, PTL

\* A sender never resumes an environment that runs, and no environment is blocked that
\* waits neither for a message nor for its parent.
THEOREM WaitersStayBlocked == Spec => []WaitersAreBlocked
<1>1. KernelInv => WaitersAreBlocked
  BY DEF KernelInv, Blocked, WaitersAreBlocked
<1> QED
  BY <1>1, KernelInvariant, PTL

-----------------------------------------------------------------------------
(* The kernel implements EnvService.                                       *)

\* What EnvService sees of a table and a set of readers.
UsedOf(es) == {id \in Ids : 1 <= id.gen /\ id.gen <= es[id.slot].gen}
LiveOf(es) == {s \in Slots : es[s].status # "FREE"}
AliveOf(es) == {env_id(es, s) : s \in LiveOf(es)}
WaitingOf(es) == {env_id(es, s) : s \in {t \in LiveOf(es) : es[t].recving}}
InboxOf(es, rd) ==
  {[to |-> env_id(es, s), from |-> es[s].from, value |-> es[s].value] :
     s \in {t \in LiveOf(es) : t \in rd /\ ~ es[t].recving}}

\* Two tables look the same to EnvService when they agree on what it sees of each slot.
LEMMA SameView ==
  ASSUME NEW es, NEW et, NEW rd,
         \A s \in Slots :
           /\ et[s].gen = es[s].gen /\ (et[s].status = "FREE" <=> es[s].status = "FREE")
           /\ et[s].recving = es[s].recving
           /\ et[s].from = es[s].from /\ et[s].value = es[s].value
  PROVE  /\ UsedOf(et) = UsedOf(es) /\ AliveOf(et) = AliveOf(es)
         /\ WaitingOf(et) = WaitingOf(es) /\ InboxOf(et, rd) = InboxOf(es, rd)
<1>1. UsedOf(et) = UsedOf(es)
  BY DEF UsedOf, Ids
<1>2. LiveOf(et) = LiveOf(es) /\ \A s \in Slots : env_id(et, s) = env_id(es, s)
  BY DEF LiveOf, env_id
<1>3. AliveOf(et) = AliveOf(es) /\ WaitingOf(et) = WaitingOf(es)
  BY <1>2 DEF AliveOf, WaitingOf, LiveOf
<1>4. InboxOf(et, rd) = InboxOf(es, rd)
  BY <1>2 DEF InboxOf, LiveOf
<1> QED
  BY <1>1, <1>3, <1>4

\* The way out of the kernel is a stutter of EnvService.
LEMMA LeaveView ==
  ASSUME KernelInv, NEW c \in CPUs, NEW es \in [Slots -> Env], NEW e \in Slots \cup {NULL},
         sched_yield(c, es, e) \/ (e \in Slots /\ resume(c, es, e)), NEW rd
  PROVE  /\ UsedOf(envs') = UsedOf(es) /\ AliveOf(envs') = AliveOf(es)
         /\ WaitingOf(envs') = WaitingOf(es) /\ InboxOf(envs', rd) = InboxOf(es, rd)
<1>1. \A s \in Slots : SameButRunning(es[s], envs'[s])
  BY LeaveTypes DEF KernelInv, TypeOK
<1>2. \A s \in Slots :
        /\ envs'[s].gen = es[s].gen
        /\ envs'[s].status = "FREE" <=> es[s].status = "FREE"
        /\ envs'[s].recving = es[s].recving
        /\ envs'[s].from = es[s].from /\ envs'[s].value = es[s].value
  BY <1>1 DEF SameButRunning
<1> QED
  BY <1>2, SameView

\* The variables of EnvService, in terms of the views.
LEMMA Mapping ==
  /\ issued = UsedOf(envs) /\ Live = LiveOf(envs)
  /\ {env_id(envs, s) : s \in Live} = AliveOf(envs)
  /\ {env_id(envs, s) : s \in {t \in Live : envs[t].recving}} = WaitingOf(envs)
  /\ {[to |-> env_id(envs, s), from |-> envs[s].from, value |-> envs[s].value] :
        s \in {t \in Live : t \in reading /\ ~ envs[t].recving}} = InboxOf(envs, reading)
BY DEF issued, UsedOf, Live, LiveOf, AliveOf, WaitingOf, InboxOf

\* The end of the environment in slot s.
LEMMA EndView ==
  ASSUME KernelInv, NEW s \in Slots, envs[s].status # "FREE"
  PROVE  LET id == env_id(envs, s)
         IN  /\ id \in AliveOf(envs)
             /\ UsedOf(freed(s)) = UsedOf(envs)
             /\ AliveOf(freed(s)) = AliveOf(envs) \ {id}
             /\ WaitingOf(freed(s)) = WaitingOf(envs) \ {id}
             /\ InboxOf(freed(s), reading \ {s}) =
                  {msg \in InboxOf(envs, reading) : msg.to # id}
<1> DEFINE et == freed(s)
           id == env_id(envs, s)
<1>1. \A t \in Slots : /\ et[t].gen = envs[t].gen /\ et[t].recving = envs[t].recving
                       /\ et[t].from = envs[t].from /\ et[t].value = envs[t].value
                       /\ et[t].status = IF t = s THEN "FREE" ELSE envs[t].status
  BY DEF KernelInv, TypeOK, Env, freed
<1> HIDE DEF et
<1>2. UsedOf(et) = UsedOf(envs)
  BY <1>1 DEF UsedOf, Ids
<1>3. LiveOf(et) = LiveOf(envs) \ {s} /\ s \in LiveOf(envs)
  BY <1>1 DEF LiveOf
<1>4. /\ \A t \in Slots : env_id(et, t) = env_id(envs, t)
      /\ \A t \in Slots : env_id(envs, t) = id => t = s
  BY <1>1 DEF env_id
<1> HIDE DEF id
<1>5. LiveOf(envs) \subseteq Slots
  BY DEF LiveOf
<1>6. id \in AliveOf(envs)
  BY <1>3 DEF AliveOf, id
<1>7. AliveOf(et) = AliveOf(envs) \ {id}
  BY <1>3, <1>4, <1>5 DEF AliveOf, id
<1>8. WaitingOf(et) = WaitingOf(envs) \ {id}
  BY <1>1, <1>3, <1>4, <1>5 DEF WaitingOf, id
<1>9. InboxOf(et, reading \ {s}) = {msg \in InboxOf(envs, reading) : msg.to # id}
  <2> DEFINE letter(t) == [to |-> env_id(envs, t), from |-> envs[t].from,
                           value |-> envs[t].value]
             old == {t \in LiveOf(envs) : t \in reading /\ ~ envs[t].recving}
             new == {t \in LiveOf(et) : t \in reading \ {s} /\ ~ et[t].recving}
  <2>1. new = old \ {s} /\ old \subseteq Slots
    BY <1>1, <1>3, <1>5
  <2>2. \A t \in Slots : letter(t).to = id <=> t = s
    BY <1>4 DEF id
  <2>3. InboxOf(envs, reading) = {letter(t) : t \in old}
    BY DEF InboxOf
  <2>4. InboxOf(et, reading \ {s}) = {letter(t) : t \in new}
    BY <1>1, <1>3, <1>4, <1>5 DEF InboxOf
  <2> HIDE DEF letter, old, new
  <2> QED
    BY <2>1, <2>2, <2>3, <2>4
<1> QED
  BY <1>2, <1>6, <1>7, <1>8, <1>9 DEF et, id

\* sys_exofork gives out an envid that is new.
LEMMA CreateView ==
  ASSUME KernelInv, NEW s \in Slots, envs[s].status = "FREE",
         envs[s].gen + 1 \in 1 .. MaxForks + 1,
         NEW et \in [Slots -> Env], \A t \in Slots \ {s} : et[t] = envs[t],
         et[s].status = "NOT_RUNNABLE", ~ et[s].recving, et[s].gen = envs[s].gen + 1
  PROVE  LET id == [gen |-> envs[s].gen + 1, slot |-> s]
         IN  /\ id \in Ids \ UsedOf(envs)
             /\ UsedOf(et) = UsedOf(envs) \cup {id}
             /\ AliveOf(et) = AliveOf(envs) \cup {id}
             /\ WaitingOf(et) = WaitingOf(envs)
             /\ InboxOf(et, reading) = InboxOf(envs, reading)
<1> DEFINE id == [gen |-> envs[s].gen + 1, slot |-> s]
<1>1. envs \in [Slots -> Env] /\ envs[s].gen \in Nat /\ s \notin reading
  BY JosKernelAssumption DEF KernelInv, TypeOK, Env, Blocked
<1>2. id \in Ids \ UsedOf(envs)
  BY <1>1 DEF Ids, UsedOf
<1>3. UsedOf(et) = UsedOf(envs) \cup {id}
  <2>1. \A i \in Ids : i.slot \in Slots /\ i.gen \in Nat /\ (i.slot = s /\ i.gen = id.gen => i = id)
    BY JosKernelAssumption DEF Ids
  <2>2. ASSUME NEW i \in Ids
        PROVE  i \in UsedOf(et) <=> i \in UsedOf(envs) \/ i = id
    BY <1>1, <2>1 DEF UsedOf
  <2> QED
    BY <1>2, <2>2 DEF UsedOf
<1>4. /\ \A t \in Slots \ {s} : env_id(et, t) = env_id(envs, t)
      /\ env_id(et, s) = id
  BY DEF env_id
<1>5. /\ LiveOf(et) = LiveOf(envs) \cup {s} /\ s \notin LiveOf(envs)
      /\ LiveOf(envs) \subseteq Slots
  BY DEF LiveOf
<1> HIDE DEF id
<1>6. AliveOf(et) = AliveOf(envs) \cup {id}
  BY <1>4, <1>5 DEF AliveOf
<1>7. WaitingOf(et) = WaitingOf(envs)
  <2>1. {t \in LiveOf(et) : et[t].recving} = {t \in LiveOf(envs) : envs[t].recving}
    BY <1>5
  <2> QED
    BY <1>4, <1>5, <2>1 DEF WaitingOf
<1>8. InboxOf(et, reading) = InboxOf(envs, reading)
  <2>1. {t \in LiveOf(et) : t \in reading /\ ~ et[t].recving} =
        {t \in LiveOf(envs) : t \in reading /\ ~ envs[t].recving}
    BY <1>1, <1>5
  <2> QED
    BY <1>1, <1>4, <1>5, <2>1 DEF InboxOf
<1> QED
  BY <1>2, <1>3, <1>6, <1>7, <1>8 DEF id

\* The caller of sys_ipc_recv waits, and has no message it has not read.
LEMMA WaitView ==
  ASSUME KernelInv, NEW e \in Slots, envs[e].status = "RUNNING", e \notin reading,
         NEW et \in [Slots -> Env],
         \A t \in Slots : /\ et[t].gen = envs[t].gen /\ et[t].from = envs[t].from
                          /\ et[t].value = envs[t].value
                          /\ et[t].status = IF t = e THEN "NOT_RUNNABLE" ELSE envs[t].status
                          /\ et[t].recving = IF t = e THEN TRUE ELSE envs[t].recving
  PROVE  LET id == env_id(envs, e)
         IN  /\ id \in AliveOf(envs) \ WaitingOf(envs)
             /\ \A msg \in InboxOf(envs, reading) : msg.to # id
             /\ UsedOf(et) = UsedOf(envs) /\ AliveOf(et) = AliveOf(envs)
             /\ WaitingOf(et) = WaitingOf(envs) \cup {id}
             /\ InboxOf(et, reading \cup {e}) = InboxOf(envs, reading)
<1> DEFINE id == env_id(envs, e)
<1>1. LiveOf(et) = LiveOf(envs) /\ e \in LiveOf(envs) /\ LiveOf(envs) \subseteq Slots
  BY DEF LiveOf
<1>2. /\ \A t \in Slots : env_id(et, t) = env_id(envs, t)
      /\ \A t \in Slots : env_id(envs, t) = id => t = e
  BY DEF env_id
<1>3. ~ envs[e].recving
  BY DEF KernelInv, Blocked
<1> HIDE DEF id
<1>4. id \in AliveOf(envs) \ WaitingOf(envs)
  BY <1>1, <1>2, <1>3 DEF AliveOf, WaitingOf, id
<1>5. \A msg \in InboxOf(envs, reading) : msg.to # id
  <2> SUFFICES ASSUME NEW t \in LiveOf(envs), t \in reading
               PROVE  env_id(envs, t) # id
    BY DEF InboxOf
  <2> QED
    BY <1>1, <1>2
<1>6. UsedOf(et) = UsedOf(envs)
  BY DEF UsedOf, Ids
<1>7. AliveOf(et) = AliveOf(envs)
  BY <1>1, <1>2 DEF AliveOf
<1>8. WaitingOf(et) = WaitingOf(envs) \cup {id}
  <2> DEFINE old == {t \in LiveOf(envs) : envs[t].recving}
             new == {t \in LiveOf(et) : et[t].recving}
  <2>1. new = old \cup {e} /\ old \subseteq Slots
    BY <1>1
  <2>2. WaitingOf(et) = {env_id(et, t) : t \in new}
    BY DEF WaitingOf
  <2>3. WaitingOf(envs) = {env_id(envs, t) : t \in old}
    BY DEF WaitingOf
  <2> HIDE DEF old, new
  <2> QED
    BY <1>2, <2>1, <2>2, <2>3 DEF id
<1>9. InboxOf(et, reading \cup {e}) = InboxOf(envs, reading)
  <2> DEFINE letter(es, t) == [to |-> env_id(es, t), from |-> es[t].from, value |-> es[t].value]
             old == {t \in LiveOf(envs) : t \in reading /\ ~ envs[t].recving}
             new == {t \in LiveOf(et) : t \in reading \cup {e} /\ ~ et[t].recving}
  <2>1. new = old /\ old \subseteq Slots
    BY <1>1
  <2>2. \A t \in Slots : et[t].from = envs[t].from /\ et[t].value = envs[t].value
    OBVIOUS
  <2>3. \A t \in old : letter(et, t) = letter(envs, t)
    BY <1>2, <2>1, <2>2
  <2>4. /\ InboxOf(envs, reading) = {letter(envs, t) : t \in old}
        /\ InboxOf(et, reading \cup {e}) = {letter(et, t) : t \in new}
    BY DEF InboxOf
  <2> HIDE DEF letter, old, new
  <2> QED
    BY <2>1, <2>3, <2>4
<1> QED
  BY <1>4, <1>5, <1>6, <1>7, <1>8, <1>9 DEF id

\* sys_ipc_try_send ends the wait of the environment id and leaves it a message.
LEMMA SendView ==
  ASSUME KernelInv, NEW e \in Slots, envs[e].status = "RUNNING", NEW s \in Slots,
         envs[s].status # "FREE", envs[s].recving,
         NEW et \in [Slots -> Env],
         \A t \in Slots \ {s} : et[t] = envs[t],
         et[s].gen = envs[s].gen, et[s].status = "RUNNABLE", ~ et[s].recving,
         et[s].from = env_id(envs, e), et[s].value = env_id(envs, s)
  PROVE  LET id == env_id(envs, s)
             me == env_id(envs, e)
         IN  /\ id \in WaitingOf(envs) /\ me \in AliveOf(envs)
             /\ UsedOf(et) = UsedOf(envs) /\ AliveOf(et) = AliveOf(envs)
             /\ WaitingOf(et) = WaitingOf(envs) \ {id}
             /\ InboxOf(et, reading) =
                  InboxOf(envs, reading) \cup {[to |-> id, from |-> me, value |-> id]}
<1> DEFINE id == env_id(envs, s)
           me == env_id(envs, e)
<1>1. LiveOf(et) = LiveOf(envs) /\ {s, e} \subseteq LiveOf(envs) /\ LiveOf(envs) \subseteq Slots
  BY DEF LiveOf
<1>2. /\ \A t \in Slots : env_id(et, t) = env_id(envs, t)
      /\ \A t \in Slots : env_id(envs, t) = id => t = s
  BY DEF env_id
<1>3. s \in reading
  BY DEF KernelInv, Blocked
<1> HIDE DEF id, me
<1>4. id \in WaitingOf(envs) /\ me \in AliveOf(envs)
  BY <1>1 DEF AliveOf, WaitingOf, id, me
<1>5. UsedOf(et) = UsedOf(envs)
  BY DEF UsedOf, Ids
<1>6. AliveOf(et) = AliveOf(envs)
  BY <1>1, <1>2 DEF AliveOf
<1>7. WaitingOf(et) = WaitingOf(envs) \ {id}
  BY <1>1, <1>2 DEF WaitingOf, id
<1>8. InboxOf(et, reading) = InboxOf(envs, reading) \cup {[to |-> id, from |-> me, value |-> id]}
  <2> DEFINE letter(es, t) == [to |-> env_id(es, t), from |-> es[t].from, value |-> es[t].value]
             old == {t \in LiveOf(envs) : t \in reading /\ ~ envs[t].recving}
             new == {t \in LiveOf(et) : t \in reading /\ ~ et[t].recving}
  <2>1. new = old \cup {s} /\ s \notin old /\ old \subseteq Slots
    BY <1>1, <1>3
  <2>2. \A t \in old : letter(et, t) = letter(envs, t)
    BY <1>2, <2>1
  <2>3. letter(et, s) = [to |-> id, from |-> me, value |-> id]
    BY <1>2 DEF id, me
  <2>4. /\ InboxOf(envs, reading) = {letter(envs, t) : t \in old}
        /\ InboxOf(et, reading) = {letter(et, t) : t \in new}
    BY DEF InboxOf
  <2> HIDE DEF letter, old, new
  <2> QED
    BY <2>1, <2>2, <2>3, <2>4
<1> QED
  BY <1>4, <1>5, <1>6, <1>7, <1>8 DEF id, me

\* ipc_recv, back in its program, reads the one message it was left.
LEMMA ReceiveView ==
  ASSUME KernelInv, NEW e \in reading, envs[e].status = "RUNNING"
  PROVE  \E msg \in InboxOf(envs, reading) :
           InboxOf(envs, reading \ {e}) = InboxOf(envs, reading) \ {msg}
<1> DEFINE letter(t) == [to |-> env_id(envs, t), from |-> envs[t].from, value |-> envs[t].value]
           old == {t \in LiveOf(envs) : t \in reading /\ ~ envs[t].recving}
           new == {t \in LiveOf(envs) : t \in reading \ {e} /\ ~ envs[t].recving}
<1>1. e \in old /\ new = old \ {e} /\ old \subseteq Slots
  BY DEF KernelInv, TypeOK, Blocked, LiveOf
<1>2. \A t \in old : letter(t) = letter(e) => t = e
  <2>1. \A t \in old : letter(t).to.slot = t
    BY DEF env_id
  <2> QED
    BY <1>1, <2>1
<1>3. /\ InboxOf(envs, reading) = {letter(t) : t \in old}
      /\ InboxOf(envs, reading \ {e}) = {letter(t) : t \in new}
  BY DEF InboxOf
<1> HIDE DEF letter, old, new
<1> QED
  BY <1>1, <1>2, <1>3

\* What a trap has done when it leaves is what EnvService sees it do.
LEMMA Mapped ==
  ASSUME KernelInv, NEW c \in CPUs, NEW es \in [Slots -> Env], NEW e \in Slots \cup {NULL},
         sched_yield(c, es, e) \/ (e \in Slots /\ resume(c, es, e))
  PROVE  /\ UsedOf(envs)' = UsedOf(es) /\ AliveOf(envs)' = AliveOf(es)
         /\ WaitingOf(envs)' = WaitingOf(es)
         /\ InboxOf(envs, reading)' = InboxOf(es, reading')
<1>1. /\ UsedOf(envs') = UsedOf(es) /\ AliveOf(envs') = AliveOf(es)
      /\ WaitingOf(envs') = WaitingOf(es)
      /\ InboxOf(envs', reading') = InboxOf(es, reading')
  BY LeaveView
<1> QED
  BY <1>1 DEF UsedOf, AliveOf, WaitingOf, InboxOf, LiveOf, env_id

\* Each step of EnvService, and its stutter, said with the views.
LEMMA Stutters ==
  ASSUME UsedOf(envs)' = UsedOf(envs), AliveOf(envs)' = AliveOf(envs),
         WaitingOf(envs)' = WaitingOf(envs), InboxOf(envs, reading)' = InboxOf(envs, reading)
  PROVE  UNCHANGED S!vars
BY DEF S!vars, issued, UsedOf, Live, LiveOf, AliveOf, WaitingOf, InboxOf

LEMMA Creates ==
  ASSUME NEW id \in Ids \ UsedOf(envs),
         UsedOf(envs)' = UsedOf(envs) \cup {id}, AliveOf(envs)' = AliveOf(envs) \cup {id},
         WaitingOf(envs)' = WaitingOf(envs), InboxOf(envs, reading)' = InboxOf(envs, reading)
  PROVE  S!Next
<1>1. S!Create(id)
  BY DEF S!Create, issued, UsedOf, Live, LiveOf, AliveOf, WaitingOf, InboxOf
<1>2. id \in Ids
  BY Mapping
<1> QED
  BY <1>1, <1>2, Zenon DEF S!Next

LEMMA Ends ==
  ASSUME NEW id \in AliveOf(envs),
         UsedOf(envs)' = UsedOf(envs), AliveOf(envs)' = AliveOf(envs) \ {id},
         WaitingOf(envs)' = WaitingOf(envs) \ {id},
         InboxOf(envs, reading)' = {msg \in InboxOf(envs, reading) : msg.to # id}
  PROVE  S!Next
<1>1. S!End(id)
  BY DEF S!End, issued, UsedOf, Live, LiveOf, AliveOf, WaitingOf, InboxOf
<1>2. id \in {env_id(envs, s) : s \in Live}
  BY Mapping
<1> QED
  BY <1>1, <1>2, Zenon DEF S!Next

LEMMA Waits ==
  ASSUME NEW id \in AliveOf(envs) \ WaitingOf(envs),
         \A msg \in InboxOf(envs, reading) : msg.to # id,
         UsedOf(envs)' = UsedOf(envs), AliveOf(envs)' = AliveOf(envs),
         WaitingOf(envs)' = WaitingOf(envs) \cup {id},
         InboxOf(envs, reading)' = InboxOf(envs, reading)
  PROVE  S!Next
<1>1. S!Wait(id)
  BY DEF S!Wait, issued, UsedOf, Live, LiveOf, AliveOf, WaitingOf, InboxOf
<1>2. id \in {env_id(envs, s) : s \in Live}
  BY Mapping
<1> QED
  BY <1>1, <1>2, Zenon DEF S!Next

LEMMA Sends ==
  ASSUME NEW id \in WaitingOf(envs), NEW me \in AliveOf(envs),
         UsedOf(envs)' = UsedOf(envs), AliveOf(envs)' = AliveOf(envs),
         WaitingOf(envs)' = WaitingOf(envs) \ {id},
         InboxOf(envs, reading)' =
           InboxOf(envs, reading) \cup {[to |-> id, from |-> me, value |-> id]}
  PROVE  S!Next
<1>1. S!Send(me, id)
  BY DEF S!Send, issued, UsedOf, Live, LiveOf, AliveOf, WaitingOf, InboxOf
<1>2. /\ me \in {env_id(envs, s) : s \in Live}
      /\ id \in {env_id(envs, s) : s \in {t \in Live : envs[t].recving}}
  BY Mapping
<1> QED
  BY <1>1, <1>2, Zenon DEF S!Next

LEMMA Receives ==
  ASSUME NEW msg \in InboxOf(envs, reading),
         UsedOf(envs)' = UsedOf(envs), AliveOf(envs)' = AliveOf(envs),
         WaitingOf(envs)' = WaitingOf(envs),
         InboxOf(envs, reading)' = InboxOf(envs, reading) \ {msg}
  PROVE  S!Next
<1>1. S!Receive(msg)
  BY DEF S!Receive, issued, UsedOf, Live, LiveOf, AliveOf, WaitingOf, InboxOf
<1>2. msg \in {[to |-> env_id(envs, s), from |-> envs[s].from, value |-> envs[s].value] :
                 s \in {t \in Live : t \in reading /\ ~ envs[t].recving}}
  BY Mapping
<1> QED
  BY <1>1, <1>2, Zenon DEF S!Next

LEMMA YieldMaps == ASSUME KernelInv, NEW c \in CPUs, Yield(c) PROVE UNCHANGED S!vars
<1>1. envs \in [Slots -> Env] /\ cur[c] \in Slots \cup {NULL} /\ sched_yield(c, envs, cur[c])
  BY DEF KernelInv, TypeOK, Yield
<1>2. reading' = reading
  BY DEF Yield
<1> QED
  BY <1>1, <1>2, Mapped, Stutters

LEMMA FreeOwnMaps ==
  ASSUME KernelInv, NEW c \in CPUs, NEW e \in Slots, envs[e].status # "FREE",
         env_free(e), sched_yield(c, freed(e), NULL)
  PROVE  S!Next
<1>1. freed(e) \in [Slots -> Env] /\ reading' = reading \ {e}
  BY DEF KernelInv, TypeOK, freed, Env, env_free
<1>2. /\ UsedOf(envs)' = UsedOf(freed(e)) /\ AliveOf(envs)' = AliveOf(freed(e))
      /\ WaitingOf(envs)' = WaitingOf(freed(e))
      /\ InboxOf(envs, reading)' = InboxOf(freed(e), reading \ {e})
  BY <1>1, Mapped
<1> DEFINE id == env_id(envs, e)
<1>3. /\ id \in AliveOf(envs)
      /\ UsedOf(envs)' = UsedOf(envs) /\ AliveOf(envs)' = AliveOf(envs) \ {id}
      /\ WaitingOf(envs)' = WaitingOf(envs) \ {id}
      /\ InboxOf(envs, reading)' = {msg \in InboxOf(envs, reading) : msg.to # id}
  BY <1>2, EndView
<1> HIDE DEF id
<1> QED
  BY <1>3, Ends

LEMMA ExoforkMaps ==
  ASSUME KernelInv, NEW c \in CPUs, NEW e \in Slots, Exofork(c, e) PROVE S!Next
<1>1. PICK s \in Slots, es \in [Slots -> Env] :
        /\ envs[s].status = "FREE" /\ envs[s].gen + 1 \in 1 .. MaxForks + 1
        /\ resume(c, es, e) /\ \A t \in Slots \ {s} : es[t] = envs[t]
        /\ es[s].status = "NOT_RUNNABLE" /\ ~ es[s].recving /\ es[s].gen = envs[s].gen + 1
  BY ExoforkEffect
<1>2. reading' = reading
  BY DEF Exofork
<1>3. /\ UsedOf(envs)' = UsedOf(es) /\ AliveOf(envs)' = AliveOf(es)
      /\ WaitingOf(envs)' = WaitingOf(es) /\ InboxOf(envs, reading)' = InboxOf(es, reading)
  BY <1>1, <1>2, Mapped
<1> DEFINE id == [gen |-> envs[s].gen + 1, slot |-> s]
<1>4. /\ id \in Ids \ UsedOf(envs)
      /\ UsedOf(envs)' = UsedOf(envs) \cup {id} /\ AliveOf(envs)' = AliveOf(envs) \cup {id}
      /\ WaitingOf(envs)' = WaitingOf(envs)
      /\ InboxOf(envs, reading)' = InboxOf(envs, reading)
  BY <1>1, <1>3, CreateView
<1> HIDE DEF id
<1> QED
  BY <1>4, Creates

LEMMA SetRunnableMaps ==
  ASSUME KernelInv, NEW c \in CPUs, NEW e \in Slots, NEW id \in Ids, SetRunnable(c, e, id)
  PROVE  UNCHANGED S!vars
<1> DEFINE s == id.slot
           es == [envs EXCEPT ![s].status = "RUNNABLE"]
<1>1. resume(c, es, e) /\ envs[s].status = "NOT_RUNNABLE" /\ s \in Slots /\ reading' = reading
  BY DEF SetRunnable, Embryo, Ids
<1>2. /\ es \in [Slots -> Env]
      /\ \A t \in Slots : /\ es[t].status = IF t = s THEN "RUNNABLE" ELSE envs[t].status
                          /\ es[t].gen = envs[t].gen /\ es[t].recving = envs[t].recving
                          /\ es[t].from = envs[t].from /\ es[t].value = envs[t].value
  BY <1>1 DEF KernelInv, TypeOK, Env
<1> HIDE DEF es
<1>3. \A t \in Slots : es[t].status = "FREE" <=> envs[t].status = "FREE"
  BY <1>1, <1>2
<1>4. /\ UsedOf(es) = UsedOf(envs) /\ AliveOf(es) = AliveOf(envs)
      /\ WaitingOf(es) = WaitingOf(envs) /\ InboxOf(es, reading) = InboxOf(envs, reading)
  BY <1>2, <1>3, SameView
<1> QED
  BY <1>1, <1>2, <1>4, Mapped, Stutters

LEMMA DestroyMaps ==
  ASSUME KernelInv, NEW c \in CPUs, NEW e \in Slots, NEW id \in Ids, Destroy(c, e, id)
  PROVE  S!Next \/ UNCHANGED S!vars
<1> DEFINE s == id.slot
           es == [envs EXCEPT ![s].status = "DYING"]
<1>1. s \in Slots /\ envs[s].status # "FREE" /\ envs \in [Slots -> Env]
  BY DEF Destroy, Ids, envid2env, KernelInv, TypeOK
<1>2. CASE envs[s].status = "RUNNING"
  <2>1. resume(c, es, e) /\ reading' = reading
    BY <1>2 DEF Destroy
  <2>2. /\ es \in [Slots -> Env]
        /\ \A t \in Slots : /\ es[t].status = IF t = s THEN "DYING" ELSE envs[t].status
                            /\ es[t].gen = envs[t].gen /\ es[t].recving = envs[t].recving
                            /\ es[t].from = envs[t].from /\ es[t].value = envs[t].value
    BY <1>1 DEF Env
  <2> HIDE DEF es
  <2>3. \A t \in Slots : es[t].status = "FREE" <=> envs[t].status = "FREE"
    BY <1>1, <2>2
  <2>4. /\ UsedOf(es) = UsedOf(envs) /\ AliveOf(es) = AliveOf(envs)
        /\ WaitingOf(es) = WaitingOf(envs) /\ InboxOf(es, reading) = InboxOf(envs, reading)
    BY <2>2, <2>3, SameView
  <2> QED
    BY <2>1, <2>2, <2>4, Mapped, Stutters
<1>3. CASE envs[s].status # "RUNNING"
  <2>1. resume(c, freed(s), e) /\ freed(s) \in [Slots -> Env] /\ reading' = reading \ {s}
    BY <1>1, <1>3 DEF Destroy, env_free, freed, Env
  <2>2. /\ UsedOf(envs)' = UsedOf(freed(s)) /\ AliveOf(envs)' = AliveOf(freed(s))
        /\ WaitingOf(envs)' = WaitingOf(freed(s))
        /\ InboxOf(envs, reading)' = InboxOf(freed(s), reading \ {s})
    BY <2>1, Mapped
  <2> DEFINE me == env_id(envs, s)
  <2>3. /\ me \in AliveOf(envs)
        /\ UsedOf(envs)' = UsedOf(envs) /\ AliveOf(envs)' = AliveOf(envs) \ {me}
        /\ WaitingOf(envs)' = WaitingOf(envs) \ {me}
        /\ InboxOf(envs, reading)' = {msg \in InboxOf(envs, reading) : msg.to # me}
    BY <1>1, <2>2, EndView
  <2> HIDE DEF me
  <2> QED
    BY <2>3, Ends
<1> QED
  BY <1>2, <1>3

LEMMA RecvMaps ==
  ASSUME KernelInv, NEW c \in CPUs, NEW e \in Slots, Recv(c, e) PROVE S!Next
<1> DEFINE es == [envs EXCEPT ![e] = [@ EXCEPT !.recving = TRUE, !.status = "NOT_RUNNABLE"]]
<1>1. /\ envs[e].status = "RUNNING" /\ e \notin reading /\ sched_yield(c, es, e)
      /\ reading' = reading \cup {e}
  BY DEF Recv, Runs
<1>2. /\ es \in [Slots -> Env]
      /\ \A t \in Slots :
           /\ es[t].gen = envs[t].gen /\ es[t].from = envs[t].from
           /\ es[t].value = envs[t].value
           /\ es[t].status = IF t = e THEN "NOT_RUNNABLE" ELSE envs[t].status
           /\ es[t].recving = IF t = e THEN TRUE ELSE envs[t].recving
  BY DEF KernelInv, TypeOK, Env
<1> HIDE DEF es
<1>3. /\ UsedOf(envs)' = UsedOf(es) /\ AliveOf(envs)' = AliveOf(es)
      /\ WaitingOf(envs)' = WaitingOf(es)
      /\ InboxOf(envs, reading)' = InboxOf(es, reading \cup {e})
  BY <1>1, <1>2, Mapped
<1> DEFINE id == env_id(envs, e)
<1>4. /\ id \in AliveOf(envs) \ WaitingOf(envs)
      /\ \A msg \in InboxOf(envs, reading) : msg.to # id
      /\ UsedOf(es) = UsedOf(envs) /\ AliveOf(es) = AliveOf(envs)
      /\ WaitingOf(es) = WaitingOf(envs) \cup {id}
      /\ InboxOf(es, reading \cup {e}) = InboxOf(envs, reading)
  BY <1>1, <1>2, WaitView
<1> HIDE DEF id
<1> QED
  BY <1>3, <1>4, Waits

LEMMA TrySendMaps ==
  ASSUME KernelInv, NEW c \in CPUs, NEW e \in Slots, NEW id \in Ids, TrySend(c, e, id)
  PROVE  S!Next
<1> DEFINE s == id.slot
           me == env_id(envs, e)
           es == [envs EXCEPT ![s] = [@ EXCEPT !.recving = FALSE,
                    !.from = me, !.value = id, !.status = "RUNNABLE"]]
<1>1. /\ envs[e].status = "RUNNING" /\ s \in Slots /\ envs[s].status # "FREE"
      /\ envs[s].recving /\ env_id(envs, s) = id /\ resume(c, es, e) /\ reading' = reading
  BY DEF TrySend, Runs, Ids, envid2env
<1>2. envs \in [Slots -> Env] /\ me \in Ids
  BY JosKernelAssumption DEF KernelInv, TypeOK, env_id, Ids, Env
<1> HIDE DEF me
<1>3. /\ es \in [Slots -> Env] /\ \A t \in Slots \ {s} : es[t] = envs[t]
      /\ es[s].gen = envs[s].gen /\ es[s].status = "RUNNABLE" /\ ~ es[s].recving
      /\ es[s].from = me /\ es[s].value = id
  BY <1>1, <1>2, ZenonT(40) DEF Env
<1> HIDE DEF es, s
<1>4. /\ UsedOf(envs)' = UsedOf(es) /\ AliveOf(envs)' = AliveOf(es)
      /\ WaitingOf(envs)' = WaitingOf(es) /\ InboxOf(envs, reading)' = InboxOf(es, reading)
  BY <1>1, <1>3, Mapped
<1>5. /\ id \in WaitingOf(envs) /\ me \in AliveOf(envs)
      /\ UsedOf(es) = UsedOf(envs) /\ AliveOf(es) = AliveOf(envs)
      /\ WaitingOf(es) = WaitingOf(envs) \ {id}
      /\ InboxOf(es, reading) =
           InboxOf(envs, reading) \cup {[to |-> id, from |-> me, value |-> id]}
  <2>1. es[s].from = env_id(envs, e) /\ es[s].value = env_id(envs, s)
    BY <1>1, <1>3 DEF me
  <2> QED
    BY <1>1, <1>3, <2>1, SendView DEF me
<1> QED
  BY <1>4, <1>5, Sends

LEMMA ReadMessageMaps ==
  ASSUME KernelInv, NEW c \in CPUs, NEW e \in Slots, ReadMessage(c, e) PROVE S!Next
<1>1. envs[e].status = "RUNNING" /\ e \in reading /\ reading' = reading \ {e} /\ envs' = envs
  BY DEF ReadMessage, Runs
<1>2. PICK msg \in InboxOf(envs, reading) :
        InboxOf(envs, reading \ {e}) = InboxOf(envs, reading) \ {msg}
  BY <1>1, ReceiveView
<1>3. /\ UsedOf(envs)' = UsedOf(envs) /\ AliveOf(envs)' = AliveOf(envs)
      /\ WaitingOf(envs)' = WaitingOf(envs)
      /\ InboxOf(envs, reading)' = InboxOf(envs, reading \ {e})
  BY <1>1 DEF UsedOf, AliveOf, WaitingOf, InboxOf, LiveOf, env_id
<1> QED
  BY <1>2, <1>3, Receives

LEMMA InitMaps == Init => S!Init
<1> SUFFICES ASSUME Init PROVE S!Init
  OBVIOUS
<1>1. \A s \in Slots : /\ envs[s].status = IF s < Boot THEN "RUNNABLE" ELSE "FREE"
                       /\ envs[s].gen = IF s < Boot THEN 1 ELSE 0
                       /\ envs[s].recving = FALSE
  BY DEF Init
<1>2. Live = {s \in Slots : s < Boot} /\ reading = {}
  BY <1>1 DEF Live, Init
<1>3. issued = {env_id(envs, s) : s \in Live}
  <2>1. ASSUME NEW id \in issued PROVE \E s \in Live : id = env_id(envs, s)
    <3>1. id.slot \in Slots /\ id.gen = 1 /\ id.slot < Boot
      BY <1>1, JosKernelAssumption DEF issued, Ids
    <3>2. id = [gen |-> id.gen, slot |-> id.slot]
      BY DEF issued, Ids
    <3> QED
      BY <1>1, <1>2, <3>1, <3>2 DEF env_id
  <2>2. ASSUME NEW s \in Live PROVE env_id(envs, s) \in issued
    BY <1>1, <1>2, JosKernelAssumption DEF issued, Ids, env_id
  <2> QED
    BY <2>1, <2>2
<1>4. issued \subseteq Ids
  BY DEF issued
<1>5. {t \in Live : envs[t].recving} = {} /\ {t \in Live : t \in reading /\ ~ envs[t].recving} = {}
  BY <1>1, <1>2
<1> QED
  BY <1>3, <1>4, <1>5 DEF S!Init

\* The kernel implements the service of environments and messages: an envid is never given
\* out twice, and a message is received once, unchanged, by the environment it was sent
\* to, whichever slots are reused and however the CPUs take turns.
THEOREM Refinement == Spec => ImplementsEnvService
<1>1. ASSUME KernelInv, [Next]_vars PROVE [S!Next]_(S!vars)
  <2>1. CASE UNCHANGED vars
    <3>1. envs' = envs /\ reading' = reading
      BY <2>1 DEF vars
    <3>2. /\ UsedOf(envs)' = UsedOf(envs) /\ AliveOf(envs)' = AliveOf(envs)
          /\ WaitingOf(envs)' = WaitingOf(envs)
          /\ InboxOf(envs, reading)' = InboxOf(envs, reading)
      BY <3>1 DEF UsedOf, AliveOf, WaitingOf, InboxOf, LiveOf, env_id
    <3> QED
      BY <3>2, Stutters
  <2>2. ASSUME NEW c \in CPUs, Reap(c) PROVE S!Next
    BY <1>1, <2>2, FreeOwnMaps DEF Reap, KernelInv, TypeOK
  <2>3. ASSUME NEW c \in CPUs, NEW e \in Slots, Exit(c, e) PROVE S!Next
    BY <1>1, <2>3, FreeOwnMaps DEF Exit, Runs
  <2> QED
    BY <1>1, <2>1, <2>2, <2>3, YieldMaps, ExoforkMaps, RecvMaps, ReadMessageMaps,
       SetRunnableMaps, DestroyMaps, TrySendMaps DEF Next
<1> QED
  BY <1>1, InitMaps, KernelInvariant, PTL DEF Spec, ImplementsEnvService, S!Spec
=============================================================================
