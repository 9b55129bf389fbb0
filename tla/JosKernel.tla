----------------------------- MODULE JosKernel -----------------------------
(***************************************************************************)
(* Environments, scheduling and IPC of the JOS kernel (OS/lab4/kern env.c, *)
(* sched.c, syscall.c, trap.c; lib/ipc.c) on several CPUs.  A trap holds   *)
(* the big kernel lock from its entry until env_run or sched_halt leaves   *)
(* the kernel, so one action is one trap: the system call or interrupt,    *)
(* and the choice of what its CPU runs next.                               *)
(***************************************************************************)
EXTENDS Integers, Sequences, FiniteSets

CONSTANTS
  NENV,      \* slots of the table envs
  CPUs,      \* the processors
  Boot,      \* environments that i386_init creates
  MaxForks   \* bound of the model: environments forked

ASSUME JosKernelAssumption ==
  /\ NENV \in Nat \ {0} /\ Boot \in 1 .. NENV
  /\ MaxForks \in Nat
  /\ -1 \notin CPUs

VARIABLES
  envs,        \* the table: status, generation, parent and ipc fields of each slot
  free_list,   \* env_free_list
  cur,         \* cur[c]: the slot of CPU c's curenv, NULL when it has none
  in_monitor,  \* a CPU found nothing left to run and entered the kernel monitor
  reading      \* slots whose program has left sys_ipc_recv's call to read its result

vars == <<envs, free_list, cur, in_monitor, reading>>

Slots == 0 .. NENV - 1
NULL == -1
Ids == [gen : 0 .. MaxForks + 1, slot : Slots]
NoId == [gen |-> 0, slot |-> 0]
issued == {id \in Ids : 1 <= id.gen /\ id.gen <= envs[id.slot].gen}
env_id(es, s) == [gen |-> es[s].gen, slot |-> s]

Env == [status : {"FREE", "RUNNABLE", "RUNNING", "NOT_RUNNABLE", "DYING"},
        gen : 0 .. MaxForks + 1, parent : Ids, recving : BOOLEAN, from : Ids,
        value : Ids]

TypeOK ==
  /\ envs \in [Slots -> Env]
  /\ free_list \in Seq(Slots)
  /\ cur \in [CPUs -> Slots \cup {NULL}]
  /\ in_monitor \in BOOLEAN
  /\ reading \subseteq Slots

Init ==
  /\ envs = [s \in Slots |->
       [status |-> IF s < Boot THEN "RUNNABLE" ELSE "FREE",
        gen |-> IF s < Boot THEN 1 ELSE 0, parent |-> NoId, recving |-> FALSE,
        from |-> NoId, value |-> NoId]]
  /\ free_list = [i \in 1 .. NENV - Boot |-> Boot + i - 1]
  /\ cur = [c \in CPUs |-> NULL]
  /\ in_monitor = FALSE
  /\ reading = {}

---------------------------------------------------------------------------
(* Leaving the kernel: on CPU c, whose curenv is e, with the table es. *)

env_run(c, es, e, s) ==
  /\ envs' = IF s = e THEN es
             ELSE [i \in Slots |->
                     IF i = s THEN [es[i] EXCEPT !.status = "RUNNING"]
                     ELSE IF i = e /\ es[i].status = "RUNNING"
                          THEN [es[i] EXCEPT !.status = "RUNNABLE"] ELSE es[i]]
  /\ cur' = [cur EXCEPT ![c] = s]
  /\ UNCHANGED in_monitor

sched_halt(c, es, e) ==
  /\ envs' = es
  /\ IF \A s \in Slots : es[s].status \in {"FREE", "NOT_RUNNABLE"}
     THEN in_monitor' = TRUE /\ cur' = [cur EXCEPT ![c] = e]
     ELSE cur' = [cur EXCEPT ![c] = NULL] /\ UNCHANGED in_monitor

\* Faulty variant: the current environment keeps the CPU while it can run.
sched_yieldKeep(c, es, e) ==
  LET start == IF e = NULL THEN 0 ELSE (e + 1) % NENV
      slot(i) == (start + i) % NENV
      runnable == {i \in Slots : es[slot(i)].status = "RUNNABLE"}
  IN  IF e # NULL /\ es[e].status = "RUNNING"
      THEN env_run(c, es, e, e)
      ELSE IF runnable # {}
           THEN env_run(c, es, e, slot(CHOOSE i \in runnable : \A j \in runnable : i <= j))
           ELSE sched_halt(c, es, e)

\* The first runnable slot in circular order after e, from slot 0 without one.
sched_yield(c, es, e) ==
  LET start == IF e = NULL THEN 0 ELSE (e + 1) % NENV
      slot(i) == (start + i) % NENV
      runnable == {i \in Slots : es[slot(i)].status = "RUNNABLE"}
  IN  IF runnable # {}
      THEN env_run(c, es, e, slot(CHOOSE i \in runnable : \A j \in runnable : i <= j))
      ELSE IF e # NULL /\ es[e].status = "RUNNING"
           THEN env_run(c, es, e, e)
           ELSE sched_halt(c, es, e)

\* The end of trap(), when the handler has not left the kernel itself.
resume(c, es, e) ==
  IF es[e].status = "RUNNING" THEN env_run(c, es, e, e) ELSE sched_yield(c, es, e)

---------------------------------------------------------------------------
(* Environments *)

\* Faulty variant: the generation of the envid is not compared.
envid2envIndex(id) == envs[id.slot].status # "FREE"

\* What envid2env finds: a slot in use whose environment has this very envid.
envid2env(id) == envs[id.slot].status # "FREE" /\ env_id(envs, id.slot) = id
permitted(e, s) == s = e \/ envs[s].parent = env_id(envs, e)

freed(s) == [envs EXCEPT ![s].status = "FREE"]
\* Faulty variant: the slot after the freed one is queued.
env_freeNext(s) == free_list' = <<s + 1>> \o free_list /\ reading' = reading \ {s}
env_free(s) == free_list' = <<s>> \o free_list /\ reading' = reading \ {s}

\* A user program is in a system call or interrupted only while it runs.
Runs(c, e) == ~ in_monitor /\ e # NULL /\ cur[c] = e /\ envs[e].status = "RUNNING"

---------------------------------------------------------------------------
(* Traps *)

\* The timer interrupt, or sys_yield; on a halted CPU the timer wakes the scheduler.
Yield(c) ==
  /\ ~ in_monitor
  /\ cur[c] # NULL => envs[cur[c]].status = "RUNNING"
  /\ sched_yield(c, envs, cur[c])
  /\ UNCHANGED <<free_list, reading>>

\* Any trap of a zombie frees it.
Reap(c) ==
  /\ ~ in_monitor /\ cur[c] # NULL /\ envs[cur[c]].status = "DYING"
  /\ env_free(cur[c])
  /\ sched_yield(c, freed(cur[c]), NULL)

\* sys_exofork: the child is left for its parent to build.
Exofork(c, e) ==
  /\ Runs(c, e) /\ free_list # << >>
  /\ LET s == Head(free_list)
     IN  /\ Cardinality(issued) < Boot + MaxForks
         /\ resume(c, [envs EXCEPT ![s].status = "NOT_RUNNABLE", ![s].gen = @ + 1,
                         ![s].parent = env_id(envs, e), ![s].recving = FALSE], e)
  /\ free_list' = Tail(free_list)
  /\ UNCHANGED reading

\* sys_env_set_status as fork calls it: on the child it has just built.
Embryo(s) == envs[s].status = "NOT_RUNNABLE" /\ ~ envs[s].recving
SetRunnable(c, e, id) ==
  /\ Runs(c, e) /\ envid2env(id) /\ permitted(e, id.slot) /\ Embryo(id.slot)
  /\ resume(c, [envs EXCEPT ![id.slot].status = "RUNNABLE"], e)
  /\ UNCHANGED <<free_list, reading>>

\* sys_env_destroy of the caller, its exit, or a trap nothing handles.
Exit(c, e) ==
  /\ Runs(c, e)
  /\ env_free(e)
  /\ sched_yield(c, freed(e), NULL)

\* Faulty variant: an environment another CPU runs is freed at once.
DestroyAtOnce(c, e, id) ==
  /\ Runs(c, e) /\ envid2env(id) /\ id.slot # e /\ permitted(e, id.slot)
  /\ envs[id.slot].status # "DYING"
  /\ resume(c, freed(id.slot), e) /\ env_free(id.slot)

\* sys_env_destroy of a child: a zombie when another CPU runs it.
Destroy(c, e, id) ==
  /\ Runs(c, e) /\ envid2env(id) /\ id.slot # e /\ permitted(e, id.slot)
  /\ envs[id.slot].status # "DYING"     \* a parent destroys a child once
  /\ IF envs[id.slot].status = "RUNNING"
     THEN /\ resume(c, [envs EXCEPT ![id.slot].status = "DYING"], e)
          /\ UNCHANGED <<free_list, reading>>
     ELSE resume(c, freed(id.slot), e) /\ env_free(id.slot)

\* sys_ipc_recv: block until a value is ready.
Recv(c, e) ==
  /\ Runs(c, e) /\ e \notin reading
  /\ reading' = reading \cup {e}
  /\ sched_yield(c, [envs EXCEPT ![e] = [@ EXCEPT !.recving = TRUE,
                                                  !.status = "NOT_RUNNABLE"]], e)
  /\ UNCHANGED free_list

\* Faulty variant: the receiver is left receiving.
TrySendOpen(c, e, id) ==
  /\ Runs(c, e) /\ e \notin reading
  /\ envid2env(id) /\ envs[id.slot].recving
  /\ resume(c, [envs EXCEPT ![id.slot] = [@ EXCEPT
                  !.from = env_id(envs, e), !.value = id, !.status = "RUNNABLE"]], e)
  /\ UNCHANGED <<free_list, reading>>

\* sys_ipc_try_send to an environment that waits.  Otherwise it changes nothing:
\* ipc_send yields and tries again when the target does not wait, and panics when
\* the envid is stale.  The value sent is stood for by the envid it was meant for.
TrySend(c, e, id) ==
  /\ Runs(c, e) /\ e \notin reading
  /\ envid2env(id) /\ envs[id.slot].recving
  /\ resume(c, [envs EXCEPT ![id.slot] = [@ EXCEPT !.recving = FALSE,
                  !.from = env_id(envs, e), !.value = id, !.status = "RUNNABLE"]], e)
  /\ UNCHANGED <<free_list, reading>>

\* ipc_recv, back in its program, reads the sender and the value from thisenv.
ReadMessage(c, e) ==
  /\ Runs(c, e) /\ e \in reading
  /\ reading' = reading \ {e}
  /\ UNCHANGED <<envs, free_list, cur, in_monitor>>

Next ==
  \E c \in CPUs :
    \/ Yield(c) \/ Reap(c)
    \/ \E e \in Slots :
         \/ Exofork(c, e) \/ Exit(c, e) \/ Recv(c, e) \/ ReadMessage(c, e)
         \/ \E id \in Ids :
              SetRunnable(c, e, id) \/ Destroy(c, e, id) \/ TrySend(c, e, id)

\* Each CPU's timer keeps firing, and its traps get the kernel lock.
Fairness == \A c \in CPUs : WF_vars(Yield(c) \/ Reap(c))

Spec == Init /\ [][Next]_vars /\ Fairness

---------------------------------------------------------------------------
(* Properties *)

\* What the table says runs is what the CPUs run: no environment runs on two CPUs, no
\* CPU runs one that has been freed, queued or blocked, and none is marked running and
\* run by nobody.
RunsOnOneCpu ==
  ~ in_monitor =>
    \A s \in Slots : Cardinality({c \in CPUs : cur[c] = s}) =
                      IF envs[s].status \in {"RUNNING", "DYING"} THEN 1 ELSE 0

\* A blocked environment waits for a message or for its parent to start it, and one
\* that waits for a message is blocked: a sender never resumes what already runs.
WaitersAreBlocked ==
  \A s \in Slots : envs[s].status # "FREE" =>
    /\ envs[s].recving => envs[s].status = "NOT_RUNNABLE" /\ s \in reading
    /\ s \in reading /\ envs[s].status = "NOT_RUNNABLE" => envs[s].recving

\* The free list holds the free slots, each once.
FreeListIsExact ==
  /\ {free_list[i] : i \in 1 .. Len(free_list)} = {s \in Slots : envs[s].status = "FREE"}
  /\ \A i, j \in 1 .. Len(free_list) : free_list[i] = free_list[j] => i = j

\* The table, the free list and the CPUs tell one story.
SlotsAreAccountedFor == RunsOnOneCpu /\ FreeListIsExact

\* Envids are never given out twice, and messages reach the environment they were sent
\* to, unchanged, once.
Live == {s \in Slots : envs[s].status # "FREE"}
S == INSTANCE EnvService WITH
  used <- issued,
  alive <- {env_id(envs, s) : s \in Live},
  waiting <- {env_id(envs, s) : s \in {t \in Live : envs[t].recving}},
  inbox <- {[to |-> env_id(envs, s), from |-> envs[s].from, value |-> envs[s].value] :
              s \in {t \in Live : t \in reading /\ ~ envs[t].recving}}
ImplementsEnvService == S!Spec

\* No environment is kept waiting for a CPU for ever.
RunnableRuns ==
  \A s \in Slots : envs[s].status = "RUNNABLE" ~> envs[s].status # "RUNNABLE"
=============================================================================
