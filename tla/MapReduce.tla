------------------------------ MODULE MapReduce ------------------------------
(***************************************************************************)
(* The distributed MapReduce of DS/lab4: a master that learns of workers   *)
(* as they register, hands the tasks of the map phase and then those of    *)
(* the reduce phase to one thread per task, retries after five seconds     *)
(* what has not been done, and merges the results; workers that run the    *)
(* tasks it sends and go offline after nRPC calls.  SOFA RPC is external:  *)
(* a call is delivered, refused by a worker that is offline, or given up   *)
(* by its own timeout while the task still runs.                           *)
(***************************************************************************)
EXTENDS Naturals, Integers, Sequences, FiniteSets, FiniteSetsExt

CONSTANTS NMap,      \* mapFiles.length
          NReduce,   \* nReduce
          Workers,   \* the workers that may register
          Limit,     \* nRPC of each worker, -1 for no limit
          Keyless,   \* the reduce tasks no key hashes to
          Slow       \* a call or a thread may outlast the timeouts

ASSUME MapReduceAssumption ==
  /\ NMap \in Nat \ {0} /\ NReduce \in Nat \ {0}
  /\ Limit \in [Workers -> Nat \cup {-1}]
  /\ Keyless \subseteq 0 .. NReduce - 1
  /\ Slow \in BOOLEAN

VARIABLES
  workers,      \* Master.workers, in the order they registered
  forwarded,    \* forwardRegistrations' i
  writers,      \* the names its threads have yet to write to the channel
  chan,         \* registerChan
  serving,      \* the master's RPC server is exported
  pc, phase,    \* where the thread of Master.run is, and schedule's argument
  taskState,    \* Scheduler.taskState: the tasks not yet finished
  todo,         \* what schedule's for loop has still to hand out
  latch,        \* the countDownLatch of each phase
  threads,      \* the WorkerThreads that are alive
  jobs,         \* the doTask calls that run in a worker
  left,         \* each worker's nRPC
  concurrent,   \* each worker's concurrent
  inter,        \* the intermediate files each map task has written
  result,       \* the file each reduce task has written
  merged        \* the reduce tasks whose keys are in the merged file

masterVars == <<pc, phase, todo>>
regVars    == <<workers, forwarded, writers, serving>>
workerVars == <<jobs, concurrent>>
fileVars   == <<inter, result, merged>>
vars == <<regVars, chan, masterVars, taskState, latch, threads, left,
          workerVars, fileVars>>

Phases == {"map", "reduce"}

\* schedule's nTasks, as the set of the tasks' numbers.
Tasks(p) == IF p = "map" THEN 0 .. NMap - 1 ELSE 0 .. NReduce - 1

\* A file a task writes: Files.write empties it first.
FileState == {"none", "partial", "full"}

Thread == [worker : Workers, phase : Phases, task : Nat,
           at : {"call", "wait", "remove", "count", "write"}]
DoTaskCall == [worker : Workers, phase : Phases, task : Nat,
               at : {"run", "write"}]

Init == /\ workers = <<>> /\ forwarded = 0 /\ writers = {} /\ serving = TRUE
        /\ chan = <<>>
        /\ pc = "schedule" /\ phase = "map" /\ todo = {}
        /\ taskState = {} /\ latch = [p \in Phases |-> 0]
        /\ threads = {} /\ jobs = {}
        /\ left = Limit /\ concurrent = [w \in Workers |-> 0]
        /\ inter = [t \in Tasks("map") |-> "none"]
        /\ result = [t \in Tasks("reduce") |-> "none"]
        /\ merged = {}
-----------------------------------------------------------------------------
(* Registration *)

\* Worker.register: the master records the worker, or, its server gone, the
\* worker shuts itself down.
Register(w) ==
  /\ w \notin Range(workers) /\ left[w] # 0
  /\ IF serving
     THEN workers' = Append(workers, w) /\ UNCHANGED left
     ELSE left' = [left EXCEPT ![w] = 0] /\ UNCHANGED workers
  /\ UNCHANGED <<forwarded, writers, serving, chan, masterVars, taskState,
                 latch, threads, workerVars, fileVars>>

\* One turn of forwardRegistrations' loop: a thread of its own writes the name.
Forward ==
  /\ Len(workers) > forwarded
  /\ forwarded' = forwarded + 1
  /\ writers' = writers \cup {workers[forwarded + 1]}
  /\ UNCHANGED <<workers, serving, chan, masterVars, taskState, latch, threads,
                 left, workerVars, fileVars>>

ForwardWrite(w) ==
  /\ w \in writers
  /\ writers' = writers \ {w}
  /\ chan' = Append(chan, w)
  /\ UNCHANGED <<workers, forwarded, serving, masterVars, taskState, latch,
                 threads, left, workerVars, fileVars>>
-----------------------------------------------------------------------------
(* The thread of Master.run, in Scheduler.schedule *)

Schedule ==
  /\ pc = "schedule"
  /\ taskState' = Tasks(phase)
  /\ latch' = [latch EXCEPT ![phase] = Cardinality(Tasks(phase))]
  /\ pc' = "check"
  /\ UNCHANGED <<regVars, chan, phase, todo, threads, left, workerVars,
                 fileVars>>

\* The test of the while loop, and what run does when it is over.
Check ==
  /\ pc = "check"
  /\ pc' = IF taskState # {} THEN "iterate"
           ELSE IF phase = "map" THEN "schedule" ELSE "stop"
  /\ phase' = IF taskState = {} THEN "reduce" ELSE phase
  /\ UNCHANGED <<regVars, chan, todo, taskState, latch, threads, left,
                 workerVars, fileVars>>

\* The for loop's iterator is a snapshot of the CopyOnWriteArrayList.
Iterate ==
  /\ pc = "iterate"
  /\ todo' = taskState
  /\ pc' = "assign"
  /\ UNCHANGED <<regVars, chan, phase, taskState, latch, threads, left,
                 workerVars, fileVars>>

\* The body of the for loop, blocked while no worker is in the channel.  Its
\* mapFiles[i] is out of bounds for a reduce task that has no map task's number.
Assign ==
  /\ pc = "assign" /\ todo # {} /\ chan # <<>>
  /\ chan' = Tail(chan)
  /\ LET i == Min(todo)
         th == [worker |-> Head(chan), phase |-> phase, task |-> i,
                at |-> "call"]
     IN IF i \in Tasks("map")
        THEN /\ todo' = todo \ {i}
             /\ threads' = threads \cup {th}
             /\ UNCHANGED pc
        ELSE pc' = "crashed" /\ UNCHANGED <<todo, threads>>
  /\ UNCHANGED <<regVars, phase, taskState, latch, left, workerVars, fileVars>>

\* Faulty variant: schedule waits without a timeout.
AwaitForever ==
  /\ pc = "assign" /\ todo = {}
  /\ latch[phase] = 0
  /\ pc' = "check"
  /\ UNCHANGED <<regVars, chan, phase, todo, taskState, latch, threads, left,
                 workerVars, fileVars>>

\* countDownLatch.await returns: the latch is down, or five seconds are over.
\* Unless something is slow every call has ended, one way or the other, by then.
Await ==
  /\ pc = "assign" /\ todo = {}
  /\ latch[phase] = 0 \/ threads = {} \/ Slow
  /\ pc' = "check"
  /\ UNCHANGED <<regVars, chan, phase, todo, taskState, latch, threads, left,
                 workerVars, fileVars>>
-----------------------------------------------------------------------------
(* Scheduler.WorkerThread.run *)

Gone(th) == threads \ {th}
Moved(th, to) == Gone(th) \cup {[th EXCEPT !.at = to]}

\* Faulty variants: a thread goes on after a refused call; a worker does not
\* count the tasks it takes.
CallRegardless(th) ==
  LET w == th.worker
  IN /\ th \in threads /\ th.at = "call"
     /\ IF left[w] # 0
        THEN /\ left' = IF left[w] > 0 THEN [left EXCEPT ![w] = @ - 1] ELSE left
             /\ concurrent' = [concurrent EXCEPT ![w] = @ + 1]
             /\ threads' = Moved(th, "wait")
             /\ jobs' = jobs \cup {[th EXCEPT !.at = "run"]}
        ELSE threads' = Moved(th, "remove") /\ UNCHANGED <<left, workerVars>>
     /\ UNCHANGED <<regVars, chan, masterVars, taskState, latch, fileVars>>

CallUncounted(th) ==
  /\ th \in threads /\ th.at = "call" /\ left[th.worker] # 0
  /\ threads' = Moved(th, "wait")
  /\ jobs' = jobs \cup {[th EXCEPT !.at = "run"]}
  /\ UNCHANGED <<regVars, chan, masterVars, taskState, latch, left, concurrent,
                 fileVars>>

\* The call arrives: RPCFilter refuses it once nRPC is 0 and counts it
\* otherwise; doTask refuses a second task at a time.  A refused call throws in
\* the thread, which ends there.
Call(th) ==
  LET w == th.worker
      accepted == left[w] # 0
      alone == concurrent[w] = 0
  IN /\ th \in threads /\ th.at = "call"
     /\ left' = IF left[w] > 0 THEN [left EXCEPT ![w] = @ - 1] ELSE left
     /\ concurrent' = IF accepted THEN [concurrent EXCEPT ![w] = @ + 1]
                      ELSE concurrent
     /\ IF accepted /\ alone
        THEN /\ threads' = Moved(th, "wait")
             /\ jobs' = jobs \cup {[th EXCEPT !.at = "run"]}
        ELSE threads' = Gone(th) /\ UNCHANGED jobs
     /\ UNCHANGED <<regVars, chan, masterVars, taskState, latch, fileVars>>

\* Faulty variant: a failed call gives its worker back all the same.
GiveUpWorker(th) ==
  /\ Slow
  /\ th \in threads /\ th.at \in {"call", "wait"}
  /\ threads' = Gone(th)
  /\ chan' = Append(chan, th.worker)
  /\ UNCHANGED <<regVars, masterVars, taskState, latch, left, workerVars,
                 fileVars>>

\* The RPC's own timeout: the thread ends; a task that has begun goes on.
GiveUp(th) ==
  /\ Slow
  /\ th \in threads /\ th.at \in {"call", "wait"}
  /\ threads' = Gone(th)
  /\ UNCHANGED <<regVars, chan, masterVars, taskState, latch, left, workerVars,
                 fileVars>>

\* taskState is static: a thread of the map phase removes its number from the
\* list of the phase that is current when it gets here.
Removed(th) ==
  /\ th \in threads /\ th.at = "remove"
  /\ taskState' = taskState \ {th.task}
  /\ threads' = Moved(th, "count")
  /\ UNCHANGED <<regVars, chan, masterVars, latch, left, workerVars, fileVars>>

CountDown(th) ==
  /\ th \in threads /\ th.at = "count"
  /\ latch' = [latch EXCEPT ![th.phase] = IF @ > 0 THEN @ - 1 ELSE 0]
  /\ threads' = Moved(th, "write")
  /\ UNCHANGED <<regVars, chan, masterVars, taskState, left, workerVars,
                 fileVars>>

WriteBack(th) ==
  /\ th \in threads /\ th.at = "write"
  /\ chan' = Append(chan, th.worker)
  /\ threads' = Gone(th)
  /\ UNCHANGED <<regVars, masterVars, taskState, latch, left, workerVars,
                 fileVars>>
-----------------------------------------------------------------------------
(* Worker.doTask *)

\* The thread that waits for job, if it has not given it up.
Caller(job) == [job EXCEPT !.at = "wait"]

\* doTask returns.  The answer of a worker that has just gone offline may be
\* lost with its server, and the thread then ends with an exception.
Answer(job) ==
  /\ jobs' = jobs \ {job}
  /\ concurrent' = [concurrent EXCEPT ![job.worker] = @ - 1]
  /\ \/ threads' = IF Caller(job) \in threads
                   THEN Moved(Caller(job), "remove") ELSE threads
     \/ left[job.worker] = 0 /\ threads' = Gone(Caller(job))

\* doTask throws: concurrent keeps its count and the thread ends too.
Throw(job) ==
  /\ jobs' = jobs \ {job}
  /\ threads' = Gone(Caller(job))
  /\ UNCHANGED concurrent

\* Mapper.doMap writes the task's intermediate files, each emptied first.
MapOpen(job) ==
  /\ job \in jobs /\ job.phase = "map" /\ job.at = "run"
  /\ inter' = [inter EXCEPT ![job.task] = "partial"]
  /\ jobs' = (jobs \ {job}) \cup {[job EXCEPT !.at = "write"]}
  /\ UNCHANGED <<regVars, chan, masterVars, taskState, latch, threads, left,
                 concurrent, result, merged>>

MapClose(job) ==
  /\ job \in jobs /\ job.phase = "map" /\ job.at = "write"
  /\ inter' = [inter EXCEPT ![job.task] = "full"]
  /\ Answer(job)
  /\ UNCHANGED <<regVars, chan, masterVars, taskState, latch, left, result,
                 merged>>

\* Reducer.doReduce can go on when every intermediate file parses and there is
\* a first key.
Readable(t) == t \notin Keyless /\ \A m \in Tasks("map") : inter[m] = "full"

ReduceOpen(job) ==
  /\ job \in jobs /\ job.phase = "reduce" /\ job.at = "run"
  /\ Readable(job.task)
  /\ result' = [result EXCEPT ![job.task] = "partial"]
  /\ jobs' = (jobs \ {job}) \cup {[job EXCEPT !.at = "write"]}
  /\ UNCHANGED <<regVars, chan, masterVars, taskState, latch, threads, left,
                 concurrent, inter, merged>>

ReduceThrows(job) ==
  /\ job \in jobs /\ job.phase = "reduce" /\ job.at = "run"
  /\ ~Readable(job.task)
  /\ Throw(job)
  /\ UNCHANGED <<regVars, chan, masterVars, taskState, latch, left, fileVars>>

ReduceClose(job) ==
  /\ job \in jobs /\ job.phase = "reduce" /\ job.at = "write"
  /\ result' = [result EXCEPT ![job.task] = "full"]
  /\ Answer(job)
  /\ UNCHANGED <<regVars, chan, masterVars, taskState, latch, left, inter,
                 merged>>
-----------------------------------------------------------------------------
(* The end of Master.run *)

StopServer ==
  /\ pc = "stop"
  /\ serving' = FALSE
  /\ pc' = "kill"
  /\ UNCHANGED <<workers, forwarded, writers, chan, phase, todo, taskState,
                 latch, threads, left, workerVars, fileVars>>

\* killWorkers: shutdown leaves every registered worker with nRPC = 0.
KillWorkers ==
  /\ pc = "kill"
  /\ left' = [w \in Workers |-> IF w \in Range(workers) THEN 0 ELSE left[w]]
  /\ pc' = "merge"
  /\ UNCHANGED <<regVars, chan, phase, todo, taskState, latch, threads,
                 workerVars, fileVars>>

\* merge skips a result file that is missing and cannot parse half of one.
Merge ==
  /\ pc = "merge"
  /\ \A t \in Tasks("reduce") : result[t] # "partial"
  /\ merged' = {t \in Tasks("reduce") : result[t] = "full"}
  /\ pc' = "done"
  /\ UNCHANGED <<regVars, chan, phase, todo, taskState, latch, threads, left,
                 workerVars, inter, result>>

MergeThrows ==
  /\ pc = "merge"
  /\ \E t \in Tasks("reduce") : result[t] = "partial"
  /\ pc' = "crashed"
  /\ UNCHANGED <<regVars, chan, phase, todo, taskState, latch, threads, left,
                 workerVars, fileVars>>
-----------------------------------------------------------------------------
Master == \/ Schedule \/ Check \/ Iterate \/ Assign \/ Await
          \/ StopServer \/ KillWorkers \/ Merge \/ MergeThrows

WorkerThread(th) == \/ Call(th) \/ Removed(th) \/ CountDown(th)
                    \/ WriteBack(th)

DoTask(job) == \/ MapOpen(job) \/ MapClose(job) \/ ReduceOpen(job)
               \/ ReduceThrows(job) \/ ReduceClose(job)

Next == \/ Master
        \/ Forward
        \/ \E w \in Workers : Register(w) \/ ForwardWrite(w)
        \/ \E th \in threads : WorkerThread(th) \/ GiveUp(th)
        \/ \E job \in jobs : DoTask(job)

Spec == Init /\ [][Next]_vars

\* Every thread runs on, every await returns, and every worker registers.
Fairness == /\ WF_vars(Master) /\ WF_vars(Forward)
            /\ \A w \in Workers : /\ WF_vars(Register(w))
                                  /\ WF_vars(ForwardWrite(w))
            /\ WF_vars(\E th \in threads : WorkerThread(th))
            /\ WF_vars(\E job \in jobs : DoTask(job))

FairSpec == Spec /\ Fairness
-----------------------------------------------------------------------------
TypeOK ==
  /\ workers \in Seq(Workers) /\ forwarded \in 0 .. Len(workers)
  /\ writers \subseteq Workers /\ chan \in Seq(Workers) /\ serving \in BOOLEAN
  /\ pc \in {"schedule", "check", "iterate", "assign", "stop", "kill", "merge",
             "done", "crashed"}
  /\ phase \in Phases
  /\ taskState \subseteq Tasks(phase) /\ todo \subseteq Tasks(phase)
  /\ latch \in [Phases -> Nat]
  /\ threads \subseteq Thread /\ jobs \subseteq DoTaskCall
  /\ left \in [Workers -> Nat \cup {-1}] /\ concurrent \in [Workers -> Nat]
  /\ inter \in [Tasks("map") -> FileState]
  /\ result \in [Tasks("reduce") -> FileState]
  /\ merged \subseteq Tasks("reduce")

\* "schedule() should never issue more than one RPC at a time to a given worker"
\* (Worker.java:96), whatever is slow, lost or retried: no two threads have the
\* same worker, and a call finds its worker with no task to its count.
OneRpcPerWorker ==
  /\ \A a, b \in threads : a.worker = b.worker => a = b
  /\ \A th \in threads : th.at = "call" => concurrent[th.worker] = 0

\* A map task leaves taskState only when some worker has begun its output, so
\* that no reducer misses one of its files (a slow mapper may be rewriting it).
MapOutputExists ==
  \A t \in Tasks("map") :
    phase = "reduce" \/ (pc # "schedule" /\ t \notin taskState)
      => inter[t] # "none"

\* What holds however long calls take: workers and map tasks are handled once at a time.
SlowCallsAreSafe == OneRpcPerWorker /\ MapOutputExists

\* schedule returns from the reduce phase only when every reduce task has
\* written its result (Scheduler.java:58).
ScheduleCompletes ==
  pc \in {"stop", "kill", "merge", "done"}
    => \A t \in Tasks("reduce") : result[t] = "full"

\* Master.run does what MapReduceJob promises: phases in order, each complete.
Job == INSTANCE MapReduceJob
  WITH stage <- IF pc = "stop" \/ ~serving THEN "over" ELSE phase,
       done  <- [map    |-> {t \in Tasks("map") : inter[t] = "full"},
                 reduce |-> {t \in Tasks("reduce") : result[t] = "full"}]

ImplementsJob == Job!Spec

\* mWait returns: the job ends as long as one worker has no call limit.
JobFinishes == <>(pc = "done")
=============================================================================
