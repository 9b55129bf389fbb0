-------------------------- MODULE MapReduceProofs --------------------------
(***************************************************************************)
(* Machine-checked proofs about MapReduce, for every number of map and     *)
(* reduce tasks, every set of workers and every limit on their calls.      *)
(***************************************************************************)
EXTENDS MapReduce, FiniteSetTheorems, WellFoundedInduction, TLAPS

Once(s) == \A i, j \in 1 .. Len(s) : s[i] = s[j] => i = j
Forwarded == {workers[i] : i \in 1 .. forwarded}
Waiting == writers \cup Range(chan)
Carried == {th.worker : th \in threads}

\* A worker that has registered is in one place at most: not yet forwarded, with a
\* thread that writes it to the channel, in the channel, or with one thread.  One
\* whose call failed is in none.
HandedOnce ==
  /\ Once(workers) /\ Once(chan)
  /\ writers \cap Range(chan) = {} /\ Waiting \cap Carried = {}
  /\ Waiting \cup Carried \subseteq Forwarded
  /\ \A a, b \in threads : a.worker = b.worker => a = b

\* A worker at hand counts no task.  One that a thread waits for counts the thread's.
CountsAreExact ==
  /\ \A w \in Workers : w \notin Forwarded \/ w \in Waiting => concurrent[w] = 0
  /\ \A th \in threads : th.at # "wait" => concurrent[th.worker] = 0
  /\ \A th \in threads : th.at = "wait" =>
       concurrent[th.worker] = 1 /\ \E job \in jobs : th = Caller(job)
  /\ \A job \in jobs : concurrent[job.worker] > 0
  /\ \A a, b \in jobs : a.worker = b.worker => a = b

\* A thread or a call is about a task of its phase, and the reduce phase does not begin
\* before the master is in it.
TasksOfPhase ==
  /\ \A x \in threads \cup jobs : x.task \in Tasks(x.phase)
  /\ \A th \in threads : th.phase = "reduce" => phase = "reduce"
  /\ pc \in {"schedule", "check", "iterate"} => todo = {}

\* MapOutputExists, and what a thread knows that is about to strike its task.
OutputBegun ==
  /\ MapOutputExists
  /\ \A th \in threads :
       th.phase = "map" /\ th.at \notin {"call", "wait"} => inter[th.task] # "none"
  /\ \A job \in jobs : job.phase = "map" /\ job.at = "write" => inter[job.task] # "none"

SlowInv == TypeOK /\ HandedOnce /\ CountsAreExact /\ TasksOfPhase /\ OutputBegun

\* With no call given up, a thread that has not struck its task is one of the phase
\* and the only one with it, a call in a worker has its thread waiting, and the latch
\* counts the tasks still to be struck or counted.
Outstanding(th) == th.at \in {"call", "wait", "remove"}
Counting == {th \in threads : th.at = "count"}

InStep ==
  /\ \A th \in threads : th.at # "write" =>
       /\ th.phase = phase /\ pc \in {"assign", "crashed"} /\ serving /\ th.task \notin todo
       /\ th.task \in taskState <=> Outstanding(th)
  /\ \A a, b \in threads : a.at # "write" /\ b.at # "write" /\ a.task = b.task => a = b
  /\ \A job \in jobs : Caller(job) \in threads
  /\ todo \subseteq taskState

LatchCounts ==
  /\ IsFiniteSet(threads)
  /\ pc # "schedule" => latch[phase] = Cardinality(taskState) + Cardinality(Counting)

Written(p) == IF p = "map" THEN {t \in Tasks("map") : inter[t] = "full"}
              ELSE {t \in Tasks("reduce") : result[t] = "full"}

\* A task that the master takes for done is done, and stays so.
DoneIsWritten ==
  /\ phase = "reduce" => Written("map") = Tasks("map")
  /\ pc # "schedule" => Tasks(phase) \ taskState \subseteq Written(phase)
  /\ pc = "schedule" /\ phase = "reduce" => taskState = {}
  /\ \A th \in threads : th.at = "remove" => th.task \in Written(th.phase)
  /\ pc \in {"stop", "kill", "merge", "done"} \/ ~serving =>
       phase = "reduce" /\ taskState = {} /\ pc # "schedule"
  /\ ~serving => pc \in {"kill", "merge", "done", "crashed"}

JobInv == SlowInv /\ InStep /\ LatchCounts /\ DoneIsWritten
-----------------------------------------------------------------------------
(* Sequences without repetition, and the least element of a set.            *)

\* Appending adds one element, and taking the head off removes one.
LEMMA AppendOnce ==
  ASSUME NEW S, NEW s \in Seq(S), NEW x \in S
  PROVE  /\ Append(s, x) \in Seq(S) /\ Len(Append(s, x)) = Len(s) + 1
         /\ Range(Append(s, x)) = Range(s) \cup {x}
         /\ \A i \in 1 .. Len(s) : Append(s, x)[i] = s[i]
         /\ Once(s) /\ x \notin Range(s) => Once(Append(s, x))
<1> DEFINE t == Append(s, x)
<1>1. /\ t \in Seq(S) /\ Len(t) = Len(s) + 1 /\ t[Len(s) + 1] = x
      /\ \A i \in 1 .. Len(s) : t[i] = s[i]
  OBVIOUS
<1>2. DOMAIN t = 1 .. Len(s) + 1 /\ DOMAIN s = 1 .. Len(s) /\ Len(s) \in Nat
  BY <1>1
<1> HIDE DEF t
<1>3. Range(t) = Range(s) \cup {x}
  BY <1>1, <1>2 DEF Range
<1>4. ASSUME Once(s), x \notin Range(s) PROVE Once(t)
  <2>1. \A i \in 1 .. Len(s) : s[i] # x
    BY <1>2, <1>4 DEF Range
  <2> QED
    BY <1>1, <1>2, <1>4, <2>1 DEF Once
<1> QED
  BY <1>1, <1>3, <1>4 DEF t

LEMMA TailOnce ==
  ASSUME NEW S, NEW s \in Seq(S), s # <<>>, Once(s)
  PROVE  /\ Tail(s) \in Seq(S) /\ Once(Tail(s))
         /\ Head(s) \in Range(s) /\ Head(s) \in S
         /\ Range(Tail(s)) = Range(s) \ {Head(s)}
<1> DEFINE t == Tail(s)
<1>1. /\ t \in Seq(S) /\ Len(t) = Len(s) - 1 /\ Len(s) \in Nat \ {0}
      /\ \A i \in 1 .. Len(t) : t[i] = s[i + 1]
      /\ Head(s) = s[1] /\ Head(s) \in S
  OBVIOUS
<1>2. DOMAIN t = 1 .. Len(t) /\ DOMAIN s = 1 .. Len(s)
  BY <1>1
<1> HIDE DEF t
<1>3. Once(t)
  <2>1. SUFFICES ASSUME NEW i \in 1 .. Len(t), NEW j \in 1 .. Len(t), t[i] = t[j] PROVE i = j
    BY DEF Once
  <2>2. s[i + 1] = s[j + 1] /\ i + 1 \in 1 .. Len(s) /\ j + 1 \in 1 .. Len(s)
    BY <1>1, <2>1
  <2>3. i + 1 = j + 1
    BY <2>2 DEF Once
  <2> QED
    BY <2>1, <2>3
<1>4. Range(t) \subseteq Range(s) \ {Head(s)}
  <2>1. SUFFICES ASSUME NEW i \in 1 .. Len(t) PROVE t[i] \in Range(s) \ {Head(s)}
    BY <1>2 DEF Range
  <2>2. t[i] = s[i + 1] /\ i + 1 \in 1 .. Len(s) /\ 1 \in 1 .. Len(s) /\ i + 1 # 1
    BY <1>1
  <2>3. s[i + 1] # s[1]
    BY <2>2 DEF Once
  <2> QED
    BY <1>1, <1>2, <2>2, <2>3 DEF Range
<1>5. Range(s) \ {Head(s)} \subseteq Range(t)
  <2>1. SUFFICES ASSUME NEW i \in 1 .. Len(s), s[i] # s[1] PROVE s[i] \in Range(t)
    BY <1>1, <1>2 DEF Range
  <2>2. i - 1 \in 1 .. Len(t) /\ t[i - 1] = s[i]
    BY <1>1, <2>1
  <2> QED
    BY <1>2, <2>2 DEF Range
<1>6. Head(s) \in Range(s)
  BY <1>1, <1>2 DEF Range
<1> QED
  BY <1>1, <1>3, <1>4, <1>5, <1>6 DEF t

LEMMA EmptyOnce == Once(<<>>) /\ Range(<<>>) = {}
BY DEF Once, Range

\* A set of numbers that is not empty has a least element, which Min picks.
LEMMA MinIsLeast ==
  ASSUME NEW S, S \subseteq Nat, S # {}
  PROVE  Min(S) \in S
<1>1. PICK x \in S : \A y \in S : ~ (<<y, x>> \in OpToRel(<, Nat))
  BY NatLessThanWellFounded, WFMin, Zenon
<1>2. \A y \in S : ~ (y < x)
  BY <1>1, Zenon DEF OpToRel
<1>3. \A y \in S : x <= y
  BY <1>2, x \in Nat
<1> QED
  BY <1>3 DEF Min

LEMMA TaskNumbers == \A p : Tasks(p) \subseteq Nat /\ IsFiniteSet(Tasks(p))
<1>1. NMap \in Nat /\ NReduce \in Nat
  BY MapReduceAssumption
<1>2. 0 .. NMap - 1 \subseteq Nat /\ IsFiniteSet(0 .. NMap - 1)
  BY <1>1, FS_Interval
<1>3. 0 .. NReduce - 1 \subseteq Nat /\ IsFiniteSet(0 .. NReduce - 1)
  BY <1>1, FS_Interval
<1> QED
  BY <1>2, <1>3 DEF Tasks

\* Threads and calls differ in where they are only.
LEMMA ThreadParts ==
  ASSUME NEW th \in Thread
  PROVE  /\ \A at \in {"call", "wait", "remove", "count", "write"} :
              /\ [th EXCEPT !.at = at] \in Thread
              /\ [th EXCEPT !.at = at].worker = th.worker
              /\ [th EXCEPT !.at = at].phase = th.phase
              /\ [th EXCEPT !.at = at].task = th.task
              /\ [th EXCEPT !.at = at].at = at
         /\ [th EXCEPT !.at = "run"] \in DoTaskCall
         /\ [th EXCEPT !.at = "run"].worker = th.worker
         /\ [th EXCEPT !.at = "run"].phase = th.phase
         /\ [th EXCEPT !.at = "run"].task = th.task
         /\ [th EXCEPT !.at = "run"].at = "run"
         /\ Caller([th EXCEPT !.at = "run"]) = [th EXCEPT !.at = "wait"]
BY DEF Thread, DoTaskCall, Caller

LEMMA MovedTo ==
  ASSUME NEW th \in Thread, NEW at \in {"call", "wait", "remove", "count", "write"},
         threads' = Moved(th, at)
  PROVE  \E next \in Thread :
           /\ next.worker = th.worker /\ next.phase = th.phase /\ next.task = th.task
           /\ next.at = at /\ threads' = (threads \ {th}) \cup {next}
<1> DEFINE n == [th EXCEPT !.at = at]
<1>1. /\ n \in Thread /\ n.worker = th.worker /\ n.phase = th.phase /\ n.task = th.task
      /\ n.at = at
  BY ThreadParts, ZenonT(40)
<1>2. threads' = (threads \ {th}) \cup {n}
  BY DEF Moved, Gone
<1> HIDE DEF n
<1> QED
  BY <1>1, <1>2

LEMMA JobParts ==
  ASSUME NEW job \in DoTaskCall
  PROVE  /\ Caller(job) \in Thread
         /\ Caller(job).worker = job.worker /\ Caller(job).phase = job.phase
         /\ Caller(job).task = job.task /\ Caller(job).at = "wait"
         /\ [job EXCEPT !.at = "write"] \in DoTaskCall
         /\ [job EXCEPT !.at = "write"].worker = job.worker
         /\ [job EXCEPT !.at = "write"].phase = job.phase
         /\ [job EXCEPT !.at = "write"].task = job.task
         /\ [job EXCEPT !.at = "write"].at = "write"
         /\ Caller([job EXCEPT !.at = "write"]) = Caller(job)
BY DEF Thread, DoTaskCall, Caller
-----------------------------------------------------------------------------
(* One step keeps SlowInv.                                                  *)

LEMMA SlowInvInit == Init => SlowInv
<1> SUFFICES ASSUME Init PROVE SlowInv
  OBVIOUS
<1>1. TypeOK
  BY MapReduceAssumption DEF Init, TypeOK, Phases, FileState, Tasks
<1>2. HandedOnce
  BY EmptyOnce DEF Init, HandedOnce, Waiting, Carried
<1>3. CountsAreExact
  BY DEF Init, CountsAreExact
<1>4. TasksOfPhase
  BY DEF Init, TasksOfPhase
<1>5. OutputBegun
  BY DEF Init, OutputBegun, MapOutputExists
<1> QED
  BY <1>1, <1>2, <1>3, <1>4, <1>5 DEF SlowInv

\* The master's thread, where it hands out no worker.
LEMMA MasterKeeps ==
  ASSUME SlowInv, Schedule \/ Check \/ Iterate \/ Await \/ StopServer \/ KillWorkers
                  \/ Merge \/ MergeThrows
  PROVE  SlowInv'
<1> USE DEF SlowInv
<1>1. TypeOK'
  <2>1. \A p : Cardinality(Tasks(p)) \in Nat
    BY TaskNumbers, FS_CardinalityType
  <2>2. CASE Schedule
    BY <2>1, <2>2, TaskNumbers DEF Schedule, TypeOK, regVars, workerVars, fileVars
  <2>3. CASE Check
    BY <2>3 DEF Check, TypeOK, TasksOfPhase, regVars, workerVars, fileVars, Phases
  <2>4. CASE Iterate \/ Await \/ StopServer \/ MergeThrows
    BY <2>4 DEF Iterate, Await, StopServer, MergeThrows, TypeOK, regVars, workerVars, fileVars
  <2>5. CASE KillWorkers
    BY <2>5 DEF KillWorkers, TypeOK, regVars, workerVars, fileVars
  <2>6. CASE Merge
    BY <2>6 DEF Merge, TypeOK, regVars, workerVars, fileVars
  <2> QED
    BY <2>2, <2>3, <2>4, <2>5, <2>6
<1>2. UNCHANGED <<workers, forwarded, writers, chan, threads, jobs, concurrent, inter>>
  BY DEF Schedule, Check, Iterate, Await, StopServer, KillWorkers, Merge, MergeThrows,
         regVars, workerVars, fileVars
<1>3. HandedOnce' /\ CountsAreExact'
  BY <1>2 DEF HandedOnce, CountsAreExact, Forwarded, Waiting, Carried
<1>4. TasksOfPhase'
  BY <1>2 DEF TasksOfPhase, Schedule, Check, Iterate, Await, StopServer, KillWorkers, Merge,
              MergeThrows
<1>5. MapOutputExists'
  <2>1. CASE Schedule
    BY <1>2, <2>1 DEF OutputBegun, MapOutputExists, Schedule, TypeOK, Phases
  <2>2. CASE Check
    BY <1>2, <2>2 DEF TypeOK, Phases, OutputBegun, MapOutputExists, Check
  <2>3. CASE ~ (Schedule \/ Check)
    <3>1. pc # "schedule" /\ phase' = phase /\ taskState' = taskState
      BY <2>3 DEF Iterate, Await, StopServer, KillWorkers, Merge, MergeThrows
    <3> QED
      BY <1>2, <3>1 DEF OutputBegun, MapOutputExists
  <2> QED
    BY <2>1, <2>2, <2>3
<1>6. OutputBegun'
  BY <1>2, <1>5 DEF OutputBegun
<1> QED
  BY <1>1, <1>3, <1>4, <1>6

LEMMA AssignKeeps == ASSUME SlowInv, Assign PROVE SlowInv'
<1> USE DEF SlowInv
<1> PICK i, w : i = Min(todo) /\ w = Head(chan)
  OBVIOUS
<1> DEFINE th == [worker |-> w, phase |-> phase, task |-> i, at |-> "call"]
<1>1. i \in todo /\ i \in Nat /\ i \in Tasks(phase)
  BY MinIsLeast, TaskNumbers DEF Assign, TypeOK
<1>2. /\ chan' \in Seq(Workers) /\ Once(chan') /\ w \in Workers
      /\ w \in Range(chan) /\ Range(chan') = Range(chan) \ {w}
  BY TailOnce DEF Assign, TypeOK, HandedOnce
<1>3. th \in Thread /\ th.worker = w /\ th.phase = phase /\ th.task = i /\ th.at = "call"
  BY <1>1, <1>2 DEF Thread, TypeOK
<1>4. \/ threads' = threads /\ todo' = todo /\ pc' = "crashed"
      \/ threads' = threads \cup {th} /\ todo' = todo \ {i} /\ pc' = pc
  BY DEF Assign
<1> HIDE DEF th
<1>5. /\ UNCHANGED <<workers, forwarded, writers, serving, phase, taskState, latch, left, jobs,
                     concurrent, inter, result, merged>>
      /\ pc = "assign"
  BY DEF Assign, regVars, workerVars, fileVars
<1>6. TypeOK'
  BY <1>1, <1>2, <1>3, <1>4, <1>5 DEF TypeOK
<1>7. HandedOnce'
  BY <1>2, <1>3, <1>4, <1>5 DEF HandedOnce, Waiting, Carried, Forwarded
<1>8. CountsAreExact'
  BY <1>2, <1>3, <1>4, <1>5 DEF CountsAreExact, Waiting, Forwarded
<1>9. TasksOfPhase'
  BY <1>1, <1>3, <1>4, <1>5 DEF TasksOfPhase
<1>10. OutputBegun'
  BY <1>3, <1>4, <1>5 DEF OutputBegun, MapOutputExists
<1> QED
  BY <1>6, <1>7, <1>8, <1>9, <1>10

LEMMA RegisterKeeps == ASSUME SlowInv, NEW w \in Workers, Register(w) PROVE SlowInv'
<1> USE DEF SlowInv
<1>1. /\ workers' \in Seq(Workers) /\ Len(workers') >= Len(workers) /\ Len(workers') \in Nat
      /\ \A i \in 1 .. Len(workers) : workers'[i] = workers[i]
      /\ Once(workers')
  <2>1. CASE serving
    <3>1. workers' = Append(workers, w) /\ w \notin Range(workers)
      BY <2>1 DEF Register
    <3> QED
      BY <3>1, AppendOnce DEF TypeOK, HandedOnce
  <2>2. CASE ~serving
    BY <2>2 DEF Register, TypeOK, HandedOnce
  <2> QED
    BY <2>1, <2>2
<1>2. /\ UNCHANGED <<forwarded, writers, serving, chan, pc, phase, todo, taskState, latch,
                     threads, jobs, concurrent, inter, result, merged>>
  BY DEF Register, masterVars, workerVars, fileVars
<1>3. left' \in [Workers -> Nat \cup {-1}]
  <2>1. left \in [Workers -> Nat \cup {-1}] /\ 0 \in Nat \cup {-1}
    BY DEF TypeOK
  <2>2. left' = left \/ left' = [left EXCEPT ![w] = 0]
    BY DEF Register
  <2> QED
    BY ONLY <2>1, <2>2
<1>4. forwarded \in 0 .. Len(workers') /\ Forwarded' = Forwarded
  <2>1. Len(workers) \in Nat /\ forwarded \in 0 .. Len(workers)
    BY DEF TypeOK
  <2>2. 1 .. forwarded \subseteq 1 .. Len(workers) /\ forwarded \in 0 .. Len(workers')
    BY <1>1, <2>1
  <2>3. \A i \in 1 .. forwarded : workers'[i] = workers[i]
    BY <1>1, <2>2
  <2> QED
    BY <1>2, <2>2, <2>3 DEF Forwarded
<1>5. TypeOK'
  BY <1>1, <1>2, <1>4, <1>3 DEF TypeOK
<1>6. HandedOnce' /\ CountsAreExact'
  BY <1>1, <1>2, <1>4 DEF HandedOnce, CountsAreExact, Waiting, Carried
<1>7. TasksOfPhase' /\ OutputBegun'
  BY <1>2 DEF TasksOfPhase, OutputBegun, MapOutputExists
<1> QED
  BY <1>5, <1>6, <1>7

LEMMA ForwardKeeps == ASSUME SlowInv, Forward PROVE SlowInv'
<1> USE DEF SlowInv
<1> PICK w : w = workers[forwarded + 1]
  OBVIOUS
<1>1. /\ UNCHANGED <<workers, serving, chan, pc, phase, todo, taskState, latch, threads, left,
                     jobs, concurrent, inter, result, merged>>
      /\ forwarded' = forwarded + 1 /\ forwarded' \in 1 .. Len(workers)
      /\ writers' = writers \cup {w}
  BY DEF Forward, TypeOK, masterVars, workerVars, fileVars
<1>2. w \in Workers
  BY <1>1 DEF TypeOK
<1>3. w \notin Forwarded
  BY <1>1 DEF TypeOK, HandedOnce, Once, Forwarded
<1>4. Forwarded' = Forwarded \cup {w}
  BY <1>1 DEF Forwarded, TypeOK
<1>5. TypeOK'
  BY <1>1, <1>2 DEF TypeOK
<1>6. HandedOnce'
  BY <1>1, <1>3, <1>4 DEF HandedOnce, Waiting, Carried
<1>7. CountsAreExact'
  BY <1>1, <1>2, <1>3, <1>4 DEF CountsAreExact, Waiting
<1>8. TasksOfPhase' /\ OutputBegun'
  BY <1>1 DEF TasksOfPhase, OutputBegun, MapOutputExists
<1> QED
  BY <1>5, <1>6, <1>7, <1>8

LEMMA ForwardWriteKeeps == ASSUME SlowInv, NEW w \in Workers, ForwardWrite(w) PROVE SlowInv'
<1> USE DEF SlowInv
<1>1. /\ UNCHANGED <<workers, forwarded, serving, pc, phase, todo, taskState, latch, threads,
                     left, jobs, concurrent, inter, result, merged>>
      /\ writers' = writers \ {w} /\ w \in writers
  BY DEF ForwardWrite, masterVars, workerVars, fileVars
<1>2. /\ chan' \in Seq(Workers) /\ Range(chan') = Range(chan) \cup {w} /\ Once(chan')
  BY <1>1, AppendOnce DEF ForwardWrite, TypeOK, HandedOnce
<1>3. TypeOK'
  BY <1>1, <1>2 DEF TypeOK
<1>4. HandedOnce'
  BY <1>1, <1>2 DEF HandedOnce, Waiting, Carried, Forwarded
<1>5. CountsAreExact'
  BY <1>1, <1>2 DEF CountsAreExact, Waiting, Forwarded
<1>6. TasksOfPhase' /\ OutputBegun'
  BY <1>1 DEF TasksOfPhase, OutputBegun, MapOutputExists
<1> QED
  BY <1>3, <1>4, <1>5, <1>6
-----------------------------------------------------------------------------
(* The threads and the calls keep SlowInv.                                  *)

\* What a call does: it ends its thread, or leaves it waiting for a task that the worker
\* then runs alone.
LEMMA CallStep ==
  ASSUME SlowInv, NEW th \in threads, Call(th)
  PROVE  \E next \in Thread, job \in DoTaskCall :
           /\ next.worker = th.worker /\ next.phase = th.phase /\ next.task = th.task
           /\ next.at = "wait"
           /\ job.worker = th.worker /\ job.phase = th.phase /\ job.task = th.task
           /\ job.at = "run" /\ Caller(job) = next
           /\ \/ /\ threads' = threads \ {th} /\ jobs' = jobs /\ concurrent' = concurrent
              \/ /\ threads' = (threads \ {th}) \cup {next} /\ jobs' = jobs \cup {job}
                 /\ concurrent' = [concurrent EXCEPT ![th.worker] = 1]
<1> PICK w : w = th.worker
  OBVIOUS
<1> DEFINE next == [th EXCEPT !.at = "wait"]
           job == [th EXCEPT !.at = "run"]
<1>1. th \in Thread
  BY DEF SlowInv, TypeOK
<1>2. concurrent[w] = 0
  BY DEF Call, CountsAreExact, SlowInv
<1> DEFINE Facts ==
      /\ next \in Thread /\ job \in DoTaskCall
      /\ next.worker = th.worker /\ next.phase = th.phase /\ next.task = th.task
      /\ next.at = "wait"
      /\ job.worker = th.worker /\ job.phase = th.phase /\ job.task = th.task
      /\ job.at = "run" /\ Caller(job) = next
<1>3. Facts
  BY <1>1, ThreadParts
<1>4. CASE left[w] # 0
  <2>1. concurrent' = [concurrent EXCEPT ![w] = @ + 1]
    BY <1>4 DEF Call
  <2>2. concurrent' = [concurrent EXCEPT ![w] = concurrent[w] + 1] /\ concurrent[w] + 1 = 1
    BY <1>2, <1>4, <2>1
  <2>3. threads' = Moved(th, "wait") /\ jobs' = jobs \cup {job}
    BY <1>2, <1>4 DEF Call
  <2>4. threads' = (threads \ {th}) \cup {next}
    BY <2>3 DEF Moved, Gone
  <2> HIDE DEF next, job
  <2> QED
    BY <1>3, <2>2, <2>3, <2>4
<1>5. CASE left[w] = 0
  <2>1. threads' = threads \ {th} /\ jobs' = jobs /\ concurrent' = concurrent
    BY <1>5 DEF Call, Gone
  <2> HIDE DEF next, job
  <2> QED
    BY <1>3, <2>1
<1> QED
  BY <1>4, <1>5

LEMMA CallKeeps == ASSUME SlowInv, NEW th \in threads, Call(th) PROVE SlowInv'
<1> USE DEF SlowInv
<1> PICK w : w = th.worker
  OBVIOUS
<1>1. th \in Thread /\ w \in Workers
  BY DEF TypeOK, Thread
<1>2. PICK next \in Thread, job \in DoTaskCall :
        /\ next.worker = w /\ next.phase = th.phase /\ next.task = th.task
        /\ next.at = "wait"
        /\ job.worker = w /\ job.phase = th.phase /\ job.task = th.task
        /\ job.at = "run" /\ Caller(job) = next
        /\ \/ /\ threads' = threads \ {th} /\ jobs' = jobs /\ concurrent' = concurrent
           \/ /\ threads' = (threads \ {th}) \cup {next} /\ jobs' = jobs \cup {job}
              /\ concurrent' = [concurrent EXCEPT ![w] = 1]
  BY CallStep
<1>3. /\ UNCHANGED <<workers, forwarded, writers, serving, chan, pc, phase, todo, taskState, latch,
                     inter, result, merged>>
      /\ th.at = "call"
  BY DEF Call, regVars, masterVars, fileVars
<1>4. concurrent[w] = 0 /\ w \notin Waiting /\ w \in Forwarded
  BY <1>3 DEF CountsAreExact, HandedOnce, Carried
<1>6. left' \in [Workers -> Nat \cup {-1}]
  <2>1. left \in [Workers -> Nat \cup {-1}]
    BY DEF TypeOK
  <2>2. left' = IF left[w] > 0 THEN [left EXCEPT ![w] = @ - 1] ELSE left
    BY DEF Call
  <2>3. left[w] > 0 => left[w] - 1 \in Nat
    BY <1>1, <2>1
  <2> QED
    BY ONLY <2>1, <2>2, <2>3
<1>5. concurrent \in [Workers -> Nat] /\ concurrent' \in [Workers -> Nat]
  <2>1. concurrent \in [Workers -> Nat]
    BY DEF TypeOK
  <2> QED
    BY ONLY <1>2, <2>1
<1>7. TypeOK'
  BY <1>2, <1>3, <1>5, <1>6 DEF TypeOK
<1>8. HandedOnce'
  BY <1>2, <1>3 DEF HandedOnce, Waiting, Carried, Forwarded
<1>9. \A j \in jobs : j.worker # w
  BY <1>4 DEF CountsAreExact
<1>10. \A j \in jobs : j.worker \in Workers
  BY DEF TypeOK, DoTaskCall
<1>11. \A t \in threads : t.worker \in Workers /\ (t # th => t.worker # w)
  BY DEF TypeOK, Thread, HandedOnce
<1>12. Forwarded' = Forwarded /\ Waiting' = Waiting
  BY <1>3 DEF Forwarded, Waiting
<1>13. CountsAreExact'
  <2>1. CASE threads' = threads \ {th} /\ jobs' = jobs /\ concurrent' = concurrent
    BY <1>12, <2>1 DEF CountsAreExact
  <2>2. CASE /\ threads' = (threads \ {th}) \cup {next} /\ jobs' = jobs \cup {job}
             /\ concurrent' = [concurrent EXCEPT ![w] = 1]
    <3>1. \A v \in Workers : concurrent'[v] = IF v = w THEN 1 ELSE concurrent[v]
      BY <1>5, <2>2
    <3>2. \A t \in threads' : IF t = next THEN t.worker = w /\ t.at = "wait"
                              ELSE t \in threads /\ concurrent'[t.worker] = concurrent[t.worker]
      BY <1>2, <1>11, <2>2, <3>1
    <3>3. \A j \in jobs' : IF j = job THEN concurrent'[j.worker] = 1
                           ELSE j \in jobs /\ concurrent'[j.worker] = concurrent[j.worker]
      BY <1>1, <1>2, <1>9, <1>10, <2>2, <3>1
    <3>4. \A v \in Workers : v \notin Forwarded \/ v \in Waiting => v # w
      BY <1>4
    <3>5. job \in jobs' /\ jobs \subseteq jobs' /\ concurrent'[w] = 1
      BY <1>1, <2>2, <3>1
    <3> QED
      BY <1>2, <1>9, <1>12, <3>1, <3>2, <3>3, <3>4, <3>5 DEF CountsAreExact
  <2> QED
    BY <1>2, <2>1, <2>2
<1>14. TasksOfPhase'
  BY <1>2, <1>3 DEF TasksOfPhase
<1>15. OutputBegun'
  BY <1>2, <1>3 DEF OutputBegun, MapOutputExists
<1> QED
  BY <1>7, <1>8, <1>13, <1>14, <1>15

LEMMA GiveUpKeeps == ASSUME SlowInv, NEW th \in threads, GiveUp(th) PROVE SlowInv'
<1> USE DEF SlowInv
<1>1. /\ UNCHANGED <<workers, forwarded, writers, serving, chan, pc, phase, todo, taskState, latch,
                     left, jobs, concurrent, inter, result, merged>>
      /\ threads' = threads \ {th}
  BY DEF GiveUp, Gone, regVars, masterVars, workerVars, fileVars
<1>2. TypeOK'
  BY <1>1 DEF TypeOK
<1>3. HandedOnce'
  BY <1>1 DEF HandedOnce, Waiting, Carried, Forwarded
<1>4. CountsAreExact'
  BY <1>1 DEF CountsAreExact, Waiting, Forwarded
<1>5. TasksOfPhase' /\ OutputBegun'
  BY <1>1 DEF TasksOfPhase, OutputBegun, MapOutputExists
<1> QED
  BY <1>2, <1>3, <1>4, <1>5

\* A thread moves on with its worker, its task and its phase.
LEMMA MovedKeeps ==
  ASSUME SlowInv, NEW th \in threads, NEW next \in Thread, th.at # "wait",
         next.worker = th.worker, next.phase = th.phase, next.task = th.task,
         next.at # "wait", threads' = (threads \ {th}) \cup {next},
         UNCHANGED <<workers, forwarded, writers, chan, pc, phase, todo, jobs, concurrent>>
  PROVE  HandedOnce' /\ CountsAreExact' /\ TasksOfPhase'
<1>1. HandedOnce'
  BY DEF SlowInv, HandedOnce, Waiting, Carried, Forwarded
<1>2. Forwarded' = Forwarded /\ Waiting' = Waiting
  BY DEF Forwarded, Waiting
<1>3. CountsAreExact'
  BY <1>2 DEF SlowInv, CountsAreExact
<1>4. TasksOfPhase'
  BY DEF SlowInv, TasksOfPhase
<1> QED
  BY <1>1, <1>3, <1>4

LEMMA RemovedKeeps == ASSUME SlowInv, NEW th \in threads, Removed(th) PROVE SlowInv'
<1> USE DEF SlowInv
<1>1. PICK next \in Thread :
        /\ next.worker = th.worker /\ next.phase = th.phase /\ next.task = th.task
        /\ next.at = "count" /\ threads' = (threads \ {th}) \cup {next}
  <2>1. th \in Thread /\ threads' = Moved(th, "count")
    BY DEF Removed, TypeOK
  <2> QED
    BY <2>1, MovedTo
<1>2. /\ UNCHANGED <<workers, forwarded, writers, serving, chan, pc, phase, todo, latch, left,
                     jobs, concurrent, inter, result, merged>>
      /\ taskState' = taskState \ {th.task} /\ th.at = "remove"
  BY DEF Removed, regVars, masterVars, workerVars, fileVars
<1>3. HandedOnce' /\ CountsAreExact' /\ TasksOfPhase'
  BY <1>1, <1>2, MovedKeeps
<1>4. TypeOK'
  BY <1>1, <1>2 DEF TypeOK
<1>5. th.phase \in Phases /\ (th.phase = "reduce" => phase = "reduce")
  BY DEF TypeOK, Thread, TasksOfPhase
<1>6. th.phase = "map" => inter[th.task] # "none"
  BY <1>2 DEF OutputBegun
<1>7. MapOutputExists'
  BY <1>2, <1>5, <1>6 DEF OutputBegun, MapOutputExists, Phases
<1>8. OutputBegun'
  BY <1>1, <1>2, <1>6, <1>7 DEF OutputBegun
<1> QED
  BY <1>3, <1>4, <1>8

LEMMA CountDownKeeps == ASSUME SlowInv, NEW th \in threads, CountDown(th) PROVE SlowInv'
<1> USE DEF SlowInv
<1>1. PICK next \in Thread :
        /\ next.worker = th.worker /\ next.phase = th.phase /\ next.task = th.task
        /\ next.at = "write" /\ threads' = (threads \ {th}) \cup {next}
  <2>1. th \in Thread /\ threads' = Moved(th, "write")
    BY DEF CountDown, TypeOK
  <2> QED
    BY <2>1, MovedTo
<1>2. /\ UNCHANGED <<workers, forwarded, writers, serving, chan, pc, phase, todo, taskState, left,
                     jobs, concurrent, inter, result, merged>>
      /\ th.at = "count"
  BY DEF CountDown, regVars, masterVars, workerVars, fileVars
<1>3. HandedOnce' /\ CountsAreExact' /\ TasksOfPhase'
  BY <1>1, <1>2, MovedKeeps
<1>4. latch' \in [Phases -> Nat]
  <2>1. latch \in [Phases -> Nat] /\ th.phase \in Phases
    BY DEF TypeOK, Thread
  <2>2. latch' = [latch EXCEPT ![th.phase] = IF @ > 0 THEN @ - 1 ELSE 0]
    BY DEF CountDown
  <2> QED
    BY ONLY <2>1, <2>2
<1>5. TypeOK'
  BY <1>1, <1>2, <1>4 DEF TypeOK
<1>6. OutputBegun'
  BY <1>1, <1>2 DEF OutputBegun, MapOutputExists
<1> QED
  BY <1>3, <1>5, <1>6

\* The worker goes back to the channel with nothing to its count.
LEMMA WriteBackKeeps == ASSUME SlowInv, NEW th \in threads, WriteBack(th) PROVE SlowInv'
<1> USE DEF SlowInv
<1> PICK w : w = th.worker
  OBVIOUS
<1>1. /\ UNCHANGED <<workers, forwarded, writers, serving, pc, phase, todo, taskState, latch, left,
                     jobs, concurrent, inter, result, merged>>
      /\ threads' = threads \ {th} /\ th.at = "write"
  BY DEF WriteBack, Gone, regVars, masterVars, workerVars, fileVars
<1>2. w \in Workers /\ w \in Carried
  BY DEF TypeOK, Thread, Carried
<1>3. /\ chan' \in Seq(Workers) /\ Range(chan') = Range(chan) \cup {w} /\ Once(chan')
  <2>1. w \notin Range(chan) /\ Once(chan) /\ chan \in Seq(Workers) /\ chan' = Append(chan, w)
    BY <1>2 DEF HandedOnce, Waiting, TypeOK, WriteBack
  <2> QED
    BY <1>2, <2>1, AppendOnce
<1>4. TypeOK'
  BY <1>1, <1>3 DEF TypeOK
<1>5. Forwarded' = Forwarded /\ Waiting' = Waiting \cup {w} /\ Carried' \subseteq Carried \ {w}
  BY <1>1, <1>3 DEF Forwarded, Waiting, Carried, HandedOnce
<1>6. HandedOnce'
  BY <1>1, <1>2, <1>3, <1>5 DEF HandedOnce, Waiting
<1>7. concurrent[w] = 0
  BY <1>1 DEF CountsAreExact
<1>8. CountsAreExact'
  BY <1>1, <1>5, <1>7 DEF CountsAreExact
<1>9. TasksOfPhase' /\ OutputBegun'
  BY <1>1 DEF TasksOfPhase, OutputBegun, MapOutputExists
<1> QED
  BY <1>4, <1>6, <1>8, <1>9

-----------------------------------------------------------------------------
(* The calls in the workers keep SlowInv.                                   *)

\* What an answer does: the call is over, and its thread goes on, or has ended.
LEMMA AnswerKeeps ==
  ASSUME SlowInv, NEW job \in jobs, Answer(job),
         UNCHANGED <<workers, forwarded, writers, chan, pc, phase, todo>>
  PROVE  /\ threads' \subseteq Thread /\ jobs' \subseteq jobs /\ concurrent' \in [Workers -> Nat]
         /\ HandedOnce' /\ CountsAreExact' /\ TasksOfPhase'
         /\ \A th \in threads' :
              \/ th \in threads
              \/ th.phase = job.phase /\ th.task = job.task /\ Caller(job) \in threads
                 /\ th.at = "remove"
<1> USE DEF SlowInv
<1> PICK w : w = job.worker
  OBVIOUS
<1>1. job \in DoTaskCall /\ w \in Workers
  BY DEF TypeOK, DoTaskCall
<1>2. PICK th : th = Caller(job)
  OBVIOUS
<1>3. /\ th \in Thread /\ th.worker = w /\ th.phase = job.phase /\ th.task = job.task
      /\ th.at = "wait"
  BY <1>1, <1>2, JobParts
<1>4. PICK next \in Thread :
        /\ next.worker = w /\ next.phase = job.phase /\ next.task = job.task
        /\ next.at = "remove"
        /\ \/ threads' = threads \ {th}
           \/ th \in threads /\ threads' = (threads \ {th}) \cup {next}
  <2>1. PICK next \in Thread :
          /\ next.worker = w /\ next.phase = job.phase /\ next.task = job.task
          /\ next.at = "remove" /\ next = [th EXCEPT !.at = "remove"]
    <3> DEFINE n == [th EXCEPT !.at = "remove"]
    <3>1. /\ n \in Thread /\ n.worker = th.worker /\ n.phase = th.phase /\ n.task = th.task
          /\ n.at = "remove"
      BY <1>3, ThreadParts
    <3> HIDE DEF n
    <3>2. /\ n \in Thread /\ n.worker = w /\ n.phase = job.phase /\ n.task = job.task
          /\ n.at = "remove"
      BY <1>3, <3>1
    <3> QED
      BY <3>2 DEF n
  <2>2. \/ threads' = threads \ {th}
        \/ th \in threads /\ threads' = (threads \ {th}) \cup {next}
    BY <1>2, <2>1 DEF Answer, Moved, Gone
  <2> QED
    BY <2>1, <2>2
<1>5. jobs' = jobs \ {job} /\ concurrent' = [concurrent EXCEPT ![w] = @ - 1]
  BY DEF Answer
<1>6. concurrent \in [Workers -> Nat] /\ concurrent[w] > 0
  BY DEF TypeOK, CountsAreExact
<1>7. /\ concurrent' \in [Workers -> Nat]
      /\ \A v \in Workers : concurrent'[v] = IF v = w THEN concurrent[w] - 1 ELSE concurrent[v]
  BY ONLY <1>1, <1>5, <1>6
<1>8. Forwarded' = Forwarded /\ Waiting' = Waiting
  BY DEF Forwarded, Waiting
<1>9. HandedOnce'
  BY <1>3, <1>4, <1>8 DEF HandedOnce, Waiting, Carried
<1>10. \A j \in jobs' : j \in jobs /\ j.worker # w /\ j.worker \in Workers
  BY <1>5 DEF CountsAreExact, TypeOK, DoTaskCall
<1>11. \A t \in threads : t.at = "wait" /\ t.worker = w => t = th
  <2>1. SUFFICES ASSUME NEW t \in threads, t.at = "wait", t.worker = w PROVE t = th
    OBVIOUS
  <2>2. PICK j \in jobs : t = Caller(j)
    BY <2>1 DEF CountsAreExact
  <2>3. j.worker = w
    BY <2>1, <2>2, JobParts DEF TypeOK
  <2> QED
    BY <1>2, <2>2, <2>3 DEF CountsAreExact
<1>12. \A t \in threads : t.worker = w => t = th
  <2>1. SUFFICES ASSUME NEW t \in threads, t.worker = w, t.at # "wait" PROVE FALSE
    BY <1>11
  <2> QED
    BY <1>6, <2>1 DEF CountsAreExact
<1>13. CountsAreExact'
  <2>1. \A v \in Workers : v \notin Forwarded' \/ v \in Waiting' => concurrent'[v] = 0
    BY <1>6, <1>7, <1>8 DEF CountsAreExact
  <2>2. \A t \in threads' : (t \in threads /\ t.worker # w) \/ (t = next /\ th \in threads)
    BY <1>4, <1>12
  <2>3. \A t \in threads : t.worker \in Workers
    BY DEF TypeOK, Thread
  <2>4. th \in threads => concurrent[w] = 1
    BY <1>3 DEF CountsAreExact
  <2>5. \A t \in threads' : t.at # "wait" => concurrent'[t.worker] = 0
    BY <1>1, <1>4, <1>7, <2>2, <2>3, <2>4 DEF CountsAreExact
  <2>6. \A t \in threads' : t.at = "wait" =>
          concurrent'[t.worker] = 1 /\ \E j \in jobs' : t = Caller(j)
    <3>1. SUFFICES ASSUME NEW t \in threads, t.at = "wait", t.worker # w
                   PROVE  concurrent'[t.worker] = 1 /\ \E j \in jobs' : t = Caller(j)
      BY <1>4, <2>2
    <3>2. PICK j \in jobs : t = Caller(j)
      BY <3>1 DEF CountsAreExact
    <3>3. j # job
      BY <1>2, <1>3, <3>1, <3>2
    <3> QED
      BY <1>5, <1>7, <2>3, <3>1, <3>2, <3>3 DEF CountsAreExact
  <2>7. \A j \in jobs' : concurrent'[j.worker] > 0
    BY <1>7, <1>10 DEF CountsAreExact
  <2>8. \A a, b \in jobs' : a.worker = b.worker => a = b
    BY <1>10 DEF CountsAreExact
  <2> QED
    BY <2>1, <2>5, <2>6, <2>7, <2>8 DEF CountsAreExact
<1>14. TasksOfPhase'
  BY <1>3, <1>4, <1>5 DEF TasksOfPhase
<1> QED
  BY <1>2, <1>4, <1>5, <1>7, <1>9, <1>13, <1>14 DEF TypeOK

\* What opening a task's output does to the call.
LEMMA OpenKeeps ==
  ASSUME SlowInv, NEW job \in jobs, NEW next \in DoTaskCall, next.worker = job.worker,
         next.phase = job.phase, next.task = job.task, Caller(next) = Caller(job),
         jobs' = (jobs \ {job}) \cup {next},
         UNCHANGED <<workers, forwarded, writers, chan, pc, phase, todo, threads, concurrent>>
  PROVE  HandedOnce' /\ CountsAreExact' /\ TasksOfPhase'
<1>1. HandedOnce'
  BY DEF SlowInv, HandedOnce, Waiting, Carried, Forwarded
<1>2. Forwarded' = Forwarded /\ Waiting' = Waiting
  BY DEF Forwarded, Waiting
<1>3. \A th \in threads : \A j \in jobs : th = Caller(j) => \E k \in jobs' : th = Caller(k)
  OBVIOUS
<1>4. CountsAreExact'
  BY <1>2, <1>3 DEF SlowInv, CountsAreExact
<1>5. TasksOfPhase'
  BY DEF SlowInv, TasksOfPhase
<1> QED
  BY <1>1, <1>4, <1>5

LEMMA MapOpenKeeps == ASSUME SlowInv, NEW job \in jobs, MapOpen(job) PROVE SlowInv'
<1> USE DEF SlowInv
<1>1. PICK next \in DoTaskCall :
        /\ next.worker = job.worker /\ next.phase = job.phase /\ next.task = job.task
        /\ next.at = "write" /\ Caller(next) = Caller(job)
        /\ jobs' = (jobs \ {job}) \cup {next}
  BY JobParts DEF MapOpen, TypeOK
<1>2. /\ UNCHANGED <<workers, forwarded, writers, serving, chan, pc, phase, todo, taskState, latch,
                     threads, left, concurrent, result, merged>>
      /\ inter' = [inter EXCEPT ![job.task] = "partial"] /\ job.phase = "map"
  BY DEF MapOpen, regVars, masterVars
<1>3. HandedOnce' /\ CountsAreExact' /\ TasksOfPhase'
  BY <1>1, <1>2, OpenKeeps
<1>4. TypeOK'
  BY <1>1, <1>2 DEF TypeOK, FileState
<1>5. job.task \in Tasks("map") /\ inter \in [Tasks("map") -> FileState]
  BY <1>2 DEF TasksOfPhase, TypeOK
<1>6. \A t \in Tasks("map") : inter'[t] = IF t = job.task THEN "partial" ELSE inter[t]
  BY <1>2, <1>5
<1>7. \A x \in threads \cup jobs' : x.phase = "map" => x.task \in Tasks("map")
  BY <1>2, <1>3 DEF TasksOfPhase
<1>8. OutputBegun'
  BY <1>1, <1>2, <1>5, <1>6, <1>7 DEF OutputBegun, MapOutputExists
<1> QED
  BY <1>3, <1>4, <1>8

LEMMA ReduceOpenKeeps == ASSUME SlowInv, NEW job \in jobs, ReduceOpen(job) PROVE SlowInv'
<1> USE DEF SlowInv
<1>1. PICK next \in DoTaskCall :
        /\ next.worker = job.worker /\ next.phase = job.phase /\ next.task = job.task
        /\ next.at = "write" /\ Caller(next) = Caller(job)
        /\ jobs' = (jobs \ {job}) \cup {next}
  BY JobParts DEF ReduceOpen, TypeOK
<1>2. /\ UNCHANGED <<workers, forwarded, writers, serving, chan, pc, phase, todo, taskState, latch,
                     threads, left, concurrent, inter, merged>>
      /\ result' = [result EXCEPT ![job.task] = "partial"] /\ job.phase = "reduce"
  BY DEF ReduceOpen, regVars, masterVars
<1>3. HandedOnce' /\ CountsAreExact' /\ TasksOfPhase'
  BY <1>1, <1>2, OpenKeeps
<1>4. TypeOK'
  BY <1>1, <1>2 DEF TypeOK, FileState
<1>5. OutputBegun'
  BY <1>1, <1>2 DEF OutputBegun, MapOutputExists
<1> QED
  BY <1>3, <1>4, <1>5

LEMMA MapCloseKeeps == ASSUME SlowInv, NEW job \in jobs, MapClose(job) PROVE SlowInv'
<1> USE DEF SlowInv
<1>1. /\ UNCHANGED <<workers, forwarded, writers, serving, chan, pc, phase, todo, taskState, latch,
                     left, result, merged>>
      /\ inter' = [inter EXCEPT ![job.task] = "full"] /\ job.phase = "map" /\ Answer(job)
  BY DEF MapClose, regVars, masterVars
<1>2. /\ threads' \subseteq Thread /\ jobs' \subseteq jobs /\ concurrent' \in [Workers -> Nat]
      /\ HandedOnce' /\ CountsAreExact' /\ TasksOfPhase'
      /\ \A th \in threads' :
           \/ th \in threads
           \/ th.phase = job.phase /\ th.task = job.task /\ th.at = "remove"
  BY <1>1, AnswerKeeps
<1>3. TypeOK'
  BY <1>1, <1>2 DEF TypeOK, FileState
<1>4. job.task \in Tasks("map") /\ inter \in [Tasks("map") -> FileState]
  BY <1>1 DEF TasksOfPhase, TypeOK
<1>5. \A t \in Tasks("map") : inter'[t] = IF t = job.task THEN "full" ELSE inter[t]
  BY <1>1, <1>4
<1>6. \A x \in threads' \cup jobs' : x.phase = "map" => x.task \in Tasks("map")
  BY <1>2 DEF TasksOfPhase
<1>7. OutputBegun'
  BY <1>1, <1>2, <1>4, <1>5, <1>6 DEF OutputBegun, MapOutputExists
<1> QED
  BY <1>2, <1>3, <1>7

LEMMA ReduceCloseKeeps == ASSUME SlowInv, NEW job \in jobs, ReduceClose(job) PROVE SlowInv'
<1> USE DEF SlowInv
<1>1. /\ UNCHANGED <<workers, forwarded, writers, serving, chan, pc, phase, todo, taskState, latch,
                     left, inter, merged>>
      /\ result' = [result EXCEPT ![job.task] = "full"] /\ job.phase = "reduce" /\ Answer(job)
  BY DEF ReduceClose, regVars, masterVars
<1>2. /\ threads' \subseteq Thread /\ jobs' \subseteq jobs /\ concurrent' \in [Workers -> Nat]
      /\ HandedOnce' /\ CountsAreExact' /\ TasksOfPhase'
      /\ \A th \in threads' :
           \/ th \in threads
           \/ th.phase = job.phase /\ th.task = job.task /\ th.at = "remove"
  BY <1>1, AnswerKeeps
<1>3. TypeOK'
  BY <1>1, <1>2 DEF TypeOK, FileState
<1>4. OutputBegun'
  BY <1>1, <1>2 DEF OutputBegun, MapOutputExists
<1> QED
  BY <1>2, <1>3, <1>4

\* The worker keeps its count, but no thread will give it back.
LEMMA ReduceThrowsKeeps == ASSUME SlowInv, NEW job \in jobs, ReduceThrows(job) PROVE SlowInv'
<1> USE DEF SlowInv
<1>1. /\ UNCHANGED <<workers, forwarded, writers, serving, chan, pc, phase, todo, taskState, latch,
                     left, concurrent, inter, result, merged>>
      /\ jobs' = jobs \ {job} /\ threads' = threads \ {Caller(job)}
  BY DEF ReduceThrows, Throw, Gone, regVars, masterVars, fileVars
<1>2. TypeOK'
  BY <1>1 DEF TypeOK
<1>3. HandedOnce'
  BY <1>1 DEF HandedOnce, Waiting, Carried, Forwarded
<1>4. \A t \in threads' : \A j \in jobs : t = Caller(j) => j \in jobs'
  BY <1>1
<1>5. Forwarded' = Forwarded /\ Waiting' = Waiting
  BY <1>1 DEF Forwarded, Waiting
<1>6. CountsAreExact'
  BY <1>1, <1>4, <1>5 DEF CountsAreExact
<1>7. TasksOfPhase' /\ OutputBegun'
  BY <1>1 DEF TasksOfPhase, OutputBegun, MapOutputExists
<1> QED
  BY <1>2, <1>3, <1>6, <1>7

LEMMA SlowInvStep == SlowInv /\ [Next]_vars => SlowInv'
<1> SUFFICES ASSUME SlowInv, [Next]_vars PROVE SlowInv'
  OBVIOUS
<1>1. CASE Master
  BY <1>1, MasterKeeps, AssignKeeps DEF Master
<1>2. CASE Forward
  BY <1>2, ForwardKeeps
<1>3. ASSUME NEW w \in Workers, Register(w) \/ ForwardWrite(w) PROVE SlowInv'
  BY <1>3, RegisterKeeps, ForwardWriteKeeps
<1>4. ASSUME NEW th \in threads, WorkerThread(th) \/ GiveUp(th) PROVE SlowInv'
  BY <1>4, CallKeeps, RemovedKeeps, CountDownKeeps, WriteBackKeeps, GiveUpKeeps DEF WorkerThread
<1>5. ASSUME NEW job \in jobs, DoTask(job) PROVE SlowInv'
  BY <1>5, MapOpenKeeps, MapCloseKeeps, ReduceOpenKeeps, ReduceThrowsKeeps, ReduceCloseKeeps
  DEF DoTask
<1>6. CASE UNCHANGED vars
  <2>1. UNCHANGED <<workers, forwarded, writers, serving, chan, pc, phase, todo, taskState, latch,
                    threads, left, jobs, concurrent, inter, result, merged>>
    BY <1>6 DEF vars, regVars, masterVars, workerVars, fileVars
  <2>2. TypeOK'
    BY <2>1 DEF SlowInv, TypeOK
  <2>3. HandedOnce' /\ CountsAreExact'
    BY <2>1 DEF SlowInv, HandedOnce, CountsAreExact, Waiting, Carried, Forwarded
  <2>4. TasksOfPhase' /\ OutputBegun'
    BY <2>1 DEF SlowInv, TasksOfPhase, OutputBegun, MapOutputExists
  <2> QED
    BY <2>2, <2>3, <2>4 DEF SlowInv
<1> QED
  BY <1>1, <1>2, <1>3, <1>4, <1>5, <1>6 DEF Next

LEMMA SlowInvariance == Spec => []SlowInv
<1> QED
  BY SlowInvInit, SlowInvStep, PTL DEF Spec

\* The variables of the master, its threads and the workers keep their types; a worker
\* never counts fewer than no tasks.
THEOREM TypeCorrect == Spec => []TypeOK
<1>1. SlowInv => TypeOK
  BY DEF SlowInv
<1> QED
  BY <1>1, SlowInvariance, PTL

\* However slow, lost or retried its calls are: the master never sends a worker a second
\* task while one runs there, and takes no map task for done that nobody has begun.
THEOREM SlowIsSafe == Spec => []SlowCallsAreSafe
<1>1. SlowInv => SlowCallsAreSafe
  BY DEF SlowInv, SlowCallsAreSafe, OneRpcPerWorker, HandedOnce, CountsAreExact, OutputBegun
<1> QED
  BY <1>1, SlowInvariance, PTL
-----------------------------------------------------------------------------
(* With no call given up: one step keeps JobInv, and is one of MapReduceJob *)
(* or leaves its stage and its tasks alone.                                 *)

LEMMA Counted ==
  ASSUME JobInv
  PROVE  /\ Cardinality(taskState) \in Nat /\ Cardinality(Counting) \in Nat
         /\ IsFiniteSet(taskState) /\ IsFiniteSet(Counting)
         /\ Cardinality(taskState) = 0 <=> taskState = {}
         /\ Cardinality(Counting) = 0 <=> Counting = {}
<1>1. IsFiniteSet(taskState)
  BY TaskNumbers, FS_Subset DEF JobInv, SlowInv, TypeOK
<1>2. IsFiniteSet(Counting)
  <2>1. Counting \subseteq threads /\ IsFiniteSet(threads)
    BY DEF Counting, JobInv, LatchCounts
  <2> QED
    BY <2>1, FS_Subset
<1> QED
  BY <1>1, <1>2, FS_CardinalityType, FS_EmptySet

LEMMA JobInvInit == Init => JobInv
<1> SUFFICES ASSUME Init PROVE JobInv
  OBVIOUS
<1>1. InStep
  BY DEF Init, InStep
<1>2. LatchCounts
  BY FS_EmptySet DEF Init, LatchCounts
<1>3. DoneIsWritten
  BY DEF Init, DoneIsWritten
<1> QED
  BY SlowInvInit, <1>1, <1>2, <1>3 DEF JobInv

\* When the latch is down or no thread is left, no task is under way.
LEMMA AwaitedIsOver ==
  ASSUME ~Slow, JobInv, Await
  PROVE  \A th \in threads : th.at = "write"
<1>1. pc = "assign" /\ (latch[phase] = 0 \/ threads = {})
  BY DEF Await
<1>2. CASE threads = {}
  BY <1>2
<1>3. CASE latch[phase] = 0
  <2>1. Cardinality(taskState) + Cardinality(Counting) = 0
    BY <1>1, <1>3 DEF JobInv, LatchCounts
  <2>2. taskState = {} /\ Counting = {}
    BY <2>1, Counted
  <2>3. SUFFICES ASSUME NEW th \in threads, th.at # "write" PROVE FALSE
    OBVIOUS
  <2>4. th.task \notin taskState /\ th.at # "count"
    BY <2>2, <2>3 DEF Counting
  <2>5. th.at \in {"call", "wait", "remove", "count", "write"}
    BY DEF JobInv, SlowInv, TypeOK, Thread
  <2> QED
    BY <2>3, <2>4, <2>5 DEF JobInv, InStep, Outstanding
<1> QED
  BY <1>1, <1>2, <1>3

\* The master's thread, where it hands out no worker.
LEMMA MasterKeepsJob ==
  ASSUME ~Slow, JobInv, SlowInv', Schedule \/ Check \/ Iterate \/ Await \/ StopServer
                                  \/ KillWorkers \/ Merge \/ MergeThrows
  PROVE  JobInv'
<1> USE DEF JobInv
<1>1. UNCHANGED <<threads, jobs, inter, result>>
  BY DEF Schedule, Check, Iterate, Await, StopServer, KillWorkers, Merge, MergeThrows,
         regVars, workerVars, fileVars
<1>2. Counting' = Counting /\ Written("map")' = Written("map")
      /\ Written("reduce")' = Written("reduce")
  BY <1>1 DEF Counting, Written
<1>3. (\A p : Tasks(p) = Tasks(p)) /\ phase \in Phases /\ latch \in [Phases -> Nat]
      /\ taskState \subseteq Tasks(phase)
  BY DEF SlowInv, TypeOK
<1>4. CASE Schedule
  <2>1. /\ pc = "schedule" /\ pc' = "check" /\ phase' = phase /\ todo' = todo
        /\ serving' = serving /\ taskState' = Tasks(phase)
        /\ latch' = [latch EXCEPT ![phase] = Cardinality(Tasks(phase))]
    BY <1>4 DEF Schedule, regVars
  <2>2. \A th \in threads : th.at = "write"
    BY <2>1 DEF InStep
  <2>3. todo = {}
    BY <2>1 DEF SlowInv, TasksOfPhase
  <2>4. InStep'
    BY <1>1, <2>1, <2>2, <2>3 DEF InStep
  <2>5. Counting' = {}
    BY <1>2, <2>2 DEF Counting
  <2>6. LatchCounts'
    <3>1. Cardinality(Counting') = 0 /\ Cardinality(Tasks(phase)) \in Nat
      BY <2>5, FS_EmptySet, TaskNumbers, FS_CardinalityType
    <3>2. latch'[phase'] = Cardinality(taskState') + Cardinality(Counting')
      BY <1>3, <2>1, <3>1
    <3> QED
      BY <1>1, <3>2 DEF LatchCounts
  <2>7. DoneIsWritten'
    BY <1>1, <1>2, <2>1, <2>2 DEF DoneIsWritten
  <2> QED
    BY <2>4, <2>6, <2>7
<1>5. CASE Check
  <2>1. /\ pc = "check" /\ pc' # "check" /\ pc' # "assign" /\ todo' = todo /\ serving' = serving
        /\ taskState' = taskState /\ latch' = latch
        /\ taskState # {} => pc' = "iterate" /\ phase' = phase
        /\ taskState = {} =>
             phase' = "reduce" /\ pc' = IF phase = "map" THEN "schedule" ELSE "stop"
    BY <1>5 DEF Check, regVars
  <2>2. \A th \in threads : th.at = "write"
    BY <2>1 DEF InStep
  <2>3. InStep'
    BY <1>1, <2>1, <2>2 DEF InStep
  <2>4. pc' = "schedule" \/ phase' = phase
    BY <1>3, <2>1 DEF Phases
  <2>5. LatchCounts'
    BY <1>1, <1>2, <2>1, <2>4 DEF LatchCounts
  <2>6. taskState = {} => Tasks(phase) \subseteq Written(phase)
    BY <2>1 DEF DoneIsWritten
  <2>7. Written("map") \subseteq Tasks("map") /\ phase \in {"map", "reduce"}
    BY <1>3 DEF Written, Phases
  <2>8. DoneIsWritten'
    BY <1>1, <1>2, <2>1, <2>2, <2>6, <2>7 DEF DoneIsWritten
  <2> QED
    BY <2>3, <2>5, <2>8
<1>6. CASE Iterate \/ Await
  <2>1. /\ pc' \in {"assign", "check"} /\ pc # "schedule" /\ phase' = phase /\ serving' = serving
        /\ taskState' = taskState /\ latch' = latch /\ (todo' = taskState \/ todo' = todo)
        /\ pc \in {"iterate", "assign"}
    BY <1>6 DEF Iterate, Await, regVars
  <2>2. \A th \in threads : th.at = "write"
    BY <1>6, AwaitedIsOver DEF InStep, Iterate
  <2>3. InStep'
    BY <1>1, <2>1, <2>2 DEF InStep
  <2>4. LatchCounts'
    BY <1>1, <1>2, <2>1 DEF LatchCounts
  <2>5. DoneIsWritten'
    BY <1>1, <1>2, <1>3, <2>1, <2>2 DEF DoneIsWritten, Phases
  <2> QED
    BY <2>3, <2>4, <2>5
<1>7. CASE StopServer \/ KillWorkers \/ Merge \/ MergeThrows
  <2>1. /\ pc \in {"stop", "kill", "merge"} /\ phase' = phase /\ taskState' = taskState
        /\ latch' = latch /\ todo' = todo /\ (pc = "stop" => pc' = "kill")
        /\ (pc = "kill" => pc' = "merge") /\ (pc = "merge" => pc' \in {"done", "crashed"})
        /\ (serving' = serving \/ pc = "stop")
    BY <1>7 DEF StopServer, KillWorkers, Merge, MergeThrows, regVars
  <2>2. \A th \in threads : th.at = "write"
    BY <2>1 DEF InStep
  <2>3. InStep'
    BY <1>1, <2>1, <2>2 DEF InStep
  <2>4. LatchCounts'
    BY <1>1, <1>2, <2>1 DEF LatchCounts
  <2>5. DoneIsWritten'
    BY <1>1, <1>2, <1>3, <2>1, <2>2 DEF DoneIsWritten, Phases
  <2> QED
    BY <2>3, <2>4, <2>5
<1> QED
  BY <1>4, <1>5, <1>6, <1>7

LEMMA AssignKeepsJob == ASSUME ~Slow, JobInv, SlowInv', Assign PROVE JobInv'
<1> USE DEF JobInv
<1>1. PICK i \in Nat, next \in Thread :
        /\ i \in todo /\ next.phase = phase /\ next.task = i /\ next.at = "call"
        /\ \/ threads' = threads /\ todo' = todo /\ pc' = "crashed"
           \/ threads' = threads \cup {next} /\ todo' = todo \ {i} /\ pc' = pc
  <2> DEFINE i == Min(todo)
             next == [worker |-> Head(chan), phase |-> phase, task |-> i, at |-> "call"]
  <2>1. i \in todo /\ i \in Nat
    BY MinIsLeast, TaskNumbers DEF Assign, SlowInv, TypeOK
  <2>2. Head(chan) \in Workers
    BY DEF Assign, SlowInv, TypeOK
  <2>3. next \in Thread /\ next.phase = phase /\ next.task = i /\ next.at = "call"
    BY <2>1, <2>2 DEF Thread, SlowInv, TypeOK
  <2>4. \/ threads' = threads /\ todo' = todo /\ pc' = "crashed"
        \/ threads' = threads \cup {next} /\ todo' = todo \ {i} /\ pc' = pc
    BY DEF Assign
  <2> HIDE DEF i, next
  <2> QED
    BY <2>1, <2>3, <2>4
<1>2. /\ UNCHANGED <<serving, phase, taskState, latch, jobs, inter, result>>
      /\ pc = "assign"
  BY DEF Assign, regVars, workerVars, fileVars
<1>3. i \in taskState /\ \A th \in threads : th.at # "write" => th.task # i
  BY <1>1 DEF InStep
<1>4. serving
  BY <1>2 DEF DoneIsWritten
<1>5. InStep'
  BY <1>1, <1>2, <1>3, <1>4 DEF InStep, Outstanding
<1>6. LatchCounts'
  <2>1. IsFiniteSet(threads')
    BY <1>1, FS_AddElement DEF LatchCounts
  <2>2. Counting' = Counting
    BY <1>1 DEF Counting
  <2> QED
    BY <1>1, <1>2, <2>1, <2>2 DEF LatchCounts
<1>7. DoneIsWritten'
  <2>1. \A p : Written(p)' = Written(p)
    BY <1>2 DEF Written
  <2> QED
    BY <1>1, <1>2, <1>4, <2>1 DEF DoneIsWritten
<1> QED
  BY <1>5, <1>6, <1>7

\* Registration touches nothing that the job's progress depends on.
LEMMA RegistrationKeepsJob ==
  ASSUME JobInv, SlowInv',
         UNCHANGED <<serving, pc, phase, todo, taskState, latch, threads, jobs, inter, result>>
  PROVE  JobInv'
<1>1. \A p : Written(p)' = Written(p)
  BY DEF Written
<1>2. Counting' = Counting
  BY DEF Counting
<1> QED
  BY <1>1, <1>2 DEF JobInv, InStep, LatchCounts, DoneIsWritten

LEMMA CallKeepsJob == ASSUME JobInv, SlowInv', NEW th \in threads, Call(th) PROVE JobInv'
<1> USE DEF JobInv
<1>1. PICK next \in Thread, job \in DoTaskCall :
        /\ next.worker = th.worker /\ next.phase = th.phase /\ next.task = th.task
        /\ next.at = "wait"
        /\ job.worker = th.worker /\ job.phase = th.phase /\ job.task = th.task
        /\ job.at = "run" /\ Caller(job) = next
        /\ \/ /\ threads' = threads \ {th} /\ jobs' = jobs /\ concurrent' = concurrent
           \/ /\ threads' = (threads \ {th}) \cup {next} /\ jobs' = jobs \cup {job}
              /\ concurrent' = [concurrent EXCEPT ![th.worker] = 1]
  BY CallStep
<1>2. /\ UNCHANGED <<serving, pc, phase, todo, taskState, latch, inter, result>>
      /\ th.at = "call"
  BY DEF Call, regVars, masterVars, fileVars
<1>3. \A j \in jobs : Caller(j) \in threads \ {th}
  BY <1>2, JobParts DEF InStep, SlowInv, TypeOK
<1>4. InStep'
  BY <1>1, <1>2, <1>3 DEF InStep, Outstanding
<1>5. LatchCounts'
  <2>1. IsFiniteSet(threads')
    <3>1. IsFiniteSet(threads \ {th}) /\ IsFiniteSet((threads \ {th}) \cup {next})
      BY FS_AddElement, FS_RemoveElement DEF LatchCounts
    <3> QED
      BY <1>1, <3>1
  <2>2. Counting' = Counting
    BY <1>1, <1>2 DEF Counting
  <2> QED
    BY <1>2, <2>1, <2>2 DEF LatchCounts
<1>6. DoneIsWritten'
  <2>1. \A p : Written(p)' = Written(p)
    BY <1>2 DEF Written
  <2> QED
    BY <1>1, <1>2, <2>1 DEF DoneIsWritten
<1> QED
  BY <1>4, <1>5, <1>6

\* The task that is struck is one that the latch has still to count.
LEMMA RemovedKeepsJob == ASSUME JobInv, SlowInv', NEW th \in threads, Removed(th) PROVE JobInv'
<1> USE DEF JobInv
<1>1. PICK next \in Thread :
        /\ next.worker = th.worker /\ next.phase = th.phase /\ next.task = th.task
        /\ next.at = "count" /\ threads' = (threads \ {th}) \cup {next}
  <2>1. th \in Thread /\ threads' = Moved(th, "count")
    BY DEF Removed, SlowInv, TypeOK
  <2> QED
    BY <2>1, MovedTo
<1>2. /\ UNCHANGED <<serving, pc, phase, todo, latch, jobs, inter, result>>
      /\ taskState' = taskState \ {th.task} /\ th.at = "remove"
  BY DEF Removed, regVars, masterVars, workerVars, fileVars
<1>3. \A j \in jobs : Caller(j) \in threads \ {th}
  BY <1>2, JobParts DEF InStep, SlowInv, TypeOK
<1>4. th.phase = phase /\ pc \in {"assign", "crashed"} /\ th.task \notin todo /\ th.task \in taskState
  BY <1>2 DEF InStep, Outstanding
<1>5. \A t \in threads \ {th} : t.at # "write" => t.task # th.task
  BY <1>2 DEF InStep
<1>6. InStep'
  BY <1>1, <1>2, <1>3, <1>4, <1>5 DEF InStep, Outstanding
<1>7. LatchCounts'
  <2>1. IsFiniteSet(threads')
    BY <1>1, FS_AddElement, FS_RemoveElement DEF LatchCounts
  <2>2. Counting' = Counting \cup {next} /\ next \notin Counting
    <3>1. next \notin threads
      BY <1>1, <1>2, <1>5
    <3> QED
      BY <1>1, <1>2, <3>1 DEF Counting
  <2>3. Cardinality(Counting') = Cardinality(Counting) + 1
    BY <2>2, Counted, FS_AddElement
  <2>4. Cardinality(taskState') = Cardinality(taskState) - 1
    BY <1>2, <1>4, Counted, FS_RemoveElement
  <2> QED
    BY <1>2, <1>4, <2>1, <2>3, <2>4, Counted DEF LatchCounts
<1>8. DoneIsWritten'
  <2>1. \A p : Written(p)' = Written(p)
    BY <1>2 DEF Written
  <2>2. th.task \in Written(phase)
    BY <1>2, <1>4 DEF DoneIsWritten
  <2> QED
    BY <1>1, <1>2, <1>4, <2>1, <2>2 DEF DoneIsWritten
<1> QED
  BY <1>6, <1>7, <1>8

LEMMA CountDownKeepsJob ==
  ASSUME JobInv, SlowInv', NEW th \in threads, CountDown(th) PROVE JobInv'
<1> USE DEF JobInv
<1>1. PICK next \in Thread :
        /\ next.worker = th.worker /\ next.phase = th.phase /\ next.task = th.task
        /\ next.at = "write" /\ threads' = (threads \ {th}) \cup {next}
  <2>1. th \in Thread /\ threads' = Moved(th, "write")
    BY DEF CountDown, SlowInv, TypeOK
  <2> QED
    BY <2>1, MovedTo
<1>2. /\ UNCHANGED <<serving, pc, phase, todo, taskState, jobs, inter, result>>
      /\ th.at = "count" /\ latch' = [latch EXCEPT ![th.phase] = IF @ > 0 THEN @ - 1 ELSE 0]
  BY DEF CountDown, regVars, masterVars, workerVars, fileVars
<1>3. \A j \in jobs : Caller(j) \in threads \ {th}
  BY <1>2, JobParts DEF InStep, SlowInv, TypeOK
<1>4. th.phase = phase /\ pc \in {"assign", "crashed"}
  BY <1>2 DEF InStep
<1>5. InStep'
  BY <1>1, <1>2, <1>3 DEF InStep, Outstanding
<1>6. LatchCounts'
  <2>1. IsFiniteSet(threads')
    BY <1>1, FS_AddElement, FS_RemoveElement DEF LatchCounts
  <2>2. Counting' = Counting \ {th} /\ th \in Counting
    BY <1>1, <1>2 DEF Counting
  <2>3. Cardinality(Counting') = Cardinality(Counting) - 1
    BY <2>2, Counted, FS_RemoveElement
  <2>4. latch \in [Phases -> Nat] /\ phase \in Phases
    BY DEF SlowInv, TypeOK
  <2>5. latch[phase] = Cardinality(taskState) + Cardinality(Counting) /\ Counting # {}
    BY <1>4, <2>2 DEF LatchCounts
  <2>6. latch[phase] > 0
    BY <2>5, Counted
  <2>7. latch'[phase] = latch[phase] - 1
    BY <1>2, <1>4, <2>4, <2>6
  <2> QED
    BY <1>2, <2>1, <2>3, <2>5, <2>7, Counted DEF LatchCounts
<1>7. DoneIsWritten'
  <2>1. \A p : Written(p)' = Written(p)
    BY <1>2 DEF Written
  <2> QED
    BY <1>1, <1>2, <2>1 DEF DoneIsWritten
<1> QED
  BY <1>5, <1>6, <1>7

LEMMA WriteBackKeepsJob ==
  ASSUME JobInv, SlowInv', NEW th \in threads, WriteBack(th) PROVE JobInv'
<1> USE DEF JobInv
<1>1. /\ UNCHANGED <<serving, pc, phase, todo, taskState, latch, jobs, inter, result>>
      /\ threads' = threads \ {th} /\ th.at = "write"
  BY DEF WriteBack, Gone, regVars, masterVars, workerVars, fileVars
<1>2. \A j \in jobs : Caller(j) \in threads \ {th}
  BY <1>1, JobParts DEF InStep, SlowInv, TypeOK
<1>3. InStep'
  BY <1>1, <1>2 DEF InStep, Outstanding
<1>4. LatchCounts'
  <2>1. IsFiniteSet(threads') /\ Counting' = Counting
    BY <1>1, FS_RemoveElement DEF LatchCounts, Counting
  <2> QED
    BY <1>1, <2>1 DEF LatchCounts
<1>5. DoneIsWritten'
  <2>1. \A p : Written(p)' = Written(p)
    BY <1>1 DEF Written
  <2> QED
    BY <1>1, <2>1 DEF DoneIsWritten
<1> QED
  BY <1>3, <1>4, <1>5

\* A task that runs is one that its thread waits for, and that nobody has struck.
LEMMA RunningIsCurrent ==
  ASSUME JobInv, NEW job \in jobs
  PROVE  /\ pc \in {"assign", "crashed"} /\ serving /\ phase = job.phase
         /\ job.task \in taskState /\ job.task \in Tasks(phase)
         /\ \A th \in threads : th.task = job.task => th.at \in {"call", "wait", "write"}
<1>1. PICK caller \in threads : /\ caller = Caller(job) /\ caller.phase = job.phase
                                /\ caller.task = job.task /\ caller.at = "wait"
  BY JobParts DEF JobInv, InStep, SlowInv, TypeOK
<1>2. /\ pc \in {"assign", "crashed"} /\ serving /\ phase = job.phase /\ job.task \in taskState
      /\ job.task \in Tasks(phase)
  BY <1>1 DEF JobInv, InStep, Outstanding, SlowInv, TasksOfPhase
<1>3. \A th \in threads : th.task = job.task /\ th.at # "write" => th = caller
  BY <1>1 DEF JobInv, InStep
<1> QED
  BY <1>1, <1>2, <1>3

\* Writing a task's output leaves the tasks that are done alone.
LEMMA OpenKeepsJob ==
  ASSUME JobInv, SlowInv', NEW job \in jobs, NEW next \in DoTaskCall, Caller(next) = Caller(job),
         jobs' = (jobs \ {job}) \cup {next},
         \A p \in Phases :
           Written(p)' = IF p = job.phase THEN Written(p) \ {job.task} ELSE Written(p),
         UNCHANGED <<serving, pc, phase, todo, taskState, latch, threads>>
  PROVE  JobInv'
<1> USE DEF JobInv
<1>1. /\ pc \in {"assign", "crashed"} /\ serving /\ phase = job.phase
      /\ job.task \in taskState /\ job.task \in Tasks(phase)
      /\ \A th \in threads : th.task = job.task => th.at \in {"call", "wait", "write"}
  BY RunningIsCurrent
<1>2. InStep'
  BY DEF InStep, Outstanding
<1>3. LatchCounts'
  BY DEF LatchCounts, Counting
<1>4. DoneIsWritten'
  <2>1. phase \in Phases /\ \A th \in threads : th.phase \in Phases
    BY DEF SlowInv, TypeOK, Thread
  <2>2. phase = "reduce" => Written("map")' = Written("map")
    BY <1>1 DEF Phases
  <2>3. Tasks(phase) \ taskState \subseteq Written(phase)'
    BY <1>1, <2>1 DEF DoneIsWritten
  <2>4. \A th \in threads : th.at = "remove" => th.task \in Written(th.phase)'
    BY <1>1, <2>1 DEF DoneIsWritten
  <2> QED
    BY <1>1, <2>2, <2>3, <2>4 DEF DoneIsWritten
<1> QED
  BY <1>2, <1>3, <1>4

LEMMA AnswerKeepsJob ==
  ASSUME JobInv, SlowInv', NEW job \in jobs, Answer(job),
         \A p \in Phases :
           Written(p)' = IF p = job.phase THEN Written(p) \cup {job.task} ELSE Written(p),
         UNCHANGED <<serving, pc, phase, todo, taskState, latch>>
  PROVE  JobInv'
<1> USE DEF JobInv
<1>1. /\ pc \in {"assign", "crashed"} /\ serving /\ phase = job.phase
      /\ job.task \in taskState /\ job.task \in Tasks(phase)
      /\ \A th \in threads : th.task = job.task => th.at \in {"call", "wait", "write"}
  BY RunningIsCurrent
<1>2. PICK caller \in Thread :
        /\ caller \in threads /\ caller = Caller(job) /\ caller.worker = job.worker
        /\ caller.phase = job.phase /\ caller.task = job.task /\ caller.at = "wait"
  BY JobParts DEF InStep, SlowInv, TypeOK
<1>3. PICK next \in Thread :
        /\ next.worker = caller.worker /\ next.phase = caller.phase /\ next.task = caller.task
        /\ next.at = "remove"
        /\ threads' = threads \ {caller} \/ threads' = (threads \ {caller}) \cup {next}
  <2>1. threads' = Moved(caller, "remove") \/ threads' = threads \ {caller}
    BY <1>2 DEF Answer, Gone
  <2>2. PICK n : n = [caller EXCEPT !.at = "remove"]
    OBVIOUS
  <2>3. n \in Thread /\ n.worker = caller.worker /\ n.phase = caller.phase
        /\ n.task = caller.task /\ n.at = "remove"
    BY <2>2, ThreadParts
  <2>4. threads' = (threads \ {caller}) \cup {n} \/ threads' = threads \ {caller}
    BY <2>1, <2>2 DEF Moved, Gone
  <2> QED
    BY <2>3, <2>4
<1>4. jobs' = jobs \ {job}
  BY DEF Answer
<1>5. \A j \in jobs' : Caller(j) \in threads \ {caller}
  <2>1. SUFFICES ASSUME NEW j \in jobs, j # job PROVE Caller(j) # caller
    BY <1>4 DEF InStep
  <2>2. j.worker # job.worker
    BY <2>1 DEF SlowInv, CountsAreExact
  <2> QED
    BY <1>2, <2>2, JobParts DEF SlowInv, TypeOK
<1>6. InStep'
  BY <1>1, <1>2, <1>3, <1>5 DEF InStep, Outstanding
<1>7. LatchCounts'
  <2>1. IsFiniteSet(threads')
    <3>1. IsFiniteSet(threads \ {caller}) /\ IsFiniteSet((threads \ {caller}) \cup {next})
      BY FS_AddElement, FS_RemoveElement DEF LatchCounts
    <3> QED
      BY <1>3, <3>1
  <2>2. Counting' = Counting
    BY <1>2, <1>3 DEF Counting
  <2> QED
    BY <2>1, <2>2 DEF LatchCounts
<1>8. DoneIsWritten'
  <2>1. phase \in Phases /\ \A th \in threads : th.phase \in Phases
    BY DEF SlowInv, TypeOK, Thread
  <2>2. phase = "reduce" => Written("map")' = Written("map")
    BY <1>1 DEF Phases
  <2>3. Tasks(phase) \ taskState \subseteq Written(phase)'
    BY <1>1, <2>1 DEF DoneIsWritten
  <2>4. \A th \in threads' : th.at = "remove" => th.task \in Written(th.phase)'
    BY <1>1, <1>2, <1>3, <2>1 DEF DoneIsWritten
  <2> QED
    BY <1>1, <2>2, <2>3, <2>4 DEF DoneIsWritten
<1> QED
  BY <1>6, <1>7, <1>8

\* What the files say of the tasks that are written when one of them changes.
LEMMA WrittenWhen ==
  ASSUME JobInv, NEW job \in jobs
  PROVE  /\ MapOpen(job) \/ ReduceOpen(job) =>
              \A p \in Phases : Written(p)' =
                IF p = job.phase THEN Written(p) \ {job.task} ELSE Written(p)
         /\ MapClose(job) \/ ReduceClose(job) =>
              \A p \in Phases : Written(p)' =
                IF p = job.phase THEN Written(p) \cup {job.task} ELSE Written(p)
<1>1. job.task \in Tasks(job.phase)
  BY RunningIsCurrent
<1>2. inter \in [Tasks("map") -> FileState] /\ result \in [Tasks("reduce") -> FileState]
  BY DEF JobInv, SlowInv, TypeOK
<1>3. ASSUME NEW f \in FileState, inter' = [inter EXCEPT ![job.task] = f], result' = result,
             job.phase = "map"
      PROVE  \A p \in Phases : Written(p)' =
                IF p = "reduce" THEN Written(p)
                ELSE IF f = "full" THEN Written(p) \cup {job.task} ELSE Written(p) \ {job.task}
  <2>1. Written("reduce")' = Written("reduce")
    BY <1>3 DEF Written
  <2>2. \A t \in Tasks("map") : inter'[t] = IF t = job.task THEN f ELSE inter[t]
    BY <1>1, <1>2, <1>3
  <2>3. Written("map")' = IF f = "full" THEN Written("map") \cup {job.task}
                          ELSE Written("map") \ {job.task}
    BY <1>1, <1>3, <2>2 DEF Written
  <2> QED
    BY <2>1, <2>3 DEF Phases
<1>4. ASSUME NEW f \in FileState, result' = [result EXCEPT ![job.task] = f], inter' = inter,
             job.phase = "reduce"
      PROVE  \A p \in Phases : Written(p)' =
                IF p = "map" THEN Written(p)
                ELSE IF f = "full" THEN Written(p) \cup {job.task} ELSE Written(p) \ {job.task}
  <2>1. Written("map")' = Written("map")
    BY <1>4 DEF Written
  <2>2. \A t \in Tasks("reduce") : result'[t] = IF t = job.task THEN f ELSE result[t]
    BY <1>1, <1>2, <1>4
  <2>3. Written("reduce")' = IF f = "full" THEN Written("reduce") \cup {job.task}
                             ELSE Written("reduce") \ {job.task}
    BY <1>1, <1>4, <2>2 DEF Written
  <2> QED
    BY <2>1, <2>3 DEF Phases
<1>5. {"partial", "full"} \subseteq FileState
  BY DEF FileState
<1>6. MapOpen(job) => \A p \in Phases : Written(p)' =
        IF p = job.phase THEN Written(p) \ {job.task} ELSE Written(p)
  BY <1>3, <1>5 DEF MapOpen, Phases
<1>7. ReduceOpen(job) => \A p \in Phases : Written(p)' =
        IF p = job.phase THEN Written(p) \ {job.task} ELSE Written(p)
  BY <1>4, <1>5 DEF ReduceOpen, Phases
<1>8. MapClose(job) => \A p \in Phases : Written(p)' =
        IF p = job.phase THEN Written(p) \cup {job.task} ELSE Written(p)
  BY <1>3, <1>5 DEF MapClose, Phases
<1>9. ReduceClose(job) => \A p \in Phases : Written(p)' =
        IF p = job.phase THEN Written(p) \cup {job.task} ELSE Written(p)
  BY <1>4, <1>5 DEF ReduceClose, Phases
<1> QED
  BY <1>6, <1>7, <1>8, <1>9

LEMMA DoTaskKeepsJob ==
  ASSUME JobInv, SlowInv', NEW job \in jobs, DoTask(job) PROVE JobInv'
<1>1. job \in DoTaskCall
  BY DEF JobInv, SlowInv, TypeOK
<1>2. CASE MapOpen(job) \/ ReduceOpen(job)
  <2>1. PICK next : next = [job EXCEPT !.at = "write"]
    OBVIOUS
  <2>2. next \in DoTaskCall /\ Caller(next) = Caller(job)
    BY <1>1, <2>1, JobParts
  <2>3. /\ jobs' = (jobs \ {job}) \cup {next}
        /\ UNCHANGED <<serving, pc, phase, todo, taskState, latch, threads>>
    BY <1>2, <2>1 DEF MapOpen, ReduceOpen, regVars, masterVars
  <2>4. \A p \in Phases : Written(p)' =
          IF p = job.phase THEN Written(p) \ {job.task} ELSE Written(p)
    BY <1>2, WrittenWhen
  <2> QED
    BY <2>2, <2>3, <2>4, OpenKeepsJob
<1>3. CASE MapClose(job) \/ ReduceClose(job)
  <2>1. Answer(job) /\ UNCHANGED <<serving, pc, phase, todo, taskState, latch>>
    BY <1>3 DEF MapClose, ReduceClose, regVars, masterVars
  <2>2. \A p \in Phases : Written(p)' =
          IF p = job.phase THEN Written(p) \cup {job.task} ELSE Written(p)
    BY <1>3, WrittenWhen
  <2> QED
    BY <2>1, <2>2, AnswerKeepsJob
<1>4. CASE ReduceThrows(job)
  <2> USE DEF JobInv
  <2>1. /\ UNCHANGED <<serving, pc, phase, todo, taskState, latch, inter, result>>
        /\ jobs' = jobs \ {job} /\ threads' = threads \ {Caller(job)}
    BY <1>4 DEF ReduceThrows, Throw, Gone, regVars, masterVars, fileVars
  <2>2. \A j \in jobs' : Caller(j) \in threads \ {Caller(job)}
    <3>1. SUFFICES ASSUME NEW j \in jobs, j # job PROVE Caller(j) # Caller(job)
      BY <2>1 DEF InStep
    <3>2. j.worker # job.worker
      BY <3>1 DEF SlowInv, CountsAreExact
    <3>3. Caller(j).worker = j.worker /\ Caller(job).worker = job.worker
      BY <1>1, JobParts DEF SlowInv, TypeOK
    <3> QED
      BY <3>2, <3>3
  <2>3. InStep'
    BY <2>1, <2>2 DEF InStep, Outstanding
  <2>4. LatchCounts'
    <3>1. Caller(job).at = "wait"
      BY <1>1, JobParts
    <3>2. IsFiniteSet(threads') /\ Counting' = Counting
      BY <2>1, <3>1, FS_RemoveElement DEF LatchCounts, Counting
    <3> QED
      BY <2>1, <3>2 DEF LatchCounts
  <2>5. DoneIsWritten'
    <3>1. \A p : Written(p)' = Written(p)
      BY <2>1 DEF Written
    <3> QED
      BY <2>1, <3>1 DEF DoneIsWritten
  <2> QED
    BY <2>3, <2>4, <2>5
<1> QED
  BY <1>2, <1>3, <1>4 DEF DoTask

LEMMA JobInvStep == ~Slow /\ JobInv /\ [Next]_vars => JobInv'
<1> SUFFICES ASSUME ~Slow, JobInv, [Next]_vars PROVE JobInv'
  OBVIOUS
<1>1. SlowInv'
  BY SlowInvStep DEF JobInv
<1>2. CASE Master
  BY <1>1, <1>2, MasterKeepsJob, AssignKeepsJob DEF Master
<1>3. CASE Forward \/ \E w \in Workers : Register(w) \/ ForwardWrite(w)
  <2>1. UNCHANGED <<serving, pc, phase, todo, taskState, latch, threads, jobs, inter, result>>
    BY <1>3 DEF Forward, Register, ForwardWrite, masterVars, workerVars, fileVars
  <2> QED
    BY <1>1, <2>1, RegistrationKeepsJob
<1>4. ASSUME NEW th \in threads, WorkerThread(th) PROVE JobInv'
  BY <1>1, <1>4, CallKeepsJob, RemovedKeepsJob, CountDownKeepsJob, WriteBackKeepsJob
  DEF WorkerThread
<1>5. ASSUME NEW th \in threads, GiveUp(th) PROVE JobInv'
  BY <1>5 DEF GiveUp
<1>6. ASSUME NEW job \in jobs, DoTask(job) PROVE JobInv'
  BY <1>1, <1>6, DoTaskKeepsJob
<1>7. CASE UNCHANGED vars
  <2>1. UNCHANGED <<serving, pc, phase, todo, taskState, latch, threads, jobs, inter, result>>
    BY <1>7 DEF vars, regVars, masterVars, workerVars, fileVars
  <2> QED
    BY <1>1, <2>1, RegistrationKeepsJob
<1> QED
  BY <1>2, <1>3, <1>4, <1>5, <1>6, <1>7 DEF Next

\* With no call given up, the invariant of the job holds throughout.
LEMMA JobInvariance == ASSUME ~Slow PROVE Spec => []JobInv
<1>1. JobInv /\ [Next]_vars => JobInv'
  BY JobInvStep
<1> QED
  BY JobInvInit, <1>1, PTL DEF Spec

\* schedule comes back from the reduce phase only when all results are written
\* (Scheduler.java:58), if no call of the job outlasts its timeout.
THEOREM ScheduleIsComplete == ASSUME ~Slow PROVE Spec => []ScheduleCompletes
<1>1. JobInv => ScheduleCompletes
  BY DEF JobInv, DoneIsWritten, ScheduleCompletes, Written
<1> QED
  BY <1>1, JobInvariance, PTL

\* The stage and the finished tasks of MapReduceJob.
stageOf == IF pc = "stop" \/ ~serving THEN "over" ELSE phase
doneOf == [map    |-> {t \in Tasks("map") : inter[t] = "full"},
           reduce |-> {t \in Tasks("reduce") : result[t] = "full"}]

LEMMA AbstractInit == Init => Job!Init
<1> SUFFICES ASSUME Init PROVE Job!Init
  OBVIOUS
<1>1. doneOf = [map |-> {}, reduce |-> {}]
  BY DEF Init, doneOf
<1>2. [map |-> {}, reduce |-> {}] = [s \in {"map", "reduce"} |-> {}]
  OBVIOUS
<1> QED
  BY <1>1, <1>2 DEF Init, Job!Init, doneOf

LEMMA AbstractStep ==
  ASSUME ~Slow, JobInv, JobInv', [Next]_vars
  PROVE  [Job!Next]_<<stageOf, doneOf>>
<1> USE DEF JobInv
<1>1. doneOf.map = Written("map") /\ doneOf.reduce = Written("reduce")
  BY DEF doneOf, Written
<1>2. /\ doneOf = [map |-> Written("map"), reduce |-> Written("reduce")]
      /\ doneOf' = [map |-> Written("map")', reduce |-> Written("reduce")']
  BY DEF doneOf, Written
<1>3. Job!Tasks = [map |-> Tasks("map"), reduce |-> Tasks("reduce")]
  BY DEF Job!Tasks, Tasks
<1>4. phase \in {"map", "reduce"}
  BY DEF SlowInv, TypeOK, Phases
<1>5. CASE Check
  <2>1. /\ pc = "check" /\ UNCHANGED <<serving, inter, result>> /\ serving
        /\ pc' = IF taskState # {} THEN "iterate" ELSE IF phase = "map" THEN "schedule" ELSE "stop"
        /\ phase' = IF taskState = {} THEN "reduce" ELSE phase
    BY <1>5 DEF Check, regVars, fileVars, DoneIsWritten
  <2>2. UNCHANGED doneOf
    BY <2>1 DEF doneOf
  <2>3. CASE taskState # {}
    BY <2>1, <2>2, <2>3 DEF stageOf
  <2>4. CASE taskState = {}
    <3>1. Tasks(phase) \subseteq Written(phase)
      BY <2>1, <2>4 DEF DoneIsWritten
    <3>2. Written(phase) = Tasks(phase)
      BY <1>4, <3>1 DEF Written
    <3>3. doneOf[stageOf] = Job!Tasks[stageOf] /\ stageOf = phase
      BY <1>1, <1>3, <1>4, <2>1, <3>2 DEF stageOf
    <3>4. stageOf' = IF phase = "map" THEN "reduce" ELSE "over"
      BY <1>4, <2>1, <2>4 DEF stageOf
    <3>5. Job!Advance
      BY <1>4, <2>2, <3>3, <3>4 DEF Job!Advance, stageOf, doneOf
    <3> QED
      BY <3>5 DEF Job!Next
  <2> QED
    BY <2>3, <2>4
<1>6. ASSUME NEW job \in jobs, DoTask(job), ~ReduceThrows(job)
      PROVE  Job!Next \/ UNCHANGED <<stageOf, doneOf>>
  <2> PICK t : t = job.task
    OBVIOUS
  <2>1. /\ pc \in {"assign", "crashed"} /\ serving /\ phase = job.phase
        /\ t \in Tasks(phase)
    BY RunningIsCurrent
  <2>2. UNCHANGED <<pc, serving, phase>>
    BY <1>6 DEF DoTask, MapOpen, MapClose, ReduceOpen, ReduceClose, regVars, masterVars
  <2>3. stageOf = phase /\ stageOf' = stageOf /\ stageOf # "over"
    BY <1>4, <2>1, <2>2 DEF stageOf
  <2>4. t \in 0 .. (NMap + NReduce)
    BY <2>1, MapReduceAssumption DEF Tasks
  <2>5. CASE MapOpen(job) \/ ReduceOpen(job)
    <3>1. \A p \in Phases : Written(p)' = IF p = phase THEN Written(p) \ {t} ELSE Written(p)
      BY <2>1, <2>5, WrittenWhen
    <3>2. doneOf' = [doneOf EXCEPT ![phase] = @ \ {t}]
      <4>1. /\ Written("map")' = IF phase = "map" THEN Written("map") \ {t} ELSE Written("map")
            /\ Written("reduce")' =
                 IF phase = "reduce" THEN Written("reduce") \ {t} ELSE Written("reduce")
        BY <3>1 DEF Phases
      <4> QED
        BY <1>4, <1>2, <4>1
    <3>3. CASE t \in doneOf[phase]
      BY <2>3, <2>4, <3>2, <3>3 DEF Job!Next, Job!Redo, stageOf, doneOf
    <3>4. CASE t \notin doneOf[phase]
      <4>1. doneOf' = doneOf
        BY <1>1, <1>4, <3>1, <3>4 DEF doneOf, Written, Phases
      <4> QED
        BY <2>3, <4>1
    <3> QED
      BY <3>3, <3>4
  <2>6. CASE MapClose(job) \/ ReduceClose(job)
    <3>1. \A p \in Phases : Written(p)' = IF p = phase THEN Written(p) \cup {t} ELSE Written(p)
      BY <2>1, <2>6, WrittenWhen
    <3>2. doneOf' = [doneOf EXCEPT ![phase] = @ \cup {t}]
      <4>1. /\ Written("map")' = IF phase = "map" THEN Written("map") \cup {t} ELSE Written("map")
            /\ Written("reduce")' =
                 IF phase = "reduce" THEN Written("reduce") \cup {t} ELSE Written("reduce")
        BY <3>1 DEF Phases
      <4> QED
        BY <1>4, <1>2, <4>1
    <3>3. t \in Job!Tasks[phase]
      BY <1>3, <1>4, <2>1
    <3>4. Job!Do(t)
      BY <2>3, <3>2, <3>3 DEF Job!Do, stageOf, doneOf
    <3> QED
      BY <2>4, <3>4 DEF Job!Next
  <2> QED
    BY <1>6, <2>5, <2>6 DEF DoTask
<1>7. CASE StopServer
  BY <1>7 DEF StopServer, stageOf, doneOf, fileVars
<1>8. ASSUME ~Check, ~StopServer, \A job \in jobs : DoTask(job) => ReduceThrows(job)
      PROVE  UNCHANGED <<stageOf, doneOf>>
  <2>1. CASE Master
    <3>1. /\ UNCHANGED <<serving, phase, inter, result>>
          /\ pc # "stop" \/ ~serving
          /\ pc' # "stop" \/ ~serving'
      BY <1>8, <2>1 DEF Master, Schedule, Iterate, Assign, Await, KillWorkers, Merge, MergeThrows,
                        regVars, fileVars
    <3> QED
      BY <3>1 DEF stageOf, doneOf
  <2>2. CASE ~Master
    <3>1. UNCHANGED <<pc, serving, phase, inter, result>>
      BY <1>8, <2>2 DEF Next, Forward, Register, ForwardWrite, WorkerThread, Call, Removed,
                        CountDown, WriteBack, GiveUp, ReduceThrows, regVars, masterVars, fileVars,
                        vars
    <3> QED
      BY <3>1 DEF stageOf, doneOf
  <2> QED
    BY <2>1, <2>2
<1> QED
  BY <1>5, <1>6, <1>7, <1>8

\* Unless a call outlasts its timeout, the phases of the job come in order, each only when
\* the output of every task of the one before is in place, and it stays in place.
THEOREM Refinement == ASSUME ~Slow PROVE Spec => ImplementsJob
<1>1. JobInv /\ JobInv' /\ [Next]_vars => [Job!Next]_<<stageOf, doneOf>>
  BY AbstractStep
<1> QED
  BY <1>1, AbstractInit, JobInvariance, PTL
  DEF Spec, ImplementsJob, Job!Spec, Job!jobVars, stageOf, doneOf
=============================================================================
