---------------------------- MODULE MapReduceJob ----------------------------
(***************************************************************************)
(* What the master promises of a job (DS/lab4, Master.run and              *)
(* Scheduler.schedule): the tasks of a phase are done in any order, some   *)
(* of them more than once, and a task that is done again rewrites its      *)
(* output; the next phase starts, and the merge reads the results, only    *)
(* when the output of every task is in place, and it then stays in place.  *)
(***************************************************************************)
EXTENDS Naturals

CONSTANTS NMap,     \* the number of map tasks
          NReduce   \* the number of reduce tasks

VARIABLES stage,    \* "map", "reduce" or "over"
          done      \* the tasks whose output is in place, for each stage

jobVars == <<stage, done>>

Tasks == [map |-> 0 .. NMap - 1, reduce |-> 0 .. NReduce - 1]

Init == /\ stage = "map"
        /\ done = [s \in {"map", "reduce"} |-> {}]

Do(t) == /\ stage # "over"
         /\ t \in Tasks[stage]
         /\ done' = [done EXCEPT ![stage] = @ \cup {t}]
         /\ UNCHANGED stage

Redo(t) == /\ stage # "over"
           /\ t \in done[stage]
           /\ done' = [done EXCEPT ![stage] = @ \ {t}]
           /\ UNCHANGED stage

Advance == /\ stage # "over"
           /\ done[stage] = Tasks[stage]
           /\ stage' = IF stage = "map" THEN "reduce" ELSE "over"
           /\ UNCHANGED done

Next == Advance \/ \E t \in 0 .. (NMap + NReduce) : Do(t) \/ Redo(t)

Spec == Init /\ [][Next]_jobVars
=============================================================================
