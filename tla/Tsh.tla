-------------------------------- MODULE Tsh --------------------------------
(***************************************************************************)
(* Job control of the tiny shell (ICS/lab9/tsh.c).  The main loop and the  *)
(* handlers of SIGCHLD, SIGINT and SIGTSTP share the job list; a handler   *)
(* interrupts the main loop, and any other handler, between any two steps  *)
(* that no signal mask joins.  Each job is one process; its program may    *)
(* stop itself, as mystop does, and leaves the default signal actions.     *)
(***************************************************************************)
EXTENDS Integers, Sequences, FiniteSets

CONSTANTS
  Procs,    \* process numbers
  MAXJOBS,  \* entries of the job list
  MaxKeys   \* bound of the model: ctrl-c and ctrl-z typed

ASSUME TshAssumption ==
  /\ Procs \subseteq Nat \ {0}
  /\ MAXJOBS \in Nat \ {0} /\ MaxKeys \in Nat

VARIABLES
  jobs,      \* the job list
  refused,   \* children that addjob had no room for
  main,      \* where the main loop is
  handlers,  \* the handlers that run, the innermost first
  pending,   \* signals sent to the shell and not delivered
  child,     \* what the kernel knows of each process
  unwaited,  \* children whose stop waitpid has not reported
  keys       \* keys typed

vars == <<jobs, refused, main, handlers, pending, child, unwaited, keys>>

Slots == 1 .. MAXJOBS
Pids == Procs \cup {0}
Keys == {"SIGINT", "SIGTSTP"}
Frame == [sig : Keys \cup {"SIGCHLD"}, pid : Pids, status : {"none", "gone", "stopped"}]

TypeOK ==
  /\ jobs \in [Slots -> [pid : Pids, state : {"UNDEF", "FG", "BG", "ST"}]]
  /\ refused \subseteq Procs
  /\ main \in [at : {"prompt", "forked", "found", "continued", "waitfg", "ended"},
               pid : Pids, slot : Slots, state : {"FG", "BG"}]
  /\ handlers \in Seq(Frame) /\ Len(handlers) <= 3
  /\ pending \subseteq Keys \cup {"SIGCHLD"}
  /\ child \in [Procs -> {"none", "new", "run", "stopped", "zombie"}]
  /\ unwaited \subseteq Procs /\ keys \in 0 .. MaxKeys

Prompt == [at |-> "prompt", pid |-> 0, slot |-> 1, state |-> "BG"]
Cleared == [pid |-> 0, state |-> "UNDEF"]

Init ==
  /\ jobs = [i \in Slots |-> Cleared] /\ refused = {}
  /\ main = Prompt /\ handlers = << >> /\ pending = {}
  /\ child = [p \in Procs |-> "none"] /\ unwaited = {} /\ keys = 0

---------------------------------------------------------------------------
(* The job list *)

Lowest(slots) == CHOOSE i \in slots : \A j \in slots : i <= j
fgpid == LET fg == {i \in Slots : jobs[i].state = "FG"}
         IN  IF fg = {} THEN 0 ELSE jobs[Lowest(fg)].pid
listed(p) == {i \in Slots : jobs[i].pid = p}

addjob(p, st) ==
  LET free == listed(0)
  IN  IF free = {} THEN refused' = refused \cup {p} /\ UNCHANGED jobs
      ELSE jobs' = [jobs EXCEPT ![Lowest(free)] = [pid |-> p, state |-> st]] /\ UNCHANGED refused

deletejob(p) ==
  jobs' = [i \in Slots |-> IF i \in listed(p) THEN Cleared ELSE jobs[i]]

---------------------------------------------------------------------------
(* The main loop, while no handler runs *)

ended == main.at = "ended"
exit == [Prompt EXCEPT !.at = "ended"]
Main(at) == main.at = at /\ handlers = << >>

\* eval: block SIGCHLD and fork.  Which free number the kernel gives makes no difference.
Fork(p, st) ==
  /\ Main("prompt") /\ child[p] = "none" /\ \A q \in Procs : child[q] = "none" => p <= q
  /\ child' = [child EXCEPT ![p] = "new"]
  /\ main' = [Prompt EXCEPT !.at = "forked", !.pid = p, !.state = st]
  /\ UNCHANGED <<jobs, refused, handlers, pending, unwaited, keys>>

\* Faulty variant: the shell does not wait for a foreground job.
AddJobForget ==
  /\ Main("forked")
  /\ addjob(main.pid, main.state)
  /\ main' = Prompt
  /\ UNCHANGED <<handlers, pending, child, unwaited, keys>>

\* eval: with all signals masked, enter the job.  When the mask is taken back, a
\* SIGCHLD that waits is delivered before sigprocmask returns.
AddJob ==
  /\ Main("forked")
  /\ addjob(main.pid, main.state)
  /\ main' = IF main.state = "FG" THEN [main EXCEPT !.at = "waitfg"] ELSE Prompt
  /\ handlers' = IF "SIGCHLD" \in pending
                 THEN <<[sig |-> "SIGCHLD", pid |-> 0, status |-> "none"]>> ELSE << >>
  /\ pending' = pending \ {"SIGCHLD"}
  /\ UNCHANGED <<child, unwaited, keys>>

\* do_bgfg: find the job.
FindJob(i, st) ==
  /\ Main("prompt") /\ jobs[i].pid # 0
  /\ main' = [Prompt EXCEPT !.at = "found", !.slot = i, !.state = st]
  /\ UNCHANGED <<jobs, refused, handlers, pending, child, unwaited, keys>>

\* do_bgfg: kill(-job->pid, SIGCONT).  A group that does not exist yet, or any more, ends
\* the shell; number 0 is the shell's own group.
ContinueJob ==
  /\ Main("found")
  /\ LET p == jobs[main.slot].pid
     IN  /\ main' = IF p # 0 /\ child[p] \in {"none", "new"} THEN exit
                    ELSE [main EXCEPT !.at = "continued"]
         /\ IF p # 0 /\ child[p] = "stopped"
            THEN /\ child' = [child EXCEPT ![p] = "run"] /\ unwaited' = unwaited \ {p}
                 /\ pending' = pending \cup {"SIGCHLD"}
            ELSE UNCHANGED <<child, unwaited, pending>>
  /\ UNCHANGED <<jobs, refused, handlers, keys>>

\* Faulty variant: bg leaves the state of the job alone.
SetStateFg ==
  /\ Main("continued")
  /\ jobs' = IF main.state = "FG" THEN [jobs EXCEPT ![main.slot].state = "FG"] ELSE jobs
  /\ main' = IF main.state = "FG" THEN [main EXCEPT !.at = "waitfg", !.pid = jobs[main.slot].pid]
             ELSE Prompt
  /\ UNCHANGED <<refused, handlers, pending, child, unwaited, keys>>

\* do_bgfg: job->state, and fg waits.
SetState ==
  /\ Main("continued")
  /\ jobs' = [jobs EXCEPT ![main.slot].state = main.state]
  /\ main' = IF main.state = "FG" THEN [main EXCEPT !.at = "waitfg", !.pid = jobs[main.slot].pid]
             ELSE Prompt
  /\ UNCHANGED <<refused, handlers, pending, child, unwaited, keys>>

\* waitfg's loop ends.
WaitfgReturns ==
  /\ Main("waitfg") /\ fgpid # main.pid
  /\ main' = Prompt
  /\ UNCHANGED <<jobs, refused, handlers, pending, child, unwaited, keys>>

Quit ==
  /\ Main("prompt")
  /\ main' = exit
  /\ UNCHANGED <<jobs, refused, handlers, pending, child, unwaited, keys>>

---------------------------------------------------------------------------
(* The handlers *)

\* Faulty variant: a handler can interrupt itself.
DeliverNested(sig) ==
  /\ ~ ended /\ sig \in pending
  /\ ~ (sig = "SIGCHLD" /\ main.at = "forked")
  /\ handlers' = <<[sig |-> sig, pid |-> 0, status |-> "none"]>> \o handlers
  /\ pending' = pending \ {sig}
  /\ UNCHANGED <<jobs, refused, main, child, unwaited, keys>>

\* Faulty variant: eval does not block SIGCHLD around fork.
DeliverUnblocked(sig) ==
  /\ ~ ended /\ sig \in pending
  /\ \A i \in 1 .. Len(handlers) : handlers[i].sig # sig
  /\ handlers' = <<[sig |-> sig, pid |-> 0, status |-> "none"]>> \o handlers
  /\ pending' = pending \ {sig}
  /\ UNCHANGED <<jobs, refused, main, child, unwaited, keys>>

\* A signal is delivered unless its own handler runs or, for SIGCHLD, eval blocks it.
Deliver(sig) ==
  /\ ~ ended /\ sig \in pending
  /\ \A i \in 1 .. Len(handlers) : handlers[i].sig # sig
  /\ ~ (sig = "SIGCHLD" /\ main.at = "forked")
  /\ handlers' = <<[sig |-> sig, pid |-> 0, status |-> "none"]>> \o handlers
  /\ pending' = pending \ {sig}
  /\ UNCHANGED <<jobs, refused, main, child, unwaited, keys>>

Innermost(sigs) == ~ ended /\ handlers # << >> /\ handlers[1].sig \in sigs

\* waitpid(WNOHANG | WUNTRACED) answers one child that is over or has newly stopped.
Waitpid(p) ==
  /\ Innermost({"SIGCHLD"}) /\ handlers[1].status = "none"
  /\ \/ /\ child[p] = "zombie"
        /\ child' = [child EXCEPT ![p] = "none"]
        /\ handlers' = [handlers EXCEPT ![1] = [@ EXCEPT !.pid = p, !.status = "gone"]]
        /\ UNCHANGED unwaited
     \/ /\ p \in unwaited
        /\ handlers' = [handlers EXCEPT ![1] = [@ EXCEPT !.pid = p, !.status = "stopped"]]
        /\ unwaited' = unwaited \ {p}
        /\ UNCHANGED child
  /\ UNCHANGED <<jobs, refused, main, pending, keys>>

WaitpidNone ==
  /\ Innermost({"SIGCHLD"}) /\ handlers[1].status = "none"
  /\ unwaited = {} /\ \A p \in Procs : child[p] # "zombie"
  /\ handlers' = Tail(handlers)
  /\ UNCHANGED <<jobs, refused, main, pending, child, unwaited, keys>>

\* Faulty variant: one signal, one child: the handler does not loop.
ReapOnce ==
  /\ Innermost({"SIGCHLD"}) /\ handlers[1].status # "none"
  /\ LET p == handlers[1].pid
     IN  IF handlers[1].status = "gone"
         THEN deletejob(p) /\ refused' = refused \ {p} /\ UNCHANGED main
         ELSE IF listed(p) = {} THEN main' = exit /\ UNCHANGED <<jobs, refused>>
         ELSE /\ jobs' = [i \in Slots |-> IF i \in listed(p) THEN [jobs[i] EXCEPT !.state = "ST"]
                                          ELSE jobs[i]]
              /\ UNCHANGED <<refused, main>>
  /\ handlers' = Tail(handlers)
  /\ UNCHANGED <<pending, child, unwaited, keys>>

\* With all signals blocked, the handler enters what it learned, and loops.  A stopped child
\* that is not in the list crashes the shell: getjobpid answers NULL.
Reap ==
  /\ Innermost({"SIGCHLD"}) /\ handlers[1].status # "none"
  /\ LET p == handlers[1].pid
     IN  IF handlers[1].status = "gone"
         THEN deletejob(p) /\ refused' = refused \ {p} /\ UNCHANGED main
         ELSE IF listed(p) = {} THEN main' = exit /\ UNCHANGED <<jobs, refused>>
         ELSE /\ jobs' = [i \in Slots |-> IF i \in listed(p) THEN [jobs[i] EXCEPT !.state = "ST"]
                                          ELSE jobs[i]]
              /\ UNCHANGED <<refused, main>>
  /\ handlers' = [handlers EXCEPT ![1] = [sig |-> "SIGCHLD", pid |-> 0, status |-> "none"]]
  /\ UNCHANGED <<pending, child, unwaited, keys>>

\* sigint_handler and sigtstp_handler: read the foreground job.
FindForeground ==
  /\ Innermost(Keys) /\ handlers[1].pid = 0
  /\ handlers' = IF fgpid = 0 THEN Tail(handlers) ELSE [handlers EXCEPT ![1].pid = fgpid]
  /\ UNCHANGED <<jobs, refused, main, pending, child, unwaited, keys>>

\* and send its group the signal; a group that is not there ends the shell.
KillForeground ==
  /\ Innermost(Keys) /\ handlers[1].pid # 0
  /\ LET p == handlers[1].pid
         stop == handlers[1].sig = "SIGTSTP"
     IN  /\ main' = IF child[p] \in {"none", "new"} THEN exit ELSE main
         /\ IF child[p] = "run"
            THEN /\ child' = [child EXCEPT ![p] = IF stop THEN "stopped" ELSE "zombie"]
                 /\ unwaited' = IF stop THEN unwaited \cup {p} ELSE unwaited
                 /\ pending' = pending \cup {"SIGCHLD"}
            ELSE UNCHANGED <<child, unwaited, pending>>
  /\ handlers' = Tail(handlers)
  /\ UNCHANGED <<jobs, refused, keys>>

---------------------------------------------------------------------------
(* The keyboard and the children *)

TypeKey(sig) ==
  /\ ~ ended /\ keys < MaxKeys
  /\ keys' = keys + 1 /\ pending' = pending \cup {sig}
  /\ UNCHANGED <<jobs, refused, main, handlers, child, unwaited>>

Setpgid(p) ==
  /\ ~ ended /\ child[p] = "new"
  /\ child' = [child EXCEPT ![p] = "run"]
  /\ UNCHANGED <<jobs, refused, main, handlers, pending, unwaited, keys>>

\* The program ends, or stops itself.
ChildEnds(p) ==
  /\ ~ ended /\ child[p] = "run"
  /\ child' = [child EXCEPT ![p] = "zombie"]
  /\ pending' = pending \cup {"SIGCHLD"}
  /\ UNCHANGED <<jobs, refused, main, handlers, unwaited, keys>>

ChildStops(p) ==
  /\ ~ ended /\ child[p] = "run"
  /\ child' = [child EXCEPT ![p] = "stopped"] /\ unwaited' = unwaited \cup {p}
  /\ pending' = pending \cup {"SIGCHLD"}
  /\ UNCHANGED <<jobs, refused, main, handlers, keys>>

Handle == (\E p \in Procs : Waitpid(p)) \/ WaitpidNone \/ Reap \/ FindForeground \/ KillForeground

Next ==
  \/ \E st \in {"FG", "BG"} :
       (\E p \in Procs : Fork(p, st)) \/ (\E i \in Slots : FindJob(i, st))
  \/ AddJob \/ ContinueJob \/ SetState \/ WaitfgReturns \/ Quit
  \/ Deliver("SIGCHLD") \/ \E sig \in Keys : Deliver(sig) \/ TypeKey(sig)
  \/ Handle
  \/ \E p \in Procs : Setpgid(p) \/ ChildEnds(p) \/ ChildStops(p)

\* The kernel delivers what is not blocked, and the shell is given processor time.
Fairness == WF_vars(Deliver("SIGCHLD")) /\ WF_vars(Handle) /\ WF_vars(AddJob)

Spec == Init /\ [][Next]_vars /\ Fairness

---------------------------------------------------------------------------
(* Properties *)

\* The job list is the list of the shell's children: each that is not reaped is in it once,
\* from the end of eval's critical section on and unless the list was full, and none stays
\* after it was reaped.  (SIGCHLD is blocked around fork for this, tsh.c:184.)
JobListIsExact ==
  \A p \in Procs :
    /\ Cardinality(listed(p)) <= 1
    /\ listed(p) # {} => child[p] # "none" \/ \E i \in 1 .. Len(handlers) :
                           handlers[i].pid = p /\ handlers[i].status = "gone"
    /\ child[p] # "none" => listed(p) # {} \/ p \in refused
                            \/ (main.at = "forked" /\ main.pid = p)

\* "At most 1 job can be in the FG state" (tsh.c:36), whatever handlers do meanwhile.
AtMostOneFg == Cardinality({i \in Slots : jobs[i].state = "FG"}) <= 1

\* A job the list shows as stopped is stopped, once the handlers have caught up.
quiet == "SIGCHLD" \notin pending /\ main.at # "continued"
         /\ \A i \in 1 .. Len(handlers) : handlers[i].sig # "SIGCHLD"
StoppedIsStopped ==
  quiet => \A i \in Slots : jobs[i].state = "ST" => child[jobs[i].pid] = "stopped"

\* Signals do not queue, and yet every child that ends is reaped.
ChildrenAreReaped ==
  \A p \in Procs : child[p] = "zombie" ~> child[p] # "zombie" \/ ended

\* waitfg blocks "until process pid is no longer the foreground process" (tsh.c:421): with
\* every signal handled, it waits only for a job that runs.
WaitfgWaitsForForeground ==
  main.at = "waitfg" /\ handlers = << >> /\ pending = {} /\ fgpid = main.pid =>
    main.pid # 0 /\ child[main.pid] \in {"new", "run"}
=============================================================================
