----------------------------- MODULE TshProofs -----------------------------
(***************************************************************************)
(* Machine-checked proofs about Tsh, for every set of processes, every     *)
(* size of the job list and any number of keys typed.                      *)
(***************************************************************************)
EXTENDS Tsh, FiniteSetTheorems, WellFoundedInduction, TLAPS

Frames == 1 .. Len(handlers)

\* Handlers interrupt each other, but none itself.  One of SIGINT or SIGTSTP that has a
\* process to signal interrupts waitfg; the one of SIGCHLD never interrupts fork, and
\* what waitpid told it stays true until it has entered it in the list.
HandlersNest ==
  /\ \A i, j \in Frames : handlers[i].sig = handlers[j].sig => i = j
  /\ \A i \in Frames :
       /\ handlers[i].status # "none" => handlers[i].sig = "SIGCHLD" /\ handlers[i].pid # 0
       /\ handlers[i].sig # "SIGCHLD" /\ handlers[i].pid # 0 => main.at \in {"waitfg", "ended"}
       /\ handlers[i].sig = "SIGCHLD" => main.at # "forked"
       /\ handlers[i].status = "gone" => child[handlers[i].pid] = "none"
       /\ handlers[i].status = "stopped" => child[handlers[i].pid] = "stopped"

\* Between fork and addjob the child exists and is not in the list.
ForkedIsNew ==
  main.at = "forked" =>
    /\ main.pid # 0 /\ child[main.pid] # "none"
    /\ \A i \in Slots : jobs[i].pid # main.pid

\* Only while the shell waits is there a foreground job: the one it waits for.
FgIsWaitedFor ==
  /\ main.at \notin {"waitfg", "ended"} => \A i \in Slots : jobs[i].state # "FG"
  /\ main.at = "waitfg" => \A i \in Slots : jobs[i].state = "FG" => jobs[i].pid = main.pid
  /\ \A i, j \in Slots : jobs[i].state = "FG" /\ jobs[j].state = "FG" => i = j

\* JobListIsExact, slot by slot.
ListExact ==
  /\ \A i, j \in Slots : jobs[i].pid # 0 /\ jobs[i].pid = jobs[j].pid => i = j
  /\ \A i \in Slots : jobs[i].pid # 0 /\ child[jobs[i].pid] = "none" =>
       \E k \in Frames : handlers[k].pid = jobs[i].pid /\ handlers[k].status = "gone"
  /\ \A p \in Procs : child[p] # "none" =>
       \/ \E i \in Slots : jobs[i].pid = p
       \/ p \in refused
       \/ main.at = "forked" /\ main.pid = p

\* A job shown as stopped is stopped, except between do_bgfg's SIGCONT and its new state,
\* or when the SIGCHLD handler has crashed the shell in between.
StopsAreTrue ==
  /\ \A p \in unwaited : child[p] = "stopped"
  /\ \A i \in Slots : jobs[i].state = "ST" =>
       /\ jobs[i].pid # 0
       /\ \/ child[jobs[i].pid] = "stopped"
          \/ main.at = "continued" /\ main.slot = i
          \/ main.at = "ended" /\ \E k \in Frames : handlers[k].sig = "SIGCHLD"

TshInv ==
  TypeOK /\ HandlersNest /\ ForkedIsNew /\ FgIsWaitedFor /\ ListExact /\ StopsAreTrue

-----------------------------------------------------------------------------
(* The job list and the stack of handlers.                                 *)

\* A set of slots that is not empty has a lowest one.
LEMMA LowestIsIn == ASSUME NEW S, S \subseteq Slots, S # {} PROVE Lowest(S) \in S
<1>1. S \subseteq Nat
  BY DEF Slots
<1>2. PICK x \in S : \A y \in S : ~ (<<y, x>> \in OpToRel(<, Nat))
  BY <1>1, NatLessThanWellFounded, WFMin, Zenon
<1>3. \A y \in S : ~ (y < x)
  BY <1>1, <1>2, Zenon DEF OpToRel
<1>4. \A y \in S : x <= y
  BY <1>1, <1>3
<1> QED
  BY <1>4 DEF Lowest

LEMMA FgPid ==
  ASSUME TypeOK
  PROVE  /\ fgpid \in Pids
         /\ (\A i \in Slots : jobs[i].state # "FG") => fgpid = 0
         /\ (\E i \in Slots : jobs[i].state = "FG") =>
              \E i \in Slots : jobs[i].state = "FG" /\ fgpid = jobs[i].pid
<1> DEFINE fg == {i \in Slots : jobs[i].state = "FG"}
<1>1. CASE fg = {}
  BY <1>1 DEF fgpid, Pids
<1>2. CASE fg # {}
  <2>1. Lowest(fg) \in fg
    BY <1>2, LowestIsIn
  <2>2. fgpid = jobs[Lowest(fg)].pid
    BY <1>2 DEF fgpid
  <2> QED
    BY <2>1, <2>2 DEF TypeOK
<1> QED
  BY <1>1, <1>2

\* What addjob does: nothing to a list that is full, and else one entry that was free.
LEMMA AddjobEffect ==
  ASSUME TypeOK, NEW p \in Procs, NEW st \in {"FG", "BG"}, addjob(p, st)
  PROVE  \/ jobs' = jobs /\ refused' = refused \cup {p}
         \/ /\ refused' = refused
            /\ \E i \in Slots : /\ jobs[i].pid = 0
                                /\ jobs' = [jobs EXCEPT ![i] = [pid |-> p, state |-> st]]
<1>1. CASE listed(0) = {}
  BY <1>1 DEF addjob
<1>2. CASE listed(0) # {}
  <2>1. Lowest(listed(0)) \in listed(0)
    BY <1>2, LowestIsIn DEF listed
  <2> QED
    BY <1>2, <2>1 DEF addjob, listed
<1> QED
  BY <1>1, <1>2

LEMMA DeletejobEffect ==
  ASSUME TypeOK, NEW p, deletejob(p)
  PROVE  \A i \in Slots : jobs'[i] = IF jobs[i].pid = p THEN Cleared ELSE jobs[i]
BY DEF deletejob, listed

\* A handler that is entered, and one that returns.
LEMMA Push ==
  ASSUME NEW h \in Seq(Frame), NEW f \in Frame
  PROVE  LET n == <<f>> \o h
         IN  /\ n \in Seq(Frame) /\ Len(n) = Len(h) + 1 /\ n[1] = f
             /\ \A i \in 1 .. Len(h) : n[i + 1] = h[i] /\ i + 1 \in 1 .. Len(n)
             /\ \A i \in 1 .. Len(n) : i = 1 \/ (i - 1 \in 1 .. Len(h) /\ n[i] = h[i - 1])
OBVIOUS

LEMMA Pop ==
  ASSUME NEW h \in Seq(Frame), h # << >>
  PROVE  /\ Tail(h) \in Seq(Frame) /\ Len(Tail(h)) = Len(h) - 1 /\ Len(h) >= 1
         /\ \A i \in 1 .. Len(Tail(h)) : Tail(h)[i] = h[i + 1] /\ i + 1 \in 1 .. Len(h)
         /\ \A i \in 1 .. Len(h) : i # 1 => i - 1 \in 1 .. Len(Tail(h)) /\ Tail(h)[i - 1] = h[i]
OBVIOUS

\* There are three handlers, so no more than three are nested.
LEMMA AtMostThree ==
  ASSUME NEW h \in Seq(Frame), \A i, j \in 1 .. Len(h) : h[i].sig = h[j].sig => i = j
  PROVE  Len(h) <= 3
<1> SUFFICES ASSUME Len(h) >= 4 PROVE FALSE
  OBVIOUS
<1>1. \A i \in 1 .. Len(h) : h[i] \in Frame
  OBVIOUS
<1>2. \A i \in 1 .. Len(h) : h[i].sig \in {"SIGINT", "SIGTSTP", "SIGCHLD"}
  BY <1>1 DEF Frame, Keys
<1>3. {1, 2, 3, 4} \subseteq 1 .. Len(h)
  OBVIOUS
<1> QED
  BY <1>2, <1>3

-----------------------------------------------------------------------------
(* The steps keep the invariant.                                           *)

LEMMA TshInvInit == Init => TshInv
<1> SUFFICES ASSUME Init PROVE TshInv
  OBVIOUS
<1> USE TshAssumption
<1>1. TypeOK
  BY DEF Init, TypeOK, Cleared, Prompt, Pids, Slots, Keys, Frame
<1>2. \A i \in Slots : jobs[i].pid = 0 /\ jobs[i].state = "UNDEF"
  BY DEF Init, Cleared
<1>3. Frames = {} /\ main.at = "prompt" /\ main.pid = 0
  BY DEF Init, Frames, Prompt
<1> QED
  BY <1>1, <1>2, <1>3
  DEF TshInv, HandlersNest, ForkedIsNew, FgIsWaitedFor, ListExact, StopsAreTrue, Init

\* When the innermost handler returns the others are as they were.
LEMMA ReturnKeeps ==
  ASSUME TypeOK, HandlersNest, handlers # << >>, handlers' = Tail(handlers),
         child' = child, main' = main
  PROVE  HandlersNest' /\ handlers' \in Seq(Frame) /\ Len(handlers') <= 3
<1>1. /\ handlers' \in Seq(Frame) /\ Len(handlers') = Len(handlers) - 1 /\ Len(handlers) <= 3
      /\ \A i \in Frames' : handlers'[i] = handlers[i + 1] /\ i + 1 \in Frames
  BY Pop DEF TypeOK, Frames
<1>2. \A i, j \in Frames' : handlers'[i].sig = handlers'[j].sig => i = j
  BY <1>1 DEF HandlersNest, Frames
<1>3. ASSUME NEW i \in Frames'
      PROVE  /\ handlers'[i].status # "none" => handlers'[i].sig = "SIGCHLD" /\ handlers'[i].pid # 0
             /\ handlers'[i].sig # "SIGCHLD" /\ handlers'[i].pid # 0 => main'.at \in {"waitfg", "ended"}
             /\ handlers'[i].sig = "SIGCHLD" => main'.at # "forked"
             /\ handlers'[i].status = "gone" => child'[handlers'[i].pid] = "none"
             /\ handlers'[i].status = "stopped" => child'[handlers'[i].pid] = "stopped"
  <2> DEFINE j == i + 1
  <2>1. j \in Frames /\ handlers'[i] = handlers[j]
    BY <1>1
  <2> HIDE DEF j
  <2> QED
    BY <2>1 DEF HandlersNest
<1>4. HandlersNest'
  BY <1>2, <1>3 DEF HandlersNest
<1> QED
  BY <1>1, <1>4

\* The return of a handler that waitpid has told nothing leaves the list as true as it was.
LEMMA KeyReturns ==
  ASSUME TshInv, handlers # << >>, handlers[1].status = "none", handlers[1].sig # "SIGCHLD",
         handlers' = Tail(handlers), UNCHANGED <<jobs, refused, main, child, unwaited>>
  PROVE  ListExact' /\ StopsAreTrue'
<1>1. \A k \in Frames : k # 1 => \E l \in Frames' : handlers'[l] = handlers[k]
  BY Pop, ZenonT(40) DEF TshInv, TypeOK, Frames
<1>2. \A i \in Slots : jobs[i].pid # 0 /\ child[jobs[i].pid] = "none" =>
        \E l \in Frames' : handlers'[l].pid = jobs[i].pid /\ handlers'[l].status = "gone"
  <2> SUFFICES ASSUME NEW i \in Slots, jobs[i].pid # 0, child[jobs[i].pid] = "none"
               PROVE  \E l \in Frames' : handlers'[l].pid = jobs[i].pid /\ handlers'[l].status = "gone"
    OBVIOUS
  <2>1. PICK k \in Frames : handlers[k].pid = jobs[i].pid /\ handlers[k].status = "gone"
    BY DEF TshInv, ListExact
  <2> QED
    BY <1>1, <2>1
<1>3. (\E k \in Frames : handlers[k].sig = "SIGCHLD") => \E k \in Frames' : handlers'[k].sig = "SIGCHLD"
  BY <1>1
<1>4. ListExact'
  BY <1>2 DEF TshInv, ListExact
<1> QED
  BY <1>3, <1>4 DEF TshInv, StopsAreTrue

LEMMA ForkStep ==
  ASSUME TshInv, NEW p \in Procs, NEW st \in {"FG", "BG"}, Fork(p, st) PROVE TshInv'
<1> USE DEF TshInv
<1>1. /\ main.at = "prompt" /\ handlers = << >> /\ child[p] = "none"
      /\ child' = [child EXCEPT ![p] = "new"]
      /\ main' = [at |-> "forked", pid |-> p, slot |-> 1, state |-> st]
      /\ UNCHANGED <<jobs, refused, handlers, pending, unwaited, keys>>
  BY DEF Fork, Main, Prompt
<1>2. TypeOK'
  BY <1>1, TshAssumption DEF TypeOK, Pids, Slots
<1>3. HandlersNest' /\ Frames = {} /\ Frames' = {}
  BY <1>1 DEF HandlersNest, Frames
<1>4. \A i \in Slots : jobs[i].pid # p
  BY <1>1, <1>3, TshAssumption DEF ListExact, TypeOK, Pids
<1>5. ForkedIsNew'
  BY <1>1, <1>4, TshAssumption DEF ForkedIsNew, TypeOK
<1>6. FgIsWaitedFor'
  BY <1>1 DEF FgIsWaitedFor
<1>7. ListExact'
  BY <1>1, <1>3, <1>4 DEF ListExact, TypeOK, Pids
<1>8. StopsAreTrue'
  BY <1>1, <1>3, <1>4 DEF StopsAreTrue, TypeOK, Pids
<1> QED
  BY <1>2, <1>3, <1>5, <1>6, <1>7, <1>8

LEMMA AddJobStep == ASSUME TshInv, AddJob PROVE TshInv'
<1> USE DEF TshInv
<1> DEFINE p == main.pid
           st == main.state
           f == [sig |-> "SIGCHLD", pid |-> 0, status |-> "none"]
<1>1. /\ main.at = "forked" /\ handlers = << >> /\ addjob(p, st)
      /\ UNCHANGED <<child, unwaited, keys>> /\ pending' = pending \ {"SIGCHLD"}
      /\ main' = IF st = "FG" THEN [main EXCEPT !.at = "waitfg"] ELSE Prompt
      /\ handlers' \in {<<f>>, << >>}
  BY DEF AddJob, Main
<1>2. p \in Procs /\ st \in {"FG", "BG"} /\ child[p] # "none" /\ \A i \in Slots : jobs[i].pid # p
  BY <1>1 DEF ForkedIsNew, TypeOK, Pids
<1>3. /\ main'.at = IF st = "FG" THEN "waitfg" ELSE "prompt"
      /\ st = "FG" => main'.pid = p
      /\ main' \in [at : {"prompt", "forked", "found", "continued", "waitfg", "ended"},
                    pid : Pids, slot : Slots, state : {"FG", "BG"}]
  BY <1>1, TshAssumption DEF TypeOK, Prompt, Pids, Slots
<1>4. /\ handlers' \in Seq(Frame) /\ Len(handlers') <= 1 /\ Len(handlers') \in Nat
      /\ \A i \in Frames' : i = 1 /\ handlers'[i] = f
      /\ Frames = {}
  <2>1. f \in Frame
    BY DEF Frame, Pids
  <2> HIDE DEF f
  <2>2. CASE handlers' = <<f>>
    BY <1>1, <2>1, <2>2 DEF Frames
  <2>3. CASE handlers' = << >>
    BY <1>1, <2>3 DEF Frames
  <2> QED
    BY <1>1, <2>2, <2>3
<1>5. HandlersNest'
  BY <1>3, <1>4 DEF HandlersNest
<1>6. /\ \A i \in Slots : jobs[i].state # "FG" /\ jobs[i].pid \in Pids
      /\ \A i, j \in Slots : jobs[i].pid # 0 /\ jobs[i].pid = jobs[j].pid => i = j
      /\ \A i \in Slots : jobs[i].pid # 0 => child[jobs[i].pid] # "none"
      /\ \A q \in Procs \ {p} : child[q] # "none" => q \in refused \/ \E i \in Slots : jobs[i].pid = q
      /\ \A i \in Slots : jobs[i].state = "ST" => jobs[i].pid # 0 /\ child[jobs[i].pid] = "stopped"
  BY <1>1, <1>4 DEF FgIsWaitedFor, ListExact, StopsAreTrue, TypeOK
<1>7. CASE jobs' = jobs /\ refused' = refused \cup {p}
  <2>1. TypeOK'
    BY <1>1, <1>2, <1>3, <1>4, <1>7 DEF TypeOK
  <2>2. ForkedIsNew' /\ FgIsWaitedFor' /\ ListExact' /\ StopsAreTrue'
    BY <1>1, <1>2, <1>3, <1>6, <1>7 DEF ForkedIsNew, FgIsWaitedFor, ListExact, StopsAreTrue
  <2> QED
    BY <1>5, <2>1, <2>2
<1>8. CASE refused' = refused /\ \E i \in Slots :
             jobs[i].pid = 0 /\ jobs' = [jobs EXCEPT ![i] = [pid |-> p, state |-> st]]
  <2>1. PICK i \in Slots :
          jobs[i].pid = 0 /\ jobs' = [jobs EXCEPT ![i] = [pid |-> p, state |-> st]]
    BY <1>8
  <2>2. /\ \A j \in Slots \ {i} : jobs'[j] = jobs[j]
        /\ jobs'[i].pid = p /\ jobs'[i].state = st
    BY <2>1 DEF TypeOK
  <2>3. TypeOK'
    BY <1>1, <1>2, <1>3, <1>4, <1>8, <2>1 DEF TypeOK, Pids
  <2>4. ForkedIsNew' /\ FgIsWaitedFor'
    BY <1>1, <1>2, <1>3, <1>6, <2>2 DEF ForkedIsNew, FgIsWaitedFor
  <2>5. ListExact'
    BY <1>1, <1>2, <1>3, <1>6, <1>8, <2>1, <2>2, TshAssumption DEF ListExact
  <2>6. StopsAreTrue'
    BY <1>1, <1>2, <1>3, <1>6, <2>2 DEF StopsAreTrue
  <2> QED
    BY <1>5, <2>3, <2>4, <2>5, <2>6
<1> QED
  BY <1>1, <1>2, <1>7, <1>8, AddjobEffect

LEMMA FindJobStep ==
  ASSUME TshInv, NEW i \in Slots, NEW st \in {"FG", "BG"}, FindJob(i, st) PROVE TshInv'
<1> USE DEF TshInv
<1>1. /\ main.at = "prompt" /\ UNCHANGED <<jobs, refused, handlers, pending, child, unwaited, keys>>
      /\ main' = [at |-> "found", pid |-> 0, slot |-> i, state |-> st]
  BY DEF FindJob, Main, Prompt
<1>2. TypeOK' /\ HandlersNest' /\ ForkedIsNew' /\ FgIsWaitedFor'
  BY <1>1 DEF TypeOK, Pids, HandlersNest, Frames, ForkedIsNew, FgIsWaitedFor
<1>3. ListExact' /\ StopsAreTrue'
  BY <1>1 DEF ListExact, StopsAreTrue, Frames
<1> QED
  BY <1>2, <1>3

LEMMA ContinueJobStep == ASSUME TshInv, ContinueJob PROVE TshInv'
<1> USE DEF TshInv
<1> DEFINE s == main.slot
           p == jobs[s].pid
<1>1. /\ main.at = "found" /\ handlers = << >> /\ UNCHANGED <<jobs, refused, handlers, keys>>
      /\ main' = IF p # 0 /\ child[p] \in {"none", "new"} THEN exit
                 ELSE [main EXCEPT !.at = "continued"]
      /\ \/ p # 0 /\ child[p] = "stopped" /\ child' = [child EXCEPT ![p] = "run"]
            /\ unwaited' = unwaited \ {p} /\ pending' = pending \cup {"SIGCHLD"}
         \/ ~ (p # 0 /\ child[p] = "stopped") /\ UNCHANGED <<child, unwaited, pending>>
  BY DEF ContinueJob, Main
<1>2. s \in Slots /\ p \in Pids /\ Frames = {} /\ Frames' = {}
  BY <1>1 DEF TypeOK, Frames
<1>3. /\ main' \in [at : {"prompt", "forked", "found", "continued", "waitfg", "ended"},
                    pid : Pids, slot : Slots, state : {"FG", "BG"}]
      /\ \/ main'.at = "ended" /\ p # 0 /\ child[p] \in {"none", "new"}
         \/ main'.at = "continued" /\ main'.slot = s
  BY <1>1, TshAssumption, SMTT(30) DEF TypeOK, exit, Prompt, Pids, Slots
<1>4. TypeOK'
  BY <1>1, <1>2, <1>3 DEF TypeOK, Pids
<1>5. HandlersNest' /\ ForkedIsNew' /\ FgIsWaitedFor'
  BY <1>1, <1>2, <1>3 DEF HandlersNest, ForkedIsNew, FgIsWaitedFor
<1>6. \A q \in Procs : /\ child'[q] = "none" <=> child[q] = "none"
                       /\ q # p => child'[q] = child[q]
  BY <1>1, <1>2, <1>3 DEF TypeOK, Pids
<1>7. ListExact'
  BY <1>1, <1>2, <1>3, <1>6 DEF ListExact, TypeOK, Pids
<1>8. StopsAreTrue'
  <2>1. \A q \in unwaited' : child'[q] = "stopped"
    BY <1>1, <1>2 DEF StopsAreTrue, TypeOK, Pids
  <2>2. ASSUME NEW i \in Slots, jobs[i].state = "ST"
        PROVE  /\ jobs[i].pid # 0
               /\ child'[jobs[i].pid] = "stopped" \/ (main'.at = "continued" /\ main'.slot = i)
    <3>1. jobs[i].pid \in Procs /\ child[jobs[i].pid] = "stopped"
      BY <1>1, <1>2, <2>2 DEF StopsAreTrue, TypeOK, Pids
    <3>2. jobs[i].pid # 0
      BY <3>1, TshAssumption
    <3>3. CASE i = s
      <4>1. main'.at = "continued" /\ main'.slot = i
        BY <1>3, <3>1, <3>3
      <4> QED
        BY <3>2, <4>1
    <3>4. CASE i # s
      <4>1. jobs[i].pid # p
        BY <1>2, <3>2, <3>4 DEF ListExact
      <4>2. child'[jobs[i].pid] = "stopped"
        <5> DEFINE q == jobs[i].pid
        <5>1. q \in Procs /\ q # p /\ child[q] = "stopped"
          BY <3>1, <4>1
        <5> HIDE DEF q, p
        <5>2. child'[q] = "stopped"
          BY <1>6, <5>1
        <5> QED
          BY <5>2 DEF q
      <4> QED
        BY <3>2, <4>2
    <3> QED
      BY <3>3, <3>4
  <2> QED
    BY <1>1, <2>1, <2>2 DEF StopsAreTrue
<1> QED
  BY <1>4, <1>5, <1>7, <1>8

LEMMA SetStateStep == ASSUME TshInv, SetState PROVE TshInv'
<1> USE DEF TshInv
<1> DEFINE s == main.slot
<1>1. /\ main.at = "continued" /\ handlers = << >>
      /\ jobs' = [jobs EXCEPT ![s].state = main.state]
      /\ main' = IF main.state = "FG" THEN [main EXCEPT !.at = "waitfg", !.pid = jobs[s].pid]
                 ELSE Prompt
      /\ UNCHANGED <<refused, handlers, pending, child, unwaited, keys>>
  BY DEF SetState, Main
<1>2. /\ s \in Slots /\ main.state \in {"FG", "BG"} /\ Frames = {} /\ Frames' = {}
      /\ \A i \in Slots : jobs[i].state # "FG"
  BY <1>1 DEF TypeOK, Frames, FgIsWaitedFor
<1>3. /\ main' \in [at : {"prompt", "forked", "found", "continued", "waitfg", "ended"},
                    pid : Pids, slot : Slots, state : {"FG", "BG"}]
      /\ main.state = "FG" => main'.at = "waitfg" /\ main'.pid = jobs[s].pid
      /\ main.state = "BG" => main'.at = "prompt"
  <2>1. CASE main.state = "FG"
    <3>1. jobs[s].pid \in Pids
      BY <1>2 DEF TypeOK
    <3> QED
      BY <1>1, <2>1, <3>1 DEF TypeOK
  <2>2. CASE main.state = "BG"
    BY <1>1, <2>2, TshAssumption DEF Prompt, Pids, Slots
  <2> QED
    BY <1>2, <2>1, <2>2
<1>4. /\ \A i \in Slots : jobs'[i].pid = jobs[i].pid
      /\ \A i \in Slots : jobs'[i].state = IF i = s THEN main.state ELSE jobs[i].state
  BY <1>1, <1>2 DEF TypeOK
<1>5. TypeOK'
  BY <1>1, <1>2, <1>3 DEF TypeOK
<1>6. HandlersNest' /\ ForkedIsNew'
  BY <1>1, <1>2, <1>3 DEF HandlersNest, ForkedIsNew
<1>7. FgIsWaitedFor'
  BY <1>2, <1>3, <1>4 DEF FgIsWaitedFor
<1>8. ListExact'
  BY <1>1, <1>2, <1>3, <1>4 DEF ListExact
<1>9. StopsAreTrue'
  BY <1>1, <1>2, <1>3, <1>4 DEF StopsAreTrue
<1> QED
  BY <1>5, <1>6, <1>7, <1>8, <1>9

LEMMA WaitfgReturnsStep == ASSUME TshInv, WaitfgReturns PROVE TshInv'
<1> USE DEF TshInv
<1>1. /\ main.at = "waitfg" /\ fgpid # main.pid /\ main' = Prompt
      /\ UNCHANGED <<jobs, refused, handlers, pending, child, unwaited, keys>>
      /\ Frames = {} /\ Frames' = {}
  BY DEF WaitfgReturns, Main, Frames
<1>2. \A i \in Slots : jobs[i].state # "FG"
  BY <1>1, FgPid DEF FgIsWaitedFor
<1>3. TypeOK'
  BY <1>1, TshAssumption DEF TypeOK, Prompt, Pids, Slots
<1>4. HandlersNest' /\ ForkedIsNew' /\ FgIsWaitedFor' /\ ListExact' /\ StopsAreTrue'
  BY <1>1, <1>2 DEF HandlersNest, ForkedIsNew, FgIsWaitedFor, ListExact, StopsAreTrue, Prompt
<1> QED
  BY <1>3, <1>4

LEMMA QuitStep == ASSUME TshInv, Quit PROVE TshInv'
<1> USE DEF TshInv
<1>1. /\ main.at = "prompt" /\ main' = exit
      /\ UNCHANGED <<jobs, refused, handlers, pending, child, unwaited, keys>>
      /\ Frames = {} /\ Frames' = {}
  BY DEF Quit, Main, Frames
<1>2. main'.at = "ended" /\ TypeOK'
  BY <1>1, TshAssumption DEF TypeOK, exit, Prompt, Pids, Slots
<1>3. HandlersNest' /\ ForkedIsNew' /\ FgIsWaitedFor' /\ ListExact' /\ StopsAreTrue'
  BY <1>1, <1>2 DEF HandlersNest, ForkedIsNew, FgIsWaitedFor, ListExact, StopsAreTrue
<1> QED
  BY <1>2, <1>3

LEMMA DeliverStep ==
  ASSUME TshInv, NEW sig \in Keys \cup {"SIGCHLD"}, Deliver(sig) PROVE TshInv'
<1> USE DEF TshInv
<1> DEFINE f == [sig |-> sig, pid |-> 0, status |-> "none"]
<1>1. /\ main.at # "ended" /\ \A i \in Frames : handlers[i].sig # sig
      /\ ~ (sig = "SIGCHLD" /\ main.at = "forked")
      /\ handlers' = <<f>> \o handlers /\ pending' = pending \ {sig}
      /\ UNCHANGED <<jobs, refused, main, child, unwaited, keys>>
  BY DEF Deliver, ended, Frames
<1>2. f \in Frame /\ f.sig = sig /\ f.pid = 0 /\ f.status = "none" /\ handlers \in Seq(Frame)
  BY DEF Frame, Pids, TypeOK
<1> HIDE DEF f
<1>3. /\ handlers' \in Seq(Frame) /\ Len(handlers') = Len(handlers) + 1 /\ handlers'[1] = f
      /\ \A i \in Frames : handlers'[i + 1] = handlers[i] /\ i + 1 \in Frames'
      /\ \A i \in Frames' : i = 1 \/ (i - 1 \in Frames /\ handlers'[i] = handlers[i - 1])
  BY <1>1, <1>2, Push DEF Frames
<1>4. HandlersNest'
  <2>1. \A i, j \in Frames' : handlers'[i].sig = handlers'[j].sig => i = j
    BY <1>1, <1>2, <1>3 DEF HandlersNest, Frames
  <2>2. \A i \in Frames' :
          /\ handlers'[i].status # "none" => handlers'[i].sig = "SIGCHLD" /\ handlers'[i].pid # 0
          /\ handlers'[i].sig # "SIGCHLD" /\ handlers'[i].pid # 0 => main.at \in {"waitfg", "ended"}
          /\ handlers'[i].sig = "SIGCHLD" => main.at # "forked"
          /\ handlers'[i].status = "gone" => child[handlers'[i].pid] = "none"
          /\ handlers'[i].status = "stopped" => child[handlers'[i].pid] = "stopped"
    <3> TAKE i \in Frames'
    <3>1. CASE i = 1
      BY <1>1, <1>2, <1>3, <3>1
    <3>2. CASE i # 1
      <4> DEFINE j == i - 1
      <4>1. j \in Frames /\ handlers'[i] = handlers[j]
        BY <1>3, <3>2
      <4> HIDE DEF j
      <4> QED
        BY <4>1 DEF HandlersNest
    <3> QED
      BY <3>1, <3>2
  <2> QED
    BY <1>1, <2>1, <2>2 DEF HandlersNest
<1>5. TypeOK'
  <2>1. Len(handlers') <= 3
    BY <1>3, <1>4, AtMostThree DEF HandlersNest, Frames
  <2> QED
    BY <1>1, <1>3, <2>1 DEF TypeOK
<1>6. ForkedIsNew' /\ FgIsWaitedFor' /\ StopsAreTrue'
  BY <1>1 DEF ForkedIsNew, FgIsWaitedFor, StopsAreTrue
<1>7. ListExact'
  <2>1. \A k \in Frames : \E l \in Frames' : handlers'[l] = handlers[k]
    BY <1>3
  <2>2. \A i \in Slots : jobs[i].pid # 0 /\ child[jobs[i].pid] = "none" =>
          \E l \in Frames' : handlers'[l].pid = jobs[i].pid /\ handlers'[l].status = "gone"
    <3> SUFFICES ASSUME NEW i \in Slots, jobs[i].pid # 0, child[jobs[i].pid] = "none"
                 PROVE  \E l \in Frames' : handlers'[l].pid = jobs[i].pid /\ handlers'[l].status = "gone"
      OBVIOUS
    <3>1. PICK k \in Frames : handlers[k].pid = jobs[i].pid /\ handlers[k].status = "gone"
      BY DEF ListExact
    <3> QED
      BY <2>1, <3>1
  <2> QED
    BY <1>1, <2>2 DEF ListExact
<1> QED
  BY <1>4, <1>5, <1>6, <1>7

\* The SIGCHLD handler, when it runs, is the only frame that waitpid has told something.
LEMMA ChildFrame ==
  ASSUME TshInv, Innermost({"SIGCHLD"})
  PROVE  /\ main.at \notin {"ended", "forked"} /\ 1 \in Frames /\ handlers[1].sig = "SIGCHLD"
         /\ handlers \in Seq(Frame) /\ handlers # << >> /\ handlers[1] \in Frame
         /\ \A i \in Frames : i # 1 => handlers[i].sig # "SIGCHLD" /\ handlers[i].status = "none"
<1>1. handlers \in Seq(Frame) /\ handlers # << >> /\ handlers[1].sig = "SIGCHLD" /\ main.at # "ended"
  BY DEF TshInv, TypeOK, Innermost, ended
<1>2. 1 \in Frames /\ handlers[1] \in Frame
  BY <1>1 DEF Frames
<1> QED
  BY <1>1, <1>2 DEF TshInv, HandlersNest

LEMMA WaitpidStep == ASSUME TshInv, NEW p \in Procs, Waitpid(p) PROVE TshInv'
<1> USE DEF TshInv
<1>1. PICK st \in {"gone", "stopped"} :
        /\ st = "gone" => /\ child[p] = "zombie" /\ child' = [child EXCEPT ![p] = "none"]
                          /\ unwaited' = unwaited
        /\ st = "stopped" => p \in unwaited /\ unwaited' = unwaited \ {p} /\ child' = child
        /\ handlers' = [handlers EXCEPT ![1] = [@ EXCEPT !.pid = p, !.status = st]]
        /\ handlers[1].status = "none" /\ UNCHANGED <<jobs, refused, main, pending, keys>>
        /\ Innermost({"SIGCHLD"})
  BY DEF Waitpid
<1>2. /\ main.at \notin {"ended", "forked"} /\ 1 \in Frames /\ handlers[1].sig = "SIGCHLD"
      /\ handlers \in Seq(Frame) /\ handlers # << >> /\ handlers[1] \in Frame
      /\ \A i \in Frames : i # 1 => handlers[i].sig # "SIGCHLD" /\ handlers[i].status = "none"
  BY <1>1, ChildFrame
<1>3. p # 0 /\ p \in Pids
  BY TshAssumption DEF Pids
<1>4. /\ handlers' \in Seq(Frame) /\ Len(handlers') = Len(handlers) /\ Frames' = Frames
      /\ handlers'[1].sig = "SIGCHLD" /\ handlers'[1].pid = p /\ handlers'[1].status = st
      /\ \A i \in Frames : i # 1 => handlers'[i] = handlers[i]
  <2> DEFINE f == [handlers[1] EXCEPT !.pid = p, !.status = st]
  <2>1. f \in Frame /\ f.sig = "SIGCHLD" /\ f.pid = p /\ f.status = st
    BY <1>2, <1>3 DEF Frame
  <2>2. handlers' = [handlers EXCEPT ![1] = f]
    BY <1>1
  <2> HIDE DEF f
  <2> QED
    BY <1>2, <2>1, <2>2 DEF Frames
<1>5. \A q \in Procs : /\ child[q] # "zombie" => child'[q] = child[q]
                       /\ child[q] = "zombie" /\ q # p => child'[q] = child[q]
                       /\ st = "gone" => child'[p] = "none"
                       /\ st = "stopped" => child'[p] = "stopped"
  BY <1>1 DEF TypeOK, StopsAreTrue
<1>6. TypeOK'
  BY <1>1, <1>4 DEF TypeOK
<1>7. HandlersNest'
  <2>1. \A i, j \in Frames' : handlers'[i].sig = handlers'[j].sig => i = j
    <3>1. \A i \in Frames : handlers'[i].sig = handlers[i].sig
      BY <1>2, <1>4
    <3> QED
      BY <1>4, <3>1 DEF HandlersNest
  <2>2. \A i \in Frames' : i # 1 => handlers'[i].status = "none"
    BY <1>2, <1>4
  <2> QED
    BY <1>1, <1>2, <1>3, <1>4, <1>5, <2>1, <2>2 DEF HandlersNest
<1>8. ForkedIsNew' /\ FgIsWaitedFor'
  BY <1>1, <1>2 DEF ForkedIsNew, FgIsWaitedFor
<1>9. ListExact'
  <2>1. \A i \in Slots : jobs[i].pid # 0 /\ child'[jobs[i].pid] = "none" =>
          \E k \in Frames' : handlers'[k].pid = jobs[i].pid /\ handlers'[k].status = "gone"
    <3> SUFFICES ASSUME NEW i \in Slots, jobs[i].pid # 0, child'[jobs[i].pid] = "none"
                 PROVE  jobs[i].pid = p /\ st = "gone"
      BY <1>2, <1>4
    <3>1. jobs[i].pid \in Procs /\ child[jobs[i].pid] # "none"
      BY <1>1, <1>2 DEF TypeOK, Pids, ListExact
    <3> QED
      BY <1>1, <1>5, <3>1
  <2>2. \A q \in Procs : child'[q] # "none" => child[q] # "none"
    BY <1>1, <1>5
  <2> QED
    BY <1>1, <2>1, <2>2 DEF ListExact
<1>10. StopsAreTrue'
  <2>1. \A q \in unwaited' : child'[q] = "stopped"
    BY <1>1, <1>5 DEF StopsAreTrue, TypeOK
  <2>2. \A i \in Slots : jobs[i].state = "ST" /\ child[jobs[i].pid] = "stopped" =>
          child'[jobs[i].pid] = "stopped"
    <3> SUFFICES ASSUME NEW i \in Slots, jobs[i].state = "ST", child[jobs[i].pid] = "stopped"
                 PROVE  child'[jobs[i].pid] = "stopped"
      OBVIOUS
    <3>1. jobs[i].pid \in Procs
      BY DEF TypeOK, Pids, StopsAreTrue
    <3> QED
      BY <1>5, <3>1
  <2> QED
    BY <1>1, <1>2, <2>1, <2>2 DEF StopsAreTrue
<1> QED
  BY <1>6, <1>7, <1>8, <1>9, <1>10

LEMMA WaitpidNoneStep == ASSUME TshInv, WaitpidNone PROVE TshInv'
<1> USE DEF TshInv
<1>1. /\ Innermost({"SIGCHLD"}) /\ handlers[1].status = "none" /\ handlers' = Tail(handlers)
      /\ UNCHANGED <<jobs, refused, main, pending, child, unwaited, keys>>
  BY DEF WaitpidNone
<1>2. /\ main.at \notin {"ended", "forked"} /\ 1 \in Frames /\ handlers[1].sig = "SIGCHLD"
      /\ handlers \in Seq(Frame) /\ handlers # << >> /\ handlers[1] \in Frame
      /\ \A i \in Frames : i # 1 => handlers[i].sig # "SIGCHLD" /\ handlers[i].status = "none"
  BY <1>1, ChildFrame
<1>3. HandlersNest' /\ handlers' \in Seq(Frame) /\ Len(handlers') <= 3
  BY <1>1, <1>2, ReturnKeeps DEF TypeOK, Frames
<1>4. TypeOK' /\ ForkedIsNew' /\ FgIsWaitedFor'
  BY <1>1, <1>3 DEF TypeOK, ForkedIsNew, FgIsWaitedFor
<1>5. \A i \in Frames : handlers[i].status # "gone"
  BY <1>1, <1>2
<1>6. ListExact' /\ StopsAreTrue'
  BY <1>1, <1>2, <1>5 DEF ListExact, StopsAreTrue
<1> QED
  BY <1>3, <1>4, <1>6

LEMMA ReapStep == ASSUME TshInv, Reap PROVE TshInv'
<1> USE DEF TshInv
<1> DEFINE p == handlers[1].pid
           f == [sig |-> "SIGCHLD", pid |-> 0, status |-> "none"]
<1>1. /\ Innermost({"SIGCHLD"}) /\ handlers[1].status # "none"
      /\ handlers' = [handlers EXCEPT ![1] = f]
      /\ UNCHANGED <<pending, child, unwaited, keys>>
  BY DEF Reap
<1>2. /\ main.at \notin {"ended", "forked"} /\ 1 \in Frames /\ handlers[1].sig = "SIGCHLD"
      /\ handlers \in Seq(Frame) /\ handlers # << >> /\ handlers[1] \in Frame
      /\ \A i \in Frames : i # 1 => handlers[i].sig # "SIGCHLD" /\ handlers[i].status = "none"
  BY <1>1, ChildFrame
<1>3. /\ p \in Procs /\ p # 0 /\ handlers[1].status \in {"gone", "stopped"}
      /\ handlers[1].status = "gone" => child[p] = "none"
      /\ handlers[1].status = "stopped" => child[p] = "stopped"
  BY <1>1, <1>2 DEF HandlersNest, Frame, Pids
<1>4. /\ handlers' \in Seq(Frame) /\ Len(handlers') = Len(handlers) /\ Frames' = Frames
      /\ handlers'[1] = f /\ \A i \in Frames : i # 1 => handlers'[i] = handlers[i]
  <2>1. f \in Frame
    BY DEF Frame, Pids
  <2> HIDE DEF f
  <2> QED
    BY <1>1, <1>2, <2>1 DEF Frames
<1>5. ASSUME main'.at \in {main.at, "ended"} PROVE HandlersNest'
  <2>1. \A i \in Frames : handlers'[i].sig = handlers[i].sig
    BY <1>2, <1>4
  <2>2. \A i \in Frames : handlers'[i].status = "none" /\ (i = 1 => handlers'[i].pid = 0)
    BY <1>2, <1>4
  <2>3. \A i \in Frames : handlers'[i].sig # "SIGCHLD" /\ handlers'[i].pid # 0 =>
                            main'.at \in {"waitfg", "ended"}
    BY <1>2, <1>4, <1>5 DEF HandlersNest
  <2> QED
    BY <1>2, <1>4, <1>5, <2>1, <2>2, <2>3 DEF HandlersNest
<1>6. /\ \A i \in Slots : jobs[i].pid \in Pids
      /\ \A i \in Slots : jobs[i].pid # 0 /\ jobs[i].pid # p => child[jobs[i].pid] # "none"
  BY <1>2 DEF TypeOK, ListExact
<1>7. CASE handlers[1].status = "gone"
  <2>1. /\ refused' = refused \ {p} /\ main' = main
        /\ \A i \in Slots : jobs'[i] = IF jobs[i].pid = p THEN Cleared ELSE jobs[i]
        /\ jobs' \in [Slots -> [pid : Pids, state : {"UNDEF", "FG", "BG", "ST"}]]
    <3>1. refused' = refused \ {p} /\ main' = main /\ deletejob(p)
      BY <1>7 DEF Reap
    <3>2. Cleared \in [pid : Pids, state : {"UNDEF", "FG", "BG", "ST"}]
      BY DEF Cleared, Pids
    <3>3. jobs' \in [Slots -> [pid : Pids, state : {"UNDEF", "FG", "BG", "ST"}]]
      BY <3>1, <3>2 DEF deletejob, TypeOK
    <3> QED
      BY <3>1, <3>3, DeletejobEffect
  <2>2. \A i \in Slots : \/ jobs[i].pid = p /\ jobs'[i].pid = 0 /\ jobs'[i].state = "UNDEF"
                         \/ jobs[i].pid # p /\ jobs'[i] = jobs[i]
    BY <2>1 DEF Cleared
  <2>3. TypeOK'
    BY <1>1, <1>4, <2>1 DEF TypeOK
  <2>4. ForkedIsNew' /\ FgIsWaitedFor'
    BY <1>2, <2>1, <2>2 DEF ForkedIsNew, FgIsWaitedFor
  <2>5. ListExact'
    <3>1. \A i, j \in Slots : jobs'[i].pid # 0 /\ jobs'[i].pid = jobs'[j].pid => i = j
      BY <2>2 DEF ListExact
    <3>2. \A i \in Slots : jobs'[i].pid # 0 => child[jobs'[i].pid] # "none"
      BY <1>6, <2>2
    <3>3. \A q \in Procs : child[q] # "none" => q \in refused' \/ \E i \in Slots : jobs'[i].pid = q
      BY <1>2, <1>3, <1>7, <2>1, <2>2 DEF ListExact
    <3> QED
      BY <1>1, <3>1, <3>2, <3>3 DEF ListExact
  <2>6. StopsAreTrue'
    BY <1>1, <1>2, <2>1, <2>2 DEF StopsAreTrue
  <2> QED
    BY <1>5, <2>1, <2>3, <2>4, <2>5, <2>6
<1>8. CASE handlers[1].status = "stopped" /\ listed(p) = {}
  <2>1. main' = exit /\ UNCHANGED <<jobs, refused>>
    BY <1>8 DEF Reap
  <2>2. main'.at = "ended" /\ TypeOK'
    BY <1>1, <1>4, <2>1, TshAssumption DEF TypeOK, exit, Prompt, Pids, Slots
  <2>3. ForkedIsNew' /\ FgIsWaitedFor'
    BY <1>2, <2>1, <2>2 DEF ForkedIsNew, FgIsWaitedFor
  <2>4. \A i \in Slots : jobs[i].pid # 0 => child[jobs[i].pid] # "none"
    BY <1>3, <1>6, <1>8
  <2>5. ListExact'
    BY <1>1, <1>2, <2>1, <2>4 DEF ListExact
  <2>6. \E k \in Frames' : handlers'[k].sig = "SIGCHLD"
    BY <1>2, <1>4
  <2>7. StopsAreTrue'
    BY <1>1, <2>1, <2>2, <2>6 DEF StopsAreTrue
  <2> QED
    BY <1>5, <2>2, <2>3, <2>5, <2>7
<1>9. CASE handlers[1].status = "stopped" /\ listed(p) # {}
  <2>1. /\ UNCHANGED <<refused, main>>
        /\ jobs' = [i \in Slots |-> IF i \in listed(p) THEN [jobs[i] EXCEPT !.state = "ST"]
                                    ELSE jobs[i]]
    BY <1>9 DEF Reap
  <2>2. /\ \A i \in Slots : \/ jobs[i].pid = p /\ jobs'[i].pid = p /\ jobs'[i].state = "ST"
                            \/ jobs[i].pid # p /\ jobs'[i] = jobs[i]
        /\ jobs' \in [Slots -> [pid : Pids, state : {"UNDEF", "FG", "BG", "ST"}]]
    BY <2>1 DEF listed, TypeOK
  <2>3. TypeOK'
    BY <1>1, <1>4, <2>1, <2>2 DEF TypeOK
  <2>4. ForkedIsNew' /\ FgIsWaitedFor'
    BY <1>2, <2>1, <2>2 DEF ForkedIsNew, FgIsWaitedFor
  <2>5. \A i \in Slots : jobs'[i].pid = jobs[i].pid
    BY <2>2
  <2>6. ListExact'
    <3>1. \A i \in Slots : jobs[i].pid # 0 => child[jobs[i].pid] # "none"
      BY <1>3, <1>6, <1>9
    <3> QED
      BY <1>1, <2>1, <2>5, <3>1 DEF ListExact
  <2>7. StopsAreTrue'
    BY <1>1, <1>2, <1>3, <1>9, <2>1, <2>2 DEF StopsAreTrue
  <2> QED
    BY <1>5, <2>1, <2>3, <2>4, <2>6, <2>7
<1> QED
  BY <1>3, <1>7, <1>8, <1>9

LEMMA FindForegroundStep == ASSUME TshInv, FindForeground PROVE TshInv'
<1> USE DEF TshInv
<1>1. /\ main.at # "ended" /\ handlers # << >> /\ handlers[1].sig \in Keys /\ handlers[1].pid = 0
      /\ handlers' = IF fgpid = 0 THEN Tail(handlers) ELSE [handlers EXCEPT ![1].pid = fgpid]
      /\ UNCHANGED <<jobs, refused, main, pending, child, unwaited, keys>>
  BY DEF FindForeground, Innermost, ended
<1>2. /\ handlers \in Seq(Frame) /\ 1 \in Frames /\ handlers[1] \in Frame
      /\ handlers[1].status = "none" /\ handlers[1].sig # "SIGCHLD"
  <2>1. handlers \in Seq(Frame) /\ 1 \in Frames /\ handlers[1] \in Frame
    BY <1>1 DEF TypeOK, Frames
  <2> QED
    BY <1>1, <2>1 DEF HandlersNest, Keys
<1>3. CASE fgpid = 0
  <2>1. HandlersNest' /\ handlers' \in Seq(Frame) /\ Len(handlers') <= 3
    BY <1>1, <1>3, ReturnKeeps
  <2>2. TypeOK' /\ ForkedIsNew' /\ FgIsWaitedFor'
    BY <1>1, <2>1 DEF TypeOK, ForkedIsNew, FgIsWaitedFor
  <2>3. ListExact' /\ StopsAreTrue'
    BY <1>1, <1>2, <1>3, KeyReturns
  <2> QED
    BY <2>1, <2>2, <2>3
<1>4. CASE fgpid # 0
  <2> DEFINE f == [handlers[1] EXCEPT !.pid = fgpid]
  <2>1. fgpid \in Pids /\ main.at = "waitfg"
    <3>1. \E i \in Slots : jobs[i].state = "FG"
      BY <1>4, FgPid
    <3> QED
      BY <1>1, <3>1, FgPid DEF FgIsWaitedFor
  <2>2. f \in Frame /\ f.sig = handlers[1].sig /\ f.status = "none"
    BY <1>2, <2>1 DEF Frame
  <2>3. handlers' = [handlers EXCEPT ![1] = f]
    BY <1>1, <1>4
  <2> HIDE DEF f
  <2>4. /\ handlers' \in Seq(Frame) /\ Len(handlers') = Len(handlers) /\ Frames' = Frames
        /\ handlers'[1] = f /\ \A i \in Frames : i # 1 => handlers'[i] = handlers[i]
    BY <1>2, <2>2, <2>3 DEF Frames
  <2>5. HandlersNest'
    <3>1. \A i \in Frames : handlers'[i].sig = handlers[i].sig
      BY <2>2, <2>4
    <3>2. \A i, j \in Frames' : handlers'[i].sig = handlers'[j].sig => i = j
      BY <2>4, <3>1 DEF HandlersNest
    <3> QED
      BY <1>1, <1>2, <2>1, <2>2, <2>4, <3>2 DEF HandlersNest
  <2>6. TypeOK' /\ ForkedIsNew' /\ FgIsWaitedFor'
    BY <1>1, <2>4 DEF TypeOK, ForkedIsNew, FgIsWaitedFor
  <2>7. \A i \in Slots : jobs[i].pid # 0 /\ child[jobs[i].pid] = "none" =>
          \E k \in Frames : handlers'[k].pid = jobs[i].pid /\ handlers'[k].status = "gone"
    <3> SUFFICES ASSUME NEW i \in Slots, jobs[i].pid # 0, child[jobs[i].pid] = "none"
                 PROVE  \E k \in Frames : handlers'[k].pid = jobs[i].pid /\ handlers'[k].status = "gone"
      OBVIOUS
    <3>1. PICK k \in Frames : handlers[k].pid = jobs[i].pid /\ handlers[k].status = "gone"
      BY DEF ListExact
    <3> QED
      BY <1>2, <2>4, <3>1
  <2>8. ListExact'
    BY <1>1, <2>4, <2>7 DEF ListExact
  <2>9. StopsAreTrue'
    BY <1>1, <2>1 DEF StopsAreTrue
  <2> QED
    BY <2>5, <2>6, <2>8, <2>9
<1> QED
  BY <1>3, <1>4

LEMMA KillForegroundStep == ASSUME TshInv, KillForeground PROVE TshInv'
<1> USE DEF TshInv
<1> DEFINE p == handlers[1].pid
           st == IF handlers[1].sig = "SIGTSTP" THEN "stopped" ELSE "zombie"
<1>1. /\ main.at # "ended" /\ handlers # << >> /\ handlers[1].sig \in Keys /\ p # 0
      /\ main' = IF child[p] \in {"none", "new"} THEN exit ELSE main
      /\ handlers' = Tail(handlers) /\ UNCHANGED <<jobs, refused, keys>>
      /\ \/ /\ child[p] = "run" /\ child' = [child EXCEPT ![p] = st]
            /\ unwaited' = IF st = "stopped" THEN unwaited \cup {p} ELSE unwaited
            /\ pending' = pending \cup {"SIGCHLD"}
         \/ child[p] # "run" /\ UNCHANGED <<child, unwaited, pending>>
  BY DEF KillForeground, Innermost, ended
<1>2. /\ handlers \in Seq(Frame) /\ 1 \in Frames /\ handlers[1] \in Frame
      /\ handlers[1].status = "none" /\ handlers[1].sig # "SIGCHLD" /\ p \in Procs
      /\ main.at = "waitfg"
  <2>1. handlers \in Seq(Frame) /\ 1 \in Frames /\ handlers[1] \in Frame
    BY <1>1 DEF TypeOK, Frames
  <2> QED
    BY <1>1, <2>1 DEF HandlersNest, Keys, Frame, Pids
<1>3. /\ main'.at \in {"waitfg", "ended"} /\ (main'.at = "waitfg" => main' = main)
      /\ main' \in [at : {"prompt", "forked", "found", "continued", "waitfg", "ended"},
                    pid : Pids, slot : Slots, state : {"FG", "BG"}]
  <2>1. exit \in [at : {"prompt", "forked", "found", "continued", "waitfg", "ended"},
                  pid : Pids, slot : Slots, state : {"FG", "BG"}] /\ exit.at = "ended"
    BY TshAssumption DEF exit, Prompt, Pids, Slots
  <2> HIDE DEF p
  <2> QED
    BY <1>1, <1>2, <2>1 DEF TypeOK
<1>4. /\ \A q \in Procs : child[q] # "run" => child'[q] = child[q]
      /\ \A q \in Procs : child'[q] = "none" <=> child[q] = "none"
      /\ \A q \in unwaited' : child'[q] = "stopped"
      /\ unwaited' \subseteq Procs /\ pending' \subseteq Keys \cup {"SIGCHLD"}
      /\ child' \in [Procs -> {"none", "new", "run", "stopped", "zombie"}]
  <2> HIDE DEF p
  <2>1. st \in {"stopped", "zombie"}
    OBVIOUS
  <2> HIDE DEF st
  <2>2. CASE child[p] = "run"
    <3>1. /\ child' = [child EXCEPT ![p] = st] /\ pending' = pending \cup {"SIGCHLD"}
          /\ unwaited' \in {unwaited, unwaited \cup {p}} /\ (p \in unwaited' => st = "stopped")
      BY <1>1, <2>2 DEF StopsAreTrue
    <3> QED
      BY <1>2, <2>1, <2>2, <3>1 DEF TypeOK, StopsAreTrue
  <2>3. CASE child[p] # "run"
    BY <1>1, <2>3 DEF TypeOK, StopsAreTrue
  <2> QED
    BY <2>2, <2>3
<1>5. HandlersNest' /\ handlers' \in Seq(Frame) /\ Len(handlers') <= 3
  <2>1. /\ handlers' \in Seq(Frame) /\ Len(handlers') = Len(handlers) - 1 /\ Len(handlers) <= 3
        /\ \A i \in Frames' : handlers'[i] = handlers[i + 1] /\ i + 1 \in Frames
    BY <1>1, Pop DEF TypeOK, Frames
  <2>2. \A i, j \in Frames' : handlers'[i].sig = handlers'[j].sig => i = j
    BY <2>1 DEF HandlersNest, Frames
  <2>3. ASSUME NEW i \in Frames'
        PROVE  /\ handlers'[i].status # "none" => handlers'[i].sig = "SIGCHLD" /\ handlers'[i].pid # 0
               /\ handlers'[i].status = "gone" => child'[handlers'[i].pid] = "none"
               /\ handlers'[i].status = "stopped" => child'[handlers'[i].pid] = "stopped"
    <3> DEFINE j == i + 1
    <3>1. j \in Frames /\ handlers'[i] = handlers[j] /\ handlers[j] \in Frame
      BY <1>2, <2>1 DEF Frames
    <3> HIDE DEF j
    <3> DEFINE q == handlers[j].pid
    <3>2. handlers[j].status # "none" => handlers[j].sig = "SIGCHLD" /\ handlers[j].pid \in Procs
      BY <3>1 DEF HandlersNest, Pids, Frame
    <3>3. handlers[j].status = "gone" => q \in Procs /\ child[q] = "none"
      BY <3>1, <3>2 DEF HandlersNest
    <3>4. handlers[j].status = "stopped" => q \in Procs /\ child[q] = "stopped"
      BY <3>1, <3>2 DEF HandlersNest
    <3>5. /\ handlers[j].status = "gone" => child'[q] = "none"
          /\ handlers[j].status = "stopped" => child'[q] = "stopped"
      <4> HIDE DEF q
      <4> QED
        BY <1>4, <3>3, <3>4
    <3> QED
      BY <3>1, <3>2, <3>5, TshAssumption
  <2>4. HandlersNest'
    BY <1>3, <2>2, <2>3 DEF HandlersNest
  <2> QED
    BY <2>1, <2>4
<1>6. TypeOK'
  BY <1>1, <1>3, <1>4, <1>5 DEF TypeOK
<1>7. ForkedIsNew' /\ FgIsWaitedFor'
  BY <1>1, <1>2, <1>3 DEF ForkedIsNew, FgIsWaitedFor
<1>8. ListExact'
  <2>1. \A k \in Frames : k # 1 => \E l \in Frames' : handlers'[l] = handlers[k]
    BY <1>1, <1>2, Pop DEF Frames
  <2>2. \A i \in Slots : jobs[i].pid # 0 /\ child'[jobs[i].pid] = "none" =>
          \E l \in Frames' : handlers'[l].pid = jobs[i].pid /\ handlers'[l].status = "gone"
    <3> SUFFICES ASSUME NEW i \in Slots, jobs[i].pid # 0, child'[jobs[i].pid] = "none"
                 PROVE  \E l \in Frames' : handlers'[l].pid = jobs[i].pid /\ handlers'[l].status = "gone"
      OBVIOUS
    <3>1. child[jobs[i].pid] = "none"
      BY <1>4 DEF TypeOK, Pids
    <3>2. PICK k \in Frames : handlers[k].pid = jobs[i].pid /\ handlers[k].status = "gone"
      BY <3>1 DEF ListExact
    <3> QED
      BY <1>2, <2>1, <3>2
  <2>3. \A q \in Procs : child'[q] # "none" => q \in refused \/ \E i \in Slots : jobs[i].pid = q
    BY <1>2, <1>4 DEF ListExact
  <2> QED
    BY <1>1, <2>2, <2>3 DEF ListExact
<1>9. StopsAreTrue'
  <2>1. \A i \in Slots : jobs[i].state = "ST" => jobs[i].pid # 0 /\ child'[jobs[i].pid] = "stopped"
    <3> SUFFICES ASSUME NEW i \in Slots, jobs[i].state = "ST"
                 PROVE  jobs[i].pid # 0 /\ child'[jobs[i].pid] = "stopped"
      OBVIOUS
    <3>1. jobs[i].pid # 0 /\ child[jobs[i].pid] = "stopped" /\ jobs[i].pid \in Procs
      BY <1>2 DEF StopsAreTrue, TypeOK, Pids
    <3> QED
      BY <1>4, <3>1
  <2> QED
    BY <1>1, <1>4, <2>1 DEF StopsAreTrue
<1> QED
  BY <1>5, <1>6, <1>7, <1>8, <1>9

\* A child moves on: from "new" or "run" to some other state, never to "none".
LEMMA ChildMoves ==
  ASSUME TshInv, NEW p \in Procs, child[p] \in {"new", "run"}, NEW st \in {"run", "stopped", "zombie"},
         child' = [child EXCEPT ![p] = st],
         unwaited' = IF st = "stopped" THEN unwaited \cup {p} ELSE unwaited,
         pending' \in {pending, pending \cup {"SIGCHLD"}},
         UNCHANGED <<jobs, refused, main, handlers, keys>>
  PROVE  TshInv'
<1> USE DEF TshInv
<1>1. /\ \A q \in Procs : child[q] \notin {"new", "run"} => child'[q] = child[q]
      /\ \A q \in Procs : child'[q] = "none" <=> child[q] = "none"
      /\ \A q \in unwaited' : child'[q] = "stopped"
      /\ child' \in [Procs -> {"none", "new", "run", "stopped", "zombie"}]
      /\ unwaited' \subseteq Procs
  BY DEF TypeOK, StopsAreTrue
<1>2. TypeOK'
  BY <1>1 DEF TypeOK
<1>3. /\ \A i \in Frames : handlers[i].status # "none" => handlers[i].pid \in Procs
      /\ \A i \in Slots : jobs[i].pid # 0 => jobs[i].pid \in Procs
      /\ main.pid # 0 => main.pid \in Procs
  <2>1. \A i \in Frames : handlers[i] \in Frame
    BY DEF TypeOK, Frames
  <2> QED
    BY <2>1 DEF TypeOK, Frame, Pids, HandlersNest
<1>4. HandlersNest'
  <2>1. ASSUME NEW i \in Frames
        PROVE  /\ handlers[i].status = "gone" => child'[handlers[i].pid] = "none"
               /\ handlers[i].status = "stopped" => child'[handlers[i].pid] = "stopped"
    <3> DEFINE q == handlers[i].pid
    <3>1. /\ handlers[i].status = "gone" => q \in Procs /\ child[q] = "none"
          /\ handlers[i].status = "stopped" => q \in Procs /\ child[q] = "stopped"
      BY <1>3 DEF HandlersNest
    <3> HIDE DEF q
    <3>2. /\ handlers[i].status = "gone" => child'[q] = "none"
          /\ handlers[i].status = "stopped" => child'[q] = "stopped"
      BY <1>1, <3>1
    <3> QED
      BY <3>2 DEF q
  <2>2. Frames' = Frames
    BY DEF Frames
  <2> QED
    BY <2>1, <2>2 DEF HandlersNest
<1>5. ForkedIsNew' /\ FgIsWaitedFor'
  BY <1>1, <1>3 DEF ForkedIsNew, FgIsWaitedFor
<1>6. ListExact'
  <2>1. \A i \in Slots : jobs[i].pid # 0 /\ child'[jobs[i].pid] = "none" => child[jobs[i].pid] = "none"
    BY <1>1, <1>3
  <2>2. Frames' = Frames
    BY DEF Frames
  <2> QED
    BY <1>1, <2>1, <2>2 DEF ListExact
<1>7. StopsAreTrue'
  <2>1. \A i \in Slots : jobs[i].pid # 0 /\ child[jobs[i].pid] = "stopped" => child'[jobs[i].pid] = "stopped"
    BY <1>1, <1>3
  <2>2. Frames' = Frames
    BY DEF Frames
  <2> QED
    BY <1>1, <2>1, <2>2 DEF StopsAreTrue
<1> QED
  BY <1>2, <1>4, <1>5, <1>6, <1>7

LEMMA TypeKeyStep == ASSUME TshInv, NEW sig \in Keys, TypeKey(sig) PROVE TshInv'
<1> USE DEF TshInv
<1>1. /\ keys < MaxKeys /\ keys' = keys + 1 /\ pending' = pending \cup {sig}
      /\ UNCHANGED <<jobs, refused, main, handlers, child, unwaited>>
  BY DEF TypeKey
<1>2. TypeOK'
  BY <1>1, TshAssumption DEF TypeOK
<1>3. HandlersNest' /\ ForkedIsNew' /\ FgIsWaitedFor' /\ ListExact' /\ StopsAreTrue'
  BY <1>1 DEF HandlersNest, ForkedIsNew, FgIsWaitedFor, ListExact, StopsAreTrue, Frames
<1> QED
  BY <1>2, <1>3

LEMMA SetpgidStep == ASSUME TshInv, NEW p \in Procs, Setpgid(p) PROVE TshInv'
BY ChildMoves DEF Setpgid

LEMMA ChildEndsStep == ASSUME TshInv, NEW p \in Procs, ChildEnds(p) PROVE TshInv'
BY ChildMoves DEF ChildEnds

LEMMA ChildStopsStep == ASSUME TshInv, NEW p \in Procs, ChildStops(p) PROVE TshInv'
BY ChildMoves DEF ChildStops

LEMMA TshInvStep == TshInv /\ [Next]_vars => TshInv'
<1> SUFFICES ASSUME TshInv, [Next]_vars PROVE TshInv'
  OBVIOUS
<1>1. CASE UNCHANGED vars
  BY <1>1 DEF vars, TshInv, TypeOK, HandlersNest, ForkedIsNew, FgIsWaitedFor, ListExact,
              StopsAreTrue, Frames
<1>2. ASSUME Handle PROVE TshInv'
  BY <1>2, WaitpidStep, WaitpidNoneStep, ReapStep, FindForegroundStep, KillForegroundStep
  DEF Handle
<1> QED
  BY <1>1, <1>2, ForkStep, FindJobStep, AddJobStep, ContinueJobStep, SetStateStep,
     WaitfgReturnsStep, QuitStep, DeliverStep, TypeKeyStep, SetpgidStep, ChildEndsStep,
     ChildStopsStep DEF Next

LEMMA TshInvariant == Spec => []TshInv
<1> QED
  BY TshInvInit, TshInvStep, PTL DEF Spec

-----------------------------------------------------------------------------
(* What follows from the invariant.                                        *)

\* The shell's data keep their types, and no more than the three handlers are nested.
THEOREM TypeCorrect == Spec => []TypeOK
<1>1. TshInv => TypeOK
  BY DEF TshInv
<1> QED
  BY <1>1, TshInvariant, PTL

\* Whatever handler interrupts whatever step, every child that is not reaped is in the list
\* once, unless it was refused or has just been forked, and no other process is.
THEOREM ListIsExact == Spec => []JobListIsExact
<1>1. ASSUME TshInv PROVE JobListIsExact
  <2> SUFFICES ASSUME NEW p \in Procs
               PROVE  /\ Cardinality(listed(p)) <= 1
                      /\ listed(p) # {} => child[p] # "none" \/ \E i \in 1 .. Len(handlers) :
                             handlers[i].pid = p /\ handlers[i].status = "gone"
                      /\ child[p] # "none" => listed(p) # {} \/ p \in refused
                                              \/ (main.at = "forked" /\ main.pid = p)
    BY DEF JobListIsExact
  <2>1. p # 0 /\ ListExact
    BY <1>1, TshAssumption DEF TshInv
  <2>2. Cardinality(listed(p)) <= 1
    <3>1. CASE listed(p) = {}
      BY <3>1, FS_EmptySet
    <3>2. CASE listed(p) # {}
      <4>1. PICK i \in listed(p) : TRUE
        BY <3>2
      <4>2. listed(p) = {i}
        BY <2>1, <4>1 DEF listed, ListExact
      <4> QED
        BY <4>2, FS_Singleton
    <3> QED
      BY <3>1, <3>2
  <2> QED
    BY <2>1, <2>2 DEF ListExact, listed, Frames
<1> QED
  BY <1>1, TshInvariant, PTL

\* "At most 1 job can be in the FG state" (tsh.c:36), whatever handlers run meanwhile.
THEOREM OneForeground == Spec => []AtMostOneFg
<1>1. ASSUME TshInv PROVE AtMostOneFg
  <2> DEFINE fg == {i \in Slots : jobs[i].state = "FG"}
  <2>1. CASE fg = {}
    BY <2>1, FS_EmptySet DEF AtMostOneFg
  <2>2. CASE fg # {}
    <3>1. PICK i \in fg : TRUE
      BY <2>2
    <3>2. fg = {i}
      BY <1>1, <3>1 DEF TshInv, FgIsWaitedFor
    <3>3. Cardinality(fg) = 1
      <4> HIDE DEF fg
      <4> QED
        BY <3>2, FS_Singleton
    <3> QED
      BY <3>3 DEF AtMostOneFg
  <2> QED
    BY <2>1, <2>2
<1> QED
  BY <1>1, TshInvariant, PTL

\* Once the handlers have caught up, a job that the list shows as stopped is stopped.
THEOREM StoppedJobsAreStopped == Spec => []StoppedIsStopped
<1>1. ASSUME TshInv PROVE StoppedIsStopped
  <2> SUFFICES ASSUME quiet, NEW i \in Slots, jobs[i].state = "ST"
               PROVE  child[jobs[i].pid] = "stopped"
    BY DEF StoppedIsStopped
  <2> QED
    BY <1>1 DEF TshInv, StopsAreTrue, quiet, Frames
<1> QED
  BY <1>1, TshInvariant, PTL
=============================================================================
