------------------------------ MODULE JosFork ------------------------------
(***************************************************************************)
(* Copy-on-write fork of JOS (OS/lab4): fork, duppage and pgfault of       *)
(* lib/fork.c, which run in user space and are interrupted between any two *)
(* system calls, over the page operations of kern/pmap.c, whose system     *)
(* calls run one at a time under the big kernel lock.                      *)
(***************************************************************************)
EXTENDS Integers, Sequences, FiniteSets, Functions

CONSTANTS
  Envs,      \* environment slots
  First,     \* the environment that runs at the start
  UserPages, \* its pages below USTACKTOP, by address
  ReadOnly,  \* those it cannot write
  Stack,     \* the page of its stack
  Image,     \* what its pages hold at the start
  Values,    \* contents of a page; 0 is a cleared one
  NFrames    \* physical pages

ASSUME JosForkAssumption ==
  /\ IsFiniteSet(Envs) /\ First \in Envs
  /\ UserPages \in Seq(Range(UserPages)) /\ IsInjective(UserPages)
  /\ {"PFTEMP", "XSTACK"} \cap Range(UserPages) = {}
  /\ Stack \in Range(UserPages) \ ReadOnly
  /\ 0 \in Values /\ Image \in [Range(UserPages) -> Values]
  /\ NFrames \in Nat /\ NFrames >= Len(UserPages)

VARIABLES
  vm,     \* physical memory and the address spaces
  pc      \* what each environment's program is doing

vars == <<vm, pc>>

Pages == Range(UserPages)
VAs == Pages \cup {"PFTEMP", "XSTACK"}   \* every page below UTOP
Frames == 1 .. NFrames
Unmapped == [frame |-> 0, perm |-> "none"]

Entry == [frame : Frames, perm : {"R", "W", "COW"}] \cup {Unmapped}

\* A memory: the page tables, and the count, the free list and the contents of the frames.
Memory == [pt : [Envs -> [VAs -> Entry]],
           pp_ref : [Frames -> 0 .. Cardinality(Envs) * Cardinality(VAs)],
           page_free_list : SUBSET Frames,
           data : [Frames -> Values]]

TypeOK ==
  /\ vm \in Memory
  /\ pc \in [Envs -> [at : {"free", "embryo", "user", "exofork", "duppage", "map_new",
                            "map_original", "map_shared", "xstack", "upcall", "runnable"},
                      child : Envs, n : 1 .. Len(UserPages) + 1,
                      fault : {"none", "alloc", "copy", "map", "unmap"},
                      va : Pages, handler : BOOLEAN]]

NotThere == [at |-> "free", child |-> First, n |-> 1, fault |-> "none",
             va |-> Stack, handler |-> FALSE]

Init ==
  /\ vm = [pt |-> [e \in Envs |-> [va \in VAs |->
              IF e = First /\ va \in Pages
              THEN [frame |-> CHOOSE i \in DOMAIN UserPages : UserPages[i] = va,
                    perm |-> IF va \in ReadOnly THEN "R" ELSE "W"]
              ELSE Unmapped]],
            pp_ref |-> [f \in Frames |-> IF f <= Len(UserPages) THEN 1 ELSE 0],
            page_free_list |-> Len(UserPages) + 1 .. NFrames,
            data |-> [f \in Frames |-> IF f <= Len(UserPages) THEN Image[UserPages[f]] ELSE 0]]
  /\ pc = [e \in Envs |-> IF e = First THEN [NotThere EXCEPT !.at = "user"] ELSE NotThere]

---------------------------------------------------------------------------
(* kern/pmap.c: each takes the memory and returns it changed. *)

\* Every page_alloc here clears the page, so the contents of a free one are not kept.
page_decref(m, f) ==
  IF m.pp_ref[f] = 1
  THEN [m EXCEPT !.pp_ref[f] = 0, !.page_free_list = @ \cup {f}, !.data[f] = 0]
  ELSE [m EXCEPT !.pp_ref[f] = @ - 1]

page_remove(m, e, va) ==
  IF m.pt[e][va] = Unmapped THEN m
  ELSE [page_decref(m, m.pt[e][va].frame) EXCEPT !.pt[e][va] = Unmapped]

\* Faulty variant: the old mapping goes before the reference is counted.
page_insertAfterRemove(m, e, f, va, perm) ==
  LET removed == page_remove(m, e, va)
  IN  [removed EXCEPT !.pp_ref[f] = @ + 1, !.pt[e][va] = [frame |-> f, perm |-> perm]]

\* The reference is counted before the old mapping goes: f may be what is mapped there.
page_insert(m, e, f, va, perm) ==
  LET removed == page_remove([m EXCEPT !.pp_ref[f] = @ + 1], e, va)
  IN  [removed EXCEPT !.pt[e][va] = [frame |-> f, perm |-> perm]]

\* page_alloc(ALLOC_ZERO) and page_insert, for when a page is left.  The order of the
\* free list is not kept: one of its pages stands for the one at its head.
sys_page_alloc(m, e, va, perm) ==
  LET f == CHOOSE g \in m.page_free_list : TRUE
  IN  page_insert([m EXCEPT !.page_free_list = @ \ {f}], e, f, va, perm)

\* The map system call, for a source that is mapped and not written through more than it was.
sys_page_map(m, src, srcva, dst, dstva, perm) ==
  page_insert(m, dst, m.pt[src][srcva].frame, dstva, perm)

\* env_free: page_remove of every page, so that a frame goes with its last mapping.
env_free(m, e) ==
  LET refs == [f \in Frames |-> m.pp_ref[f] - Cardinality({va \in VAs : m.pt[e][va].frame = f})]
      unused == {f \in Frames : refs[f] = 0}
  IN  [pt |-> [m.pt EXCEPT ![e] = [va \in VAs |-> Unmapped]],
       pp_ref |-> refs,
       page_free_list |-> m.page_free_list \cup unused,
       data |-> [f \in Frames |-> IF f \in unused THEN 0 ELSE m.data[f]]]

---------------------------------------------------------------------------
(* The environment goes away: exit, a panic, or its parent destroys it. *)

Destroyed(e) ==
  /\ vm' = env_free(vm, e)
  /\ pc' = [pc EXCEPT ![e] = NotThere]

Alive(e) == pc[e].at \notin {"free", "embryo"}
Exit(e) == Alive(e) /\ Destroyed(e)

---------------------------------------------------------------------------
(* A write by the program.  Inside fork it writes only parts of its stack that
   nobody reads later, so it may fault there but changes no contents. *)

Write(e, va, v) ==
  /\ pc[e].at = "user" /\ pc[e].fault = "none" /\ vm.pt[e][va].perm = "W"
  /\ vm' = [vm EXCEPT !.data[vm.pt[e][va].frame] = v]
  /\ UNCHANGED pc

\* page_fault_handler: enter the handler on the exception stack, or destroy.  Programs
\* write to their writable pages only.
Fault(e, va) ==
  /\ Alive(e) /\ pc[e].fault = "none" /\ vm.pt[e][va].perm # "W" /\ va \notin ReadOnly
  /\ pc[e].at # "user" => va = Stack
  /\ IF pc[e].handler /\ vm.pt[e]["XSTACK"].perm = "W"
     THEN pc' = [pc EXCEPT ![e].fault = "alloc", ![e].va = va] /\ UNCHANGED vm
     ELSE Destroyed(e)

(* pgfault: the new page is made at PFTEMP and then takes the place of the old. *)

FaultAlloc(e) ==
  /\ pc[e].fault = "alloc"
  /\ IF vm.page_free_list = {} THEN Destroyed(e)
     ELSE /\ vm' = sys_page_alloc(vm, e, "PFTEMP", "W")
          /\ pc' = [pc EXCEPT ![e].fault = "copy"]

\* Faulty variant: the new page is not filled.
FaultCopyNothing(e) ==
  /\ pc[e].fault = "copy"
  /\ pc' = [pc EXCEPT ![e].fault = "map"]
  /\ UNCHANGED vm

\* Faulty variant: PFTEMP is unmapped before the page is put in place.
FaultCopyUnmap(e) ==
  /\ pc[e].fault = "copy"
  /\ vm' = page_remove([vm EXCEPT !.data[vm.pt[e]["PFTEMP"].frame] =
                          vm.data[vm.pt[e][pc[e].va].frame]], e, "PFTEMP")
  /\ pc' = [pc EXCEPT ![e].fault = "map"]

FaultCopy(e) ==
  /\ pc[e].fault = "copy"
  /\ vm' = [vm EXCEPT !.data[vm.pt[e]["PFTEMP"].frame] = vm.data[vm.pt[e][pc[e].va].frame]]
  /\ pc' = [pc EXCEPT ![e].fault = "map"]

FaultMap(e) ==
  /\ pc[e].fault = "map"
  /\ vm' = sys_page_map(vm, e, "PFTEMP", e, pc[e].va, "W")
  /\ pc' = [pc EXCEPT ![e].fault = "unmap"]

FaultUnmap(e) ==
  /\ pc[e].fault = "unmap"
  /\ vm' = page_remove(vm, e, "PFTEMP")
  /\ pc' = [pc EXCEPT ![e].fault = "none", ![e].va = Stack]

---------------------------------------------------------------------------
(* fork: one action per system call, and one where duppage reads uvpt. *)

At(e, at) == pc[e].at = at /\ pc[e].fault = "none"
Goto(e, at) == pc' = [pc EXCEPT ![e].at = at]
page(e) == UserPages[pc[e].n]
child(e) == pc[e].child

\* set_pgfault_handler allocates the exception stack the first time.
ForkStart(e) ==
  /\ At(e, "user")
  /\ IF pc[e].handler THEN Goto(e, "exofork") /\ UNCHANGED vm
     ELSE IF vm.page_free_list = {} THEN Destroyed(e)
     ELSE /\ vm' = sys_page_alloc(vm, e, "XSTACK", "W")
          /\ pc' = [pc EXCEPT ![e].at = "exofork", ![e].handler = TRUE]

Exofork(e) ==
  /\ At(e, "exofork")
  /\ IF \E c \in Envs : pc[c].at = "free"
     THEN \E c \in {x \in Envs : pc[x].at = "free"} :
            /\ pc' = [pc EXCEPT ![c].at = "embryo",
                                ![e].at = "duppage", ![e].child = c, ![e].n = 1]
            /\ UNCHANGED vm
     ELSE Destroyed(e)

\* Faulty variant: a page that is copy-on-write already is shared as it is.
DuppageWritable(e) ==
  /\ At(e, "duppage")
  /\ IF pc[e].n > Len(UserPages) THEN Goto(e, "xstack")
     ELSE Goto(e, IF vm.pt[e][page(e)].perm = "W" THEN "map_new" ELSE "map_shared")
  /\ UNCHANGED vm

\* The loop reads the page's table entry.
Duppage(e) ==
  /\ At(e, "duppage")
  /\ IF pc[e].n > Len(UserPages) THEN Goto(e, "xstack")
     ELSE Goto(e, IF vm.pt[e][page(e)].perm \in {"W", "COW"} THEN "map_new" ELSE "map_shared")
  /\ UNCHANGED vm

MapNew(e) ==
  /\ At(e, "map_new")
  /\ vm' = sys_page_map(vm, e, page(e), child(e), page(e), "COW")
  /\ Goto(e, "map_original")

MapOriginal(e) ==
  /\ At(e, "map_original")
  /\ vm' = sys_page_map(vm, e, page(e), e, page(e), "COW")
  /\ pc' = [pc EXCEPT ![e].at = "duppage", ![e].n = @ + 1]

MapShared(e) ==
  /\ At(e, "map_shared")
  /\ vm' = sys_page_map(vm, e, page(e), child(e), page(e), "R")
  /\ pc' = [pc EXCEPT ![e].at = "duppage", ![e].n = @ + 1]

ForkXstack(e) ==
  /\ At(e, "xstack")
  /\ IF vm.page_free_list = {} THEN Destroyed(e)
     ELSE vm' = sys_page_alloc(vm, child(e), "XSTACK", "W") /\ Goto(e, "upcall")

\* Faulty variant: the upcall is set in the parent.
ForkUpcallOwn(e) ==
  /\ At(e, "upcall")
  /\ pc' = [pc EXCEPT ![e].at = "runnable", ![e].handler = TRUE]
  /\ UNCHANGED vm

ForkUpcall(e) ==
  /\ At(e, "upcall")
  /\ pc' = [pc EXCEPT ![e].at = "runnable", ![child(e)].handler = TRUE]
  /\ UNCHANGED vm

\* sys_env_set_status: the child runs, and fork returns in both.
ForkReturn(e) ==
  /\ At(e, "runnable")
  /\ pc' = [pc EXCEPT ![e].at = "user", ![e].n = 1, ![e].child = First,
                      ![child(e)].at = "user"]
  /\ UNCHANGED vm

Next ==
  \E e \in Envs :
    \/ \E va \in Pages : Fault(e, va) \/ \E v \in Values : Write(e, va, v)
    \/ FaultAlloc(e) \/ FaultCopy(e) \/ FaultMap(e) \/ FaultUnmap(e)
    \/ ForkStart(e) \/ Exofork(e) \/ Duppage(e) \/ MapNew(e) \/ MapOriginal(e)
    \/ MapShared(e) \/ ForkXstack(e) \/ ForkUpcall(e) \/ ForkReturn(e)
    \/ Exit(e)

Spec == Init /\ [][Next]_vars

---------------------------------------------------------------------------
(* Properties *)

mappings(f) == {x \in Envs \X VAs : vm.pt[x[1]][x[2]].frame = f}

\* A physical page is free exactly when nobody maps it, and its count is the number of
\* its mappings: no page is freed while it is mapped, none is lost, whatever panics.
RefcountsAreExact ==
  /\ \A f \in Frames : vm.pp_ref[f] = Cardinality(mappings(f))
  /\ vm.page_free_list = {f \in Frames : mappings(f) = {}}

\* A page that somebody can write is mapped by nobody else.  Two moments differ: the one
\* between the two mappings of duppage, when the child does not run yet, and the one in
\* pgfault when the new page is both at PFTEMP and in its place.
SharedIsReadOnly ==
  \A f \in Frames : \A x, y \in mappings(f) :
    x # y /\ vm.pt[x[1]][x[2]].perm = "W" =>
      \/ pc[x[1]].at = "map_original" /\ x[2] = page(x[1])
         /\ y = <<child(x[1]), x[2]>> /\ pc[y[1]].at = "embryo"
      \/ pc[x[1]].fault = "unmap" /\ y[1] = x[1] /\ {x[2], y[2]} = {"PFTEMP", pc[x[1]].va}

\* An environment that has copy-on-write pages has the handler and the exception stack
\* that a write to one needs, so that fork never makes a legal write fatal.
FaultsAreHandled ==
  \A e \in Envs : Alive(e) /\ (\E va \in Pages : vm.pt[e][va].perm = "COW") =>
    pc[e].handler /\ vm.pt[e]["XSTACK"].perm = "W"

\* A child has a copy of its parent's memory as of the end of fork, and from then on each
\* sees its own writes only.
F == INSTANCE ForkByCopy WITH
  memory <- [e \in Envs |-> IF Alive(e) THEN [va \in Pages |-> vm.data[vm.pt[e][va].frame]]
                            ELSE [va \in {} |-> 0]]
ImplementsForkByCopy == F!Spec
=============================================================================
