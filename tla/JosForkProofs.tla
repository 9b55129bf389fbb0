--------------------------- MODULE JosForkProofs ---------------------------
(***************************************************************************)
(* Machine-checked proofs about JosFork, for any environments, pages,      *)
(* contents and number of physical pages.                                  *)
(***************************************************************************)
EXTENDS JosFork, FiniteSetTheorems, TLAPS

\* Between sys_exofork and sys_env_set_status an environment has a child that does not run.
ForkStages == {"duppage", "map_new", "map_original", "map_shared", "xstack", "upcall", "runnable"}
Forking(e) == pc[e].at \in ForkStages

\* The pages of the child of e that fork has mapped.
Copied(e, i) == i < pc[e].n \/ (i = pc[e].n /\ pc[e].at = "map_original")

\* A child belongs to one parent, and waits for it.
ChildrenWait ==
  \A e \in Envs : Forking(e) =>
    /\ pc[child(e)].at = "embryo"
    /\ \A x \in Envs : Forking(x) /\ child(x) = child(e) => x = e

\* What an environment that runs has mapped, and what one that does not run has not.
SpaceIsWhole(e) ==
  /\ pc[e].at = "free" => \A va \in VAs : vm.pt[e][va] = Unmapped
  /\ Alive(e) => \A va \in Pages : vm.pt[e][va].perm \in IF va \in ReadOnly THEN {"R"} ELSE {"W", "COW"}
  /\ pc[e].handler => vm.pt[e]["XSTACK"].perm = "W"
  /\ pc[e].at = "exofork" \/ Forking(e) => pc[e].handler
SpacesAreWhole == \A e \in Envs : SpaceIsWhole(e)

\* How far a page fault has come.
FaultIsInStep(e) ==
  /\ ~ Alive(e) => pc[e].fault = "none"
  /\ pc[e].fault \in {"none", "alloc"} => vm.pt[e]["PFTEMP"] = Unmapped
  /\ pc[e].fault \in {"copy", "map", "unmap"} => vm.pt[e]["PFTEMP"].perm = "W"
  /\ pc[e].fault \in {"alloc", "copy", "map"} => vm.pt[e][pc[e].va].perm = "COW"
  /\ pc[e].fault = "map" =>
       vm.data[vm.pt[e]["PFTEMP"].frame] = vm.data[vm.pt[e][pc[e].va].frame]
  /\ pc[e].fault = "unmap" => vm.pt[e][pc[e].va] = vm.pt[e]["PFTEMP"]
FaultsAreInStep == \A e \in Envs : FaultIsInStep(e)

\* How far a fork has come.
PagesCopied(e) ==
  \A i \in 1 .. Len(UserPages) : Copied(e, i) =>
    LET va == UserPages[i]
    IN  /\ vm.pt[child(e)][va].perm = IF va \in ReadOnly THEN "R" ELSE "COW"
        /\ vm.data[vm.pt[child(e)][va].frame] = vm.data[vm.pt[e][va].frame]
ForkIsInStep(e) ==
  /\ pc[e].at \in {"map_new", "map_original"} => pc[e].n <= Len(UserPages) /\ page(e) \notin ReadOnly
  /\ pc[e].at = "map_shared" => pc[e].n <= Len(UserPages) /\ page(e) \in ReadOnly
  /\ pc[e].at \in {"xstack", "upcall", "runnable"} => pc[e].n = Len(UserPages) + 1
  /\ pc[e].at \in {"upcall", "runnable"} => vm.pt[child(e)]["XSTACK"].perm = "W"
  /\ pc[e].at = "runnable" => pc[child(e)].handler
  /\ Forking(e) => PagesCopied(e)
ForksAreInStep == \A e \in Envs : ForkIsInStep(e)

ForkInv ==
  /\ TypeOK /\ RefcountsAreExact /\ SharedIsReadOnly /\ FaultsAreHandled
  /\ ChildrenWait /\ SpacesAreWhole /\ FaultsAreInStep /\ ForksAreInStep

-----------------------------------------------------------------------------
(* Page tables.                                                            *)

Tables == [Envs -> [VAs -> Entry]]
Put(pt, e, va, x) == [pt EXCEPT ![e][va] = x]
Maps(pt, f) == {x \in Envs \X VAs : pt[x[1]][x[2]].frame = f}

LEMMA SpecialPages ==
  /\ Pages \subseteq VAs /\ "PFTEMP" \in VAs /\ "XSTACK" \in VAs
  /\ "PFTEMP" \notin Pages /\ "XSTACK" \notin Pages
BY JosForkAssumption DEF Pages, VAs

LEMMA Entries ==
  ASSUME NEW x \in Entry
  PROVE  /\ x = Unmapped <=> x.frame \notin Frames
         /\ x = Unmapped <=> x.perm = "none"
         /\ x # Unmapped <=> x.perm \in {"R", "W", "COW"}
         /\ x.perm \in {"none", "R", "W", "COW"}
         /\ x # Unmapped => x.frame \in Frames
BY DEF Entry, Unmapped, Frames

LEMMA UnmappedEntry == Unmapped \in Entry /\ Unmapped.frame \notin Frames /\ Unmapped.perm = "none"
BY DEF Entry, Unmapped, Frames

LEMMA MappedEntry ==
  ASSUME NEW f \in Frames, NEW p \in {"R", "W", "COW"}
  PROVE  /\ [frame |-> f, perm |-> p] \in Entry
         /\ [frame |-> f, perm |-> p].frame = f /\ [frame |-> f, perm |-> p].perm = p
BY DEF Entry

LEMMA PutAt ==
  ASSUME NEW pt \in Tables, NEW e \in Envs, NEW va \in VAs, NEW x \in Entry
  PROVE  /\ Put(pt, e, va, x) \in Tables
         /\ \A d \in Envs, v \in VAs :
              Put(pt, e, va, x)[d][v] = IF d = e /\ v = va THEN x ELSE pt[d][v]
BY DEF Put, Tables

\* The places an environment's programs can map are finitely many.
LEMMA PagesFinite == IsFiniteSet(VAs) /\ Cardinality(VAs) \in Nat /\ Cardinality(Envs) \in Nat
<1>1. IsFiniteSet(Pages)
  <2> DEFINE N == 1 .. Len(UserPages)
  <2>1. UserPages \in Seq(Pages)
    BY JosForkAssumption DEF Pages
  <2>2. DOMAIN UserPages = N /\ Len(UserPages) \in Nat /\ UserPages \in [N -> Pages]
    BY <2>1
  <2>3. Pages = {UserPages[i] : i \in N}
    BY <2>2 DEF Pages, Range
  <2>4. UserPages \in Surjection(N, Pages)
    BY <2>2, <2>3 DEF Surjection
  <2>5. IsFiniteSet(N)
    BY <2>2, FS_Interval
  <2> QED
    BY <2>4, <2>5, FS_Surjection
<1>2. VAs = (Pages \cup {"PFTEMP"}) \cup {"XSTACK"}
  BY DEF VAs
<1>3. IsFiniteSet(VAs)
  <2>1. IsFiniteSet(Pages \cup {"PFTEMP"})
    BY <1>1, FS_AddElement
  <2> QED
    BY <1>2, <2>1, FS_AddElement
<1> QED
  BY <1>3, FS_CardinalityType, JosForkAssumption

LEMMA MapsBounded ==
  ASSUME NEW pt, NEW f
  PROVE  /\ IsFiniteSet(Maps(pt, f))
         /\ Cardinality(Maps(pt, f)) \in 0 .. Cardinality(Envs) * Cardinality(VAs)
<1>1. IsFiniteSet(Envs \X VAs) /\ Cardinality(Envs \X VAs) = Cardinality(Envs) * Cardinality(VAs)
  BY PagesFinite, JosForkAssumption, FS_Product
<1>2. Maps(pt, f) \in SUBSET (Envs \X VAs)
  BY DEF Maps
<1>3. /\ IsFiniteSet(Maps(pt, f)) /\ Cardinality(Maps(pt, f)) \in Nat
      /\ Cardinality(Maps(pt, f)) <= Cardinality(Envs \X VAs)
  BY <1>1, <1>2, FS_Subset, FS_CardinalityType
<1>4. Cardinality(Envs) * Cardinality(VAs) \in Nat
  BY <1>1, FS_CardinalityType
<1> HIDE DEF Maps
<1> QED
  BY <1>1, <1>3, <1>4

\* Changing one entry moves one mapping.
LEMMA MapsPut ==
  ASSUME NEW pt \in Tables, NEW e \in Envs, NEW va \in VAs, NEW x \in Entry, NEW f \in Frames
  PROVE  /\ x.frame = f => Maps(Put(pt, e, va, x), f) = Maps(pt, f) \cup {<<e, va>>}
         /\ x.frame # f => Maps(Put(pt, e, va, x), f) = Maps(pt, f) \ {<<e, va>>}
         /\ <<e, va>> \in Maps(pt, f) <=> pt[e][va].frame = f
<1> DEFINE qt == Put(pt, e, va, x)
<1>1. \A d \in Envs, v \in VAs : qt[d][v] = IF d = e /\ v = va THEN x ELSE pt[d][v]
  BY PutAt
<1> HIDE DEF qt
<1>2. <<e, va>> \in Maps(pt, f) <=> pt[e][va].frame = f
  BY DEF Maps
<1>3. ASSUME NEW d \in Envs, NEW v \in VAs
      PROVE  <<d, v>> \in Maps(qt, f) <=> IF d = e /\ v = va THEN x.frame = f ELSE <<d, v>> \in Maps(pt, f)
  BY <1>1 DEF Maps
<1>4. Maps(qt, f) \subseteq Envs \X VAs /\ Maps(pt, f) \subseteq Envs \X VAs
  BY DEF Maps
<1>5. x.frame = f => Maps(qt, f) = Maps(pt, f) \cup {<<e, va>>}
  BY <1>3, <1>4
<1>6. x.frame # f => Maps(qt, f) = Maps(pt, f) \ {<<e, va>>}
  BY <1>3, <1>4
<1> QED
  BY <1>2, <1>5, <1>6 DEF qt

\* ... and is counted where it goes and where it came from.
LEMMA CountPut ==
  ASSUME NEW pt \in Tables, NEW e \in Envs, NEW va \in VAs, NEW x \in Entry, NEW f \in Frames
  PROVE  Cardinality(Maps(Put(pt, e, va, x), f)) =
           Cardinality(Maps(pt, f)) + (IF x.frame = f THEN 1 ELSE 0)
                                    - (IF pt[e][va].frame = f THEN 1 ELSE 0)
<1>1. IsFiniteSet(Maps(pt, f)) /\ Cardinality(Maps(pt, f)) \in Int
  BY MapsBounded, PagesFinite
<1> DEFINE old == Maps(pt, f)
           new == Maps(Put(pt, e, va, x), f)
<1>2. /\ x.frame = f => new = old \cup {<<e, va>>}
      /\ x.frame # f => new = old \ {<<e, va>>}
      /\ <<e, va>> \in old <=> pt[e][va].frame = f
  BY MapsPut
<1> HIDE DEF old, new
<1>3. /\ Cardinality(old \cup {<<e, va>>}) =
           IF <<e, va>> \in old THEN Cardinality(old) ELSE Cardinality(old) + 1
      /\ Cardinality(old \ {<<e, va>>}) =
           IF <<e, va>> \in old THEN Cardinality(old) - 1 ELSE Cardinality(old)
  BY <1>1, FS_AddElement, FS_RemoveElement DEF old
<1>4. Cardinality(old) \in Int
  BY <1>1 DEF old
<1>5. Cardinality(new) = Cardinality(old) + (IF x.frame = f THEN 1 ELSE 0)
                                          - (IF pt[e][va].frame = f THEN 1 ELSE 0)
  <2>1. CASE x.frame = f
    BY <1>2, <1>3, <1>4, <2>1
  <2>2. CASE x.frame # f
    <3>1. new = old \ {<<e, va>>}
      BY <1>2, <2>2
    <3>2. Cardinality(new) = IF pt[e][va].frame = f THEN Cardinality(old) - 1 ELSE Cardinality(old)
      BY <1>2, <1>3, <3>1
    <3> QED
      BY <1>4, <2>2, <3>2
  <2> QED
    BY <2>1, <2>2
<1> QED
  BY <1>5 DEF old, new

-----------------------------------------------------------------------------
(* The page operations of the kernel.                                      *)

\* A memory in the middle of an operation, and one between two.
Raw == [pt : Tables, pp_ref : [Frames -> Int], page_free_list : SUBSET Frames, data : [Frames -> Values]]

CountsOf(m) == \A f \in Frames : m.pp_ref[f] = Cardinality(Maps(m.pt, f))
FreeAre(m) == \A f \in Frames : f \in m.page_free_list <=> Maps(m.pt, f) = {}

\* What page operations promise: the table changes as told, what is mapped keeps its contents.
Leaves(m, pt, new) ==
  /\ new \in Memory /\ CountsOf(new) /\ FreeAre(new) /\ new.pt = pt
  /\ \A f \in Frames : Maps(pt, f) # {} => new.data[f] = m.data[f]

LEMMA MemoryIsRaw == ASSUME NEW m \in Memory PROVE m \in Raw
<1>1. m.pp_ref \in [Frames -> Int]
  <2>1. 0 .. Cardinality(Envs) * Cardinality(VAs) \subseteq Int
    OBVIOUS
  <2> HIDE DEF VAs, Frames
  <2> QED
    BY <2>1 DEF Memory
<1> QED
  BY <1>1 DEF Memory, Raw, Tables

LEMMA RawIsMemory == ASSUME NEW m \in Raw, CountsOf(m) PROVE m \in Memory
<1>1. \A f \in Frames : m.pp_ref[f] \in 0 .. Cardinality(Envs) * Cardinality(VAs)
  BY MapsBounded DEF CountsOf
<1>2. m.pp_ref \in [Frames -> 0 .. Cardinality(Envs) * Cardinality(VAs)]
  BY <1>1 DEF Raw
<1> QED
  BY <1>2 DEF Memory, Raw, Tables

LEMMA DecrefFields ==
  ASSUME NEW m \in Raw, NEW f \in Frames
  PROVE  /\ page_decref(m, f) \in Raw /\ page_decref(m, f).pt = m.pt
         /\ \A g \in Frames : page_decref(m, f).pp_ref[g] = m.pp_ref[g] - (IF g = f THEN 1 ELSE 0)
         /\ page_decref(m, f).page_free_list = m.page_free_list \cup {g \in {f} : m.pp_ref[f] = 1}
         /\ \A g \in Frames : page_decref(m, f).data[g] = IF g = f /\ m.pp_ref[f] = 1 THEN 0 ELSE m.data[g]
<1> DEFINE new == page_decref(m, f)
<1>1. CASE m.pp_ref[f] = 1
  <2>1. new = [pt |-> m.pt, pp_ref |-> [m.pp_ref EXCEPT ![f] = 0],
               page_free_list |-> m.page_free_list \cup {f}, data |-> [m.data EXCEPT ![f] = 0]]
    BY <1>1 DEF page_decref, Raw
  <2>2. 0 \in Values
    BY JosForkAssumption
  <2> HIDE DEF new
  <2> QED
    BY <1>1, <2>1, <2>2 DEF Raw, new
<1>2. CASE m.pp_ref[f] # 1
  <2>1. new = [pt |-> m.pt, pp_ref |-> [m.pp_ref EXCEPT ![f] = @ - 1],
               page_free_list |-> m.page_free_list, data |-> m.data]
    BY <1>2 DEF page_decref, Raw
  <2> HIDE DEF new
  <2> QED
    BY <1>2, <2>1 DEF Raw, new
<1> QED
  BY <1>1, <1>2

LEMMA RemoveFields ==
  ASSUME NEW m \in Raw, NEW e \in Envs, NEW va \in VAs
  PROVE  LET new == page_remove(m, e, va)
             old == m.pt[e][va].frame
         IN  /\ new \in Raw /\ new.pt = Put(m.pt, e, va, Unmapped)
             /\ \A g \in Frames : new.pp_ref[g] = m.pp_ref[g] - (IF g = old THEN 1 ELSE 0)
             /\ \A g \in Frames : g \in new.page_free_list <=>
                  g \in m.page_free_list \/ (g = old /\ m.pp_ref[g] = 1)
             /\ \A g \in Frames : new.data[g] = IF g = old /\ m.pp_ref[g] = 1 THEN 0 ELSE m.data[g]
<1> DEFINE new == page_remove(m, e, va)
           old == m.pt[e][va].frame
<1>1. m.pt \in Tables /\ m.pt[e][va] \in Entry
  BY DEF Raw, Tables
<1>2. CASE m.pt[e][va] = Unmapped
  <2>1. new = m /\ old \notin Frames
    BY <1>2, UnmappedEntry DEF page_remove
  <2>2. m.pt = Put(m.pt, e, va, Unmapped)
    BY <1>1, <1>2 DEF Put, Tables
  <2>3. \A g \in Frames : m.pp_ref[g] \in Int
    BY DEF Raw
  <2> HIDE DEF new, old
  <2> QED
    BY <2>1, <2>2, <2>3 DEF new, old
<1>3. CASE m.pt[e][va] # Unmapped
  <2> DEFINE mid == page_decref(m, old)
  <2>1. old \in Frames
    BY <1>1, <1>3, Entries
  <2> HIDE DEF old
  <2>2. /\ mid \in Raw /\ mid.pt = m.pt
        /\ \A g \in Frames : mid.pp_ref[g] = m.pp_ref[g] - (IF g = old THEN 1 ELSE 0)
        /\ mid.page_free_list = m.page_free_list \cup {g \in {old} : m.pp_ref[old] = 1}
        /\ \A g \in Frames : mid.data[g] = IF g = old /\ m.pp_ref[old] = 1 THEN 0 ELSE m.data[g]
    BY <2>1, DecrefFields
  <2>3. new = [mid EXCEPT !.pt[e][va] = Unmapped]
    BY <1>3 DEF page_remove, old
  <2> HIDE DEF mid, new
  <2>4. new = [pt |-> Put(m.pt, e, va, Unmapped), pp_ref |-> mid.pp_ref,
               page_free_list |-> mid.page_free_list, data |-> mid.data]
    BY <2>2, <2>3 DEF Raw, Put
  <2>5. Put(m.pt, e, va, Unmapped) \in Tables
    BY <1>1, PutAt, UnmappedEntry
  <2>6. new \in Raw
    BY <2>2, <2>4, <2>5 DEF Raw
  <2>7. /\ new.pt = Put(m.pt, e, va, Unmapped) /\ new.pp_ref = mid.pp_ref
        /\ new.page_free_list = mid.page_free_list /\ new.data = mid.data
    BY <2>4
  <2>8. \A g \in Frames : new.pp_ref[g] = m.pp_ref[g] - (IF g = old THEN 1 ELSE 0)
    BY <2>2, <2>7
  <2>9. \A g \in Frames : g \in new.page_free_list <=>
          g \in m.page_free_list \/ (g = old /\ m.pp_ref[g] = 1)
    BY <2>2, <2>7
  <2>10. \A g \in Frames : new.data[g] = IF g = old /\ m.pp_ref[g] = 1 THEN 0 ELSE m.data[g]
    BY <2>2, <2>7
  <2> QED
    BY <2>6, <2>7, <2>8, <2>9, <2>10 DEF new, old
<1> QED
  BY <1>2, <1>3

\* page_remove.
LEMMA RemoveLeaves ==
  ASSUME NEW m \in Memory, CountsOf(m), FreeAre(m), NEW e \in Envs, NEW va \in VAs
  PROVE  Leaves(m, Put(m.pt, e, va, Unmapped), page_remove(m, e, va))
<1> DEFINE new == page_remove(m, e, va)
           old == m.pt[e][va].frame
           qt == Put(m.pt, e, va, Unmapped)
<1>1. m \in Raw /\ m.pt \in Tables
  BY MemoryIsRaw DEF Raw
<1>2. /\ new \in Raw /\ new.pt = qt
      /\ \A g \in Frames : new.pp_ref[g] = m.pp_ref[g] - (IF g = old THEN 1 ELSE 0)
      /\ \A g \in Frames : g \in new.page_free_list <=>
           g \in m.page_free_list \/ (g = old /\ m.pp_ref[g] = 1)
      /\ \A g \in Frames : new.data[g] = IF g = old /\ m.pp_ref[g] = 1 THEN 0 ELSE m.data[g]
  BY <1>1, RemoveFields
<1>3. \A g \in Frames : Cardinality(Maps(qt, g)) = Cardinality(Maps(m.pt, g)) - (IF g = old THEN 1 ELSE 0)
  <2> TAKE g \in Frames
  <2>1. Unmapped.frame # g
    BY UnmappedEntry
  <2>2. Cardinality(Maps(m.pt, g)) \in Int
    BY MapsBounded, PagesFinite
  <2> QED
    BY <1>1, <2>1, <2>2, CountPut, UnmappedEntry
<1>4. \A g \in Frames : m.pp_ref[g] = Cardinality(Maps(m.pt, g))
  BY DEF CountsOf
<1>5. \A g \in Frames : Cardinality(Maps(qt, g)) = 0 <=> Maps(qt, g) = {}
  BY MapsBounded, FS_EmptySet
<1>6. \A g \in Frames : Cardinality(Maps(m.pt, g)) = 0 <=> Maps(m.pt, g) = {}
  BY MapsBounded, FS_EmptySet
<1>7. \A g \in Frames : Cardinality(Maps(m.pt, g)) \in Nat /\ Cardinality(Maps(qt, g)) \in Nat
  BY MapsBounded, PagesFinite
<1> HIDE DEF new, old, qt
<1>8. CountsOf(new)
  BY <1>2, <1>3, <1>4 DEF CountsOf
<1>9. FreeAre(new)
  <2> SUFFICES ASSUME NEW g \in Frames PROVE g \in new.page_free_list <=> Maps(qt, g) = {}
    BY <1>2 DEF FreeAre
  <2>1. g \in m.page_free_list <=> Cardinality(Maps(m.pt, g)) = 0
    BY <1>6 DEF FreeAre
  <2>2. CASE g = old
    BY <1>2, <1>3, <1>4, <1>5, <1>7, <2>1, <2>2
  <2>3. CASE g # old
    BY <1>2, <1>3, <1>5, <1>7, <2>1, <2>3
  <2> QED
    BY <2>2, <2>3
<1>10. new \in Memory
  BY <1>2, <1>8, RawIsMemory
<1>11. \A f \in Frames : Maps(qt, f) # {} => new.data[f] = m.data[f]
  BY <1>2, <1>3, <1>4, <1>5, <1>7
<1> QED
  BY <1>2, <1>8, <1>9, <1>10, <1>11 DEF Leaves, new, qt

\* page_insert, of a frame that is not in the free list: it may have been taken from there.
LEMMA InsertLeaves ==
  ASSUME NEW m \in Raw, CountsOf(m), NEW e \in Envs, NEW va \in VAs, NEW f \in Frames,
         NEW perm \in {"R", "W", "COW"},
         \A g \in Frames : g \in m.page_free_list <=> Maps(m.pt, g) = {} /\ g # f
  PROVE  Leaves(m, Put(m.pt, e, va, [frame |-> f, perm |-> perm]), page_insert(m, e, f, va, perm))
<1> DEFINE more == [m EXCEPT !.pp_ref[f] = @ + 1]
           removed == page_remove(more, e, va)
           new == page_insert(m, e, f, va, perm)
           old == m.pt[e][va].frame
           x == [frame |-> f, perm |-> perm]
           qt == Put(m.pt, e, va, x)
<1>1. m.pt \in Tables /\ x \in Entry /\ x.frame = f
  BY MappedEntry DEF Raw
<1>2. /\ more \in Raw /\ more.pt = m.pt /\ more.page_free_list = m.page_free_list
      /\ more.data = m.data
      /\ \A g \in Frames : more.pp_ref[g] = m.pp_ref[g] + (IF g = f THEN 1 ELSE 0)
  BY DEF Raw
<1> HIDE DEF more, x
<1>3. /\ removed \in Raw /\ removed.pt = Put(m.pt, e, va, Unmapped)
      /\ \A g \in Frames : removed.pp_ref[g] = more.pp_ref[g] - (IF g = old THEN 1 ELSE 0)
      /\ \A g \in Frames : g \in removed.page_free_list <=>
           g \in m.page_free_list \/ (g = old /\ more.pp_ref[g] = 1)
      /\ \A g \in Frames : removed.data[g] = IF g = old /\ more.pp_ref[g] = 1 THEN 0 ELSE m.data[g]
  BY <1>2, RemoveFields
<1>4. new = [removed EXCEPT !.pt[e][va] = x]
  BY DEF page_insert, more, x
<1> HIDE DEF removed, new
<1>5. new = [pt |-> qt, pp_ref |-> removed.pp_ref,
             page_free_list |-> removed.page_free_list, data |-> removed.data]
  <2>1. Put(Put(m.pt, e, va, Unmapped), e, va, x) = qt
    BY <1>1 DEF Put, Tables
  <2>2. new = [removed EXCEPT !.pt = Put(removed.pt, e, va, x)]
    BY <1>4 DEF Put
  <2> HIDE DEF qt
  <2>3. new = [removed EXCEPT !.pt = qt]
    BY <1>3, <2>1, <2>2
  <2> QED
    BY <1>3, <2>3 DEF Raw
<1>6. qt \in Tables
  BY <1>1, PutAt
<1>7. new \in Raw
  BY <1>3, <1>5, <1>6 DEF Raw
<1>8. \A g \in Frames : Cardinality(Maps(qt, g)) =
        Cardinality(Maps(m.pt, g)) + (IF f = g THEN 1 ELSE 0) - (IF g = old THEN 1 ELSE 0)
  BY <1>1, CountPut
<1>9. \A g \in Frames : m.pp_ref[g] = Cardinality(Maps(m.pt, g)) /\ m.pp_ref[g] \in Int
  BY DEF CountsOf, Raw
<1>10. \A g \in Frames : /\ Cardinality(Maps(qt, g)) = 0 <=> Maps(qt, g) = {}
                         /\ Cardinality(Maps(m.pt, g)) = 0 <=> Maps(m.pt, g) = {}
  BY MapsBounded, FS_EmptySet
<1>11. \A g \in Frames : Cardinality(Maps(m.pt, g)) \in Nat /\ Cardinality(Maps(qt, g)) \in Nat
  BY MapsBounded, PagesFinite
<1> HIDE DEF qt, old
<1>12. \A g \in Frames : removed.pp_ref[g] = Cardinality(Maps(qt, g))
  BY <1>2, <1>3, <1>8, <1>9
<1>13. CountsOf(new)
  BY <1>5, <1>12 DEF CountsOf
<1>14. \A g \in Frames : g = old /\ more.pp_ref[g] = 1 <=> g = old /\ Maps(qt, g) = {}
  BY <1>2, <1>8, <1>9, <1>10, <1>11
<1>15. \A g \in Frames : g # old /\ g # f => (Maps(qt, g) = {} <=> Maps(m.pt, g) = {})
  BY <1>8, <1>10, <1>11
<1>16. <<e, va>> \in Maps(qt, f)
  BY <1>1, PutAt DEF Maps, qt
<1>17. \A g \in Frames : g = old /\ g # f => Maps(m.pt, g) # {}
  BY <1>8, <1>10, <1>11
<1>18. FreeAre(new)
  BY <1>3, <1>5, <1>14, <1>15, <1>16, <1>17 DEF FreeAre
<1>19. new \in Memory
  BY <1>7, <1>13, RawIsMemory
<1>20. \A g \in Frames : Maps(qt, g) # {} => new.data[g] = m.data[g]
  BY <1>3, <1>5, <1>14
<1> QED
  BY <1>5, <1>13, <1>18, <1>19, <1>20 DEF Leaves, new, qt, x

\* The map system call, for a source that is mapped.
LEMMA MapLeaves ==
  ASSUME NEW m \in Memory, CountsOf(m), FreeAre(m), NEW src \in Envs, NEW srcva \in VAs,
         NEW dst \in Envs, NEW dstva \in VAs, NEW perm \in {"R", "W", "COW"},
         m.pt[src][srcva] # Unmapped
  PROVE  Leaves(m, Put(m.pt, dst, dstva, [frame |-> m.pt[src][srcva].frame, perm |-> perm]),
                sys_page_map(m, src, srcva, dst, dstva, perm))
<1> DEFINE f == m.pt[src][srcva].frame
<1>1. m \in Raw /\ m.pt \in Tables
  BY MemoryIsRaw DEF Raw
<1>2. m.pt[src][srcva] \in Entry
  BY <1>1 DEF Tables
<1>3. f \in Frames
  BY <1>2, Entries
<1>4. <<src, srcva>> \in Maps(m.pt, f)
  BY DEF Maps
<1>5. \A g \in Frames : g \in m.page_free_list <=> Maps(m.pt, g) = {} /\ g # f
  BY <1>4 DEF FreeAre
<1> HIDE DEF f
<1>6. Leaves(m, Put(m.pt, dst, dstva, [frame |-> f, perm |-> perm]),
             page_insert(m, dst, f, dstva, perm))
  BY <1>1, <1>3, <1>5, InsertLeaves
<1> QED
  BY <1>6 DEF f, sys_page_map

\* page_alloc and page_insert: the new page is one that nobody maps.
LEMMA AllocLeaves ==
  ASSUME NEW m \in Memory, CountsOf(m), FreeAre(m), NEW e \in Envs, NEW va \in VAs,
         NEW perm \in {"R", "W", "COW"}, m.page_free_list # {}
  PROVE  \E f \in Frames :
           /\ Maps(m.pt, f) = {}
           /\ Leaves(m, Put(m.pt, e, va, [frame |-> f, perm |-> perm]),
                     sys_page_alloc(m, e, va, perm))
<1> DEFINE f == CHOOSE g \in m.page_free_list : TRUE
           taken == [m EXCEPT !.page_free_list = @ \ {f}]
<1>1. f \in m.page_free_list
  OBVIOUS
<1>2. sys_page_alloc(m, e, va, perm) = page_insert(taken, e, f, va, perm)
  BY DEF sys_page_alloc
<1>3. m \in Raw
  BY MemoryIsRaw
<1> HIDE DEF f
<1>4. f \in Frames /\ Maps(m.pt, f) = {}
  BY <1>1, <1>3 DEF FreeAre, Raw
<1>5. /\ taken \in Raw /\ taken.pt = m.pt /\ taken.pp_ref = m.pp_ref /\ taken.data = m.data
      /\ taken.page_free_list = m.page_free_list \ {f}
  BY <1>3 DEF Raw
<1> HIDE DEF taken
<1>6. CountsOf(taken)
  BY <1>5 DEF CountsOf
<1>7. \A g \in Frames : g \in taken.page_free_list <=> Maps(taken.pt, g) = {} /\ g # f
  BY <1>5 DEF FreeAre
<1>8. Leaves(taken, Put(m.pt, e, va, [frame |-> f, perm |-> perm]), page_insert(taken, e, f, va, perm))
  BY <1>4, <1>5, <1>6, <1>7, InsertLeaves
<1>9. Leaves(m, Put(m.pt, e, va, [frame |-> f, perm |-> perm]), page_insert(taken, e, f, va, perm))
  BY <1>5, <1>8 DEF Leaves
<1> QED
  BY <1>2, <1>4, <1>9

\* env_free.
Emptied(pt, e) == [pt EXCEPT ![e] = [va \in VAs |-> Unmapped]]

LEMMA EmptiedAt ==
  ASSUME NEW pt \in Tables, NEW e \in Envs
  PROVE  /\ Emptied(pt, e) \in Tables
         /\ \A d \in Envs, v \in VAs :
              Emptied(pt, e)[d][v] = IF d = e THEN Unmapped ELSE pt[d][v]
BY UnmappedEntry DEF Emptied, Tables

LEMMA FreeLeaves ==
  ASSUME NEW m \in Memory, CountsOf(m), FreeAre(m), NEW e \in Envs
  PROVE  Leaves(m, Emptied(m.pt, e), env_free(m, e))
<1> DEFINE Own(f) == {va \in VAs : m.pt[e][va].frame = f}
           refs == [f \in Frames |-> m.pp_ref[f] - Cardinality(Own(f))]
           unused == {f \in Frames : refs[f] = 0}
           qt == Emptied(m.pt, e)
           data == [f \in Frames |-> IF f \in unused THEN 0 ELSE m.data[f]]
           new == env_free(m, e)
<1>1. m \in Raw /\ m.pt \in Tables
  BY MemoryIsRaw DEF Raw
<1>2. new = [pt |-> qt, pp_ref |-> refs, page_free_list |-> m.page_free_list \cup unused, data |-> data]
  BY DEF env_free, Emptied
<1>3. qt \in Tables /\ \A d \in Envs, v \in VAs : qt[d][v] = IF d = e THEN Unmapped ELSE m.pt[d][v]
  BY <1>1, EmptiedAt
<1>4. ASSUME NEW f \in Frames
      PROVE  /\ Cardinality(Maps(qt, f)) = Cardinality(Maps(m.pt, f)) - Cardinality(Own(f))
             /\ Cardinality(Maps(qt, f)) \in Nat /\ Cardinality(Own(f)) \in Nat
             /\ Cardinality(Maps(qt, f)) = 0 <=> Maps(qt, f) = {}
             /\ Maps(qt, f) \subseteq Maps(m.pt, f)
  <2> DEFINE before == Maps(m.pt, f)
             after == Maps(qt, f)
             lost == {e} \X Own(f)
  <2>1. after = before \ lost
    <3> HIDE DEF qt
    <3>1. \A d \in Envs, v \in VAs : <<d, v>> \in after <=> <<d, v>> \in before /\ <<d, v>> \notin lost
      BY <1>3, UnmappedEntry DEF Maps
    <3>2. after \subseteq Envs \X VAs /\ before \subseteq Envs \X VAs
      BY DEF Maps
    <3> HIDE DEF after, before, lost
    <3> QED
      BY <3>1, <3>2
  <2>2. lost \subseteq before
    BY DEF Maps
  <2>3. IsFiniteSet(Own(f)) /\ Cardinality(Own(f)) \in Nat
    BY PagesFinite, FS_Subset, FS_CardinalityType
  <2>4. Cardinality(lost) = Cardinality(Own(f))
    <3>1. IsFiniteSet({e}) /\ Cardinality({e}) = 1
      BY FS_Singleton
    <3> HIDE DEF Own
    <3>2. Cardinality(lost) = 1 * Cardinality(Own(f))
      BY <2>3, <3>1, FS_Product
    <3> QED
      BY <2>3, <3>2
  <2>5. IsFiniteSet(before) /\ IsFiniteSet(after) /\ Cardinality(after) \in Nat
    BY MapsBounded, PagesFinite
  <2>6. Cardinality(after) = 0 <=> after = {}
    BY <2>5, FS_EmptySet
  <2> HIDE DEF before, after, lost, Own
  <2>7. Cardinality(before \ lost) = Cardinality(before) - Cardinality(before \cap lost)
    BY <2>5, FS_Difference
  <2>8. before \cap lost = lost
    BY <2>2
  <2>9. Cardinality(after) = Cardinality(before) - Cardinality(Own(f))
    BY <2>1, <2>4, <2>7, <2>8
  <2>10. after \subseteq before
    BY <2>1
  <2> QED
    BY <2>3, <2>5, <2>6, <2>9, <2>10 DEF before, after
<1> HIDE DEF Own
<1>5. \A f \in Frames : m.pp_ref[f] = Cardinality(Maps(m.pt, f))
  BY DEF CountsOf
<1>6. \A f \in Frames : refs[f] = Cardinality(Maps(qt, f))
  BY <1>4, <1>5
<1>7. new \in Raw
  <2>1. refs \in [Frames -> Int]
    BY <1>1, <1>4 DEF Raw
  <2>2. data \in [Frames -> Values]
    BY <1>1, JosForkAssumption DEF Raw
  <2>3. unused \subseteq Frames
    OBVIOUS
  <2> HIDE DEF refs, data, unused, new, qt
  <2> QED
    BY <1>1, <1>2, <1>3, <2>1, <2>2, <2>3 DEF Raw
<1>8. \A f \in Frames : f \in unused <=> Maps(qt, f) = {}
  BY <1>4, <1>6
<1>9. \A f \in Frames : Maps(qt, f) # {} => data[f] = m.data[f]
  BY <1>8
<1> HIDE DEF refs, data, unused, new, qt
<1>10. CountsOf(new)
  BY <1>2, <1>6 DEF CountsOf
<1>11. FreeAre(new)
  BY <1>2, <1>4, <1>8 DEF FreeAre
<1>12. new \in Memory
  BY <1>7, <1>10, RawIsMemory
<1> QED
  BY <1>2, <1>9, <1>10, <1>11, <1>12 DEF Leaves, new, qt

-----------------------------------------------------------------------------
(* The invariant, by environment and page.                                 *)

Places == {"free", "embryo", "user", "exofork", "duppage", "map_new",
           "map_original", "map_shared", "xstack", "upcall", "runnable"}
Stages == {"none", "alloc", "copy", "map", "unmap"}
Programs == [at : Places, child : Envs, n : 1 .. Len(UserPages) + 1, fault : Stages,
             va : Pages, handler : BOOLEAN]

Exact(m) == m \in Memory /\ CountsOf(m) /\ FreeAre(m)

MidDuppage(d, v, d2, v2) ==
  pc[d].at = "map_original" /\ v = page(d) /\ d2 = child(d) /\ v2 = v /\ pc[d2].at = "embryo"
MidFault(d, v, d2, v2) ==
  /\ pc[d].fault = "unmap" /\ d2 = d
  /\ (v = "PFTEMP" /\ v2 = pc[d].va) \/ (v = pc[d].va /\ v2 = "PFTEMP")
Sharing ==
  \A d, d2 \in Envs, v, v2 \in VAs :
    vm.pt[d][v].perm = "W" /\ vm.pt[d2][v2].frame = vm.pt[d][v].frame /\ ~ (d2 = d /\ v2 = v) =>
      MidDuppage(d, v, d2, v2) \/ MidFault(d, v, d2, v2)

FaultIsHandled(e) ==
  Alive(e) /\ (\E va \in Pages : vm.pt[e][va].perm = "COW") =>
    pc[e].handler /\ vm.pt[e]["XSTACK"].perm = "W"

\* The part of the invariant that is about one environment.
Local(e) == SpaceIsWhole(e) /\ FaultIsInStep(e) /\ FaultIsHandled(e)

\* The same invariant in these terms.
Typing == Exact(vm) /\ pc \in [Envs -> Programs]
Inv ==
  /\ Typing /\ Sharing /\ ChildrenWait
  /\ \A e \in Envs : Local(e)
  /\ \A e \in Envs : ForkIsInStep(e)

LEMMA ExactIs ==
  TypeOK /\ RefcountsAreExact <=> Typing
<1>1. \A f : mappings(f) = Maps(vm.pt, f)
  BY DEF mappings, Maps
<1>2. TypeOK <=> vm \in Memory /\ pc \in [Envs -> Programs]
  BY DEF TypeOK, Programs, Places, Stages
<1>3. ASSUME vm \in Memory
      PROVE  RefcountsAreExact <=> CountsOf(vm) /\ FreeAre(vm)
  <2>1. vm.page_free_list \subseteq Frames
    BY <1>3 DEF Memory
  <2> QED
    BY <1>1, <2>1 DEF RefcountsAreExact, CountsOf, FreeAre
<1> QED
  BY <1>2, <1>3 DEF Exact, Typing

LEMMA SharingIs == ASSUME vm \in Memory PROVE SharedIsReadOnly <=> Sharing
<1>1. \A d \in Envs, v \in VAs : vm.pt[d][v] \in Entry
  BY DEF Memory
<1>2. \A d \in Envs, v \in VAs : vm.pt[d][v].perm = "W" => vm.pt[d][v].frame \in Frames
  BY <1>1, Entries
<1>3. ASSUME SharedIsReadOnly PROVE Sharing
  <2> SUFFICES ASSUME NEW d \in Envs, NEW d2 \in Envs, NEW v \in VAs, NEW v2 \in VAs,
                      vm.pt[d][v].perm = "W", vm.pt[d2][v2].frame = vm.pt[d][v].frame,
                      ~ (d2 = d /\ v2 = v)
               PROVE  MidDuppage(d, v, d2, v2) \/ MidFault(d, v, d2, v2)
    BY DEF Sharing
  <2> DEFINE f == vm.pt[d][v].frame
             x == <<d, v>>
             y == <<d2, v2>>
  <2>1. f \in Frames /\ x \in mappings(f) /\ y \in mappings(f) /\ x # y
    BY <1>2 DEF mappings
  <2> HIDE DEF f
  <2>2. \/ pc[x[1]].at = "map_original" /\ x[2] = page(x[1])
           /\ y = <<child(x[1]), x[2]>> /\ pc[y[1]].at = "embryo"
        \/ pc[x[1]].fault = "unmap" /\ y[1] = x[1] /\ {x[2], y[2]} = {"PFTEMP", pc[x[1]].va}
    BY <1>3, <2>1 DEF SharedIsReadOnly
  <2> QED
    BY <2>2 DEF MidDuppage, MidFault
<1>4. ASSUME Sharing PROVE SharedIsReadOnly
  <2> SUFFICES ASSUME NEW f \in Frames, NEW x \in mappings(f), NEW y \in mappings(f),
                      x # y, vm.pt[x[1]][x[2]].perm = "W"
               PROVE  \/ pc[x[1]].at = "map_original" /\ x[2] = page(x[1])
                         /\ y = <<child(x[1]), x[2]>> /\ pc[y[1]].at = "embryo"
                      \/ pc[x[1]].fault = "unmap" /\ y[1] = x[1] /\ {x[2], y[2]} = {"PFTEMP", pc[x[1]].va}
    BY DEF SharedIsReadOnly
  <2>1. PICK d \in Envs, v \in VAs : x = <<d, v>> /\ vm.pt[d][v].frame = f
    BY DEF mappings
  <2>2. PICK d2 \in Envs, v2 \in VAs : y = <<d2, v2>> /\ vm.pt[d2][v2].frame = f
    BY DEF mappings
  <2>3. MidDuppage(d, v, d2, v2) \/ MidFault(d, v, d2, v2)
    BY <1>4, <2>1, <2>2 DEF Sharing
  <2> QED
    BY <2>1, <2>2, <2>3 DEF MidDuppage, MidFault
<1> QED
  BY <1>3, <1>4

LEMMA InvIs == ForkInv <=> Inv
<1>1. FaultsAreHandled <=> \A e \in Envs : FaultIsHandled(e)
  BY DEF FaultsAreHandled, FaultIsHandled
<1> QED
  BY <1>1, ExactIs, SharingIs DEF ForkInv, Inv, Exact, Typing, Local, SpacesAreWhole, FaultsAreInStep, ForksAreInStep

\* What an operation of the kernel that sets one entry leaves, by environment and page.
Sets(m, e, va, x, new) ==
  /\ Exact(new)
  /\ \A d \in Envs, v \in VAs : new.pt[d][v] = IF d = e /\ v = va THEN x ELSE m.pt[d][v]
  /\ \A d \in Envs, v \in VAs : new.pt[d][v].perm # "none" =>
       new.data[new.pt[d][v].frame] = m.data[new.pt[d][v].frame]

LEMMA LeavesSets ==
  ASSUME NEW m \in Memory, NEW e \in Envs, NEW va \in VAs, NEW x \in Entry, NEW new,
         Leaves(m, Put(m.pt, e, va, x), new)
  PROVE  Sets(m, e, va, x, new)
<1>1. m.pt \in Tables
  BY DEF Memory, Tables
<1>2. Exact(new) /\ new.pt = Put(m.pt, e, va, x) /\ new.pt \in Tables
  BY <1>1, PutAt DEF Leaves, Exact
<1>3. \A d \in Envs, v \in VAs : new.pt[d][v] = IF d = e /\ v = va THEN x ELSE m.pt[d][v]
  BY <1>1, <1>2, PutAt
<1>4. ASSUME NEW d \in Envs, NEW v \in VAs, new.pt[d][v].perm # "none"
      PROVE  new.data[new.pt[d][v].frame] = m.data[new.pt[d][v].frame]
  <2>1. new.pt[d][v] \in Entry
    BY <1>2 DEF Tables
  <2>2. new.pt[d][v].frame \in Frames
    BY <1>4, <2>1, Entries
  <2>3. <<d, v>> \in Maps(new.pt, new.pt[d][v].frame)
    BY DEF Maps
  <2> QED
    BY <1>2, <2>2, <2>3 DEF Leaves
<1> QED
  BY <1>2, <1>3, <1>4 DEF Sets

LEMMA MapSets ==
  ASSUME Exact(vm), NEW src \in Envs, NEW srcva \in VAs, NEW dst \in Envs, NEW dstva \in VAs,
         NEW perm \in {"R", "W", "COW"}, vm.pt[src][srcva].perm # "none"
  PROVE  Sets(vm, dst, dstva, [frame |-> vm.pt[src][srcva].frame, perm |-> perm],
              sys_page_map(vm, src, srcva, dst, dstva, perm))
<1> DEFINE f == vm.pt[src][srcva].frame
           x == [frame |-> f, perm |-> perm]
           new == sys_page_map(vm, src, srcva, dst, dstva, perm)
<1>1. vm \in Memory /\ CountsOf(vm) /\ FreeAre(vm)
  BY DEF Exact
<1>2. vm.pt[src][srcva] \in Entry
  BY <1>1 DEF Memory
<1>3. f \in Frames /\ vm.pt[src][srcva] # Unmapped
  BY <1>2, Entries
<1>4. Leaves(vm, Put(vm.pt, dst, dstva, x), new)
  BY <1>1, <1>3, MapLeaves
<1>5. x \in Entry
  BY <1>3, MappedEntry
<1> HIDE DEF x, new
<1> QED
  BY <1>1, <1>4, <1>5, LeavesSets DEF x, new

LEMMA RemoveSets ==
  ASSUME Exact(vm), NEW e \in Envs, NEW va \in VAs
  PROVE  Sets(vm, e, va, Unmapped, page_remove(vm, e, va))
<1>1. vm \in Memory /\ CountsOf(vm) /\ FreeAre(vm)
  BY DEF Exact
<1>2. Leaves(vm, Put(vm.pt, e, va, Unmapped), page_remove(vm, e, va))
  BY <1>1, RemoveLeaves
<1> QED
  BY <1>1, <1>2, UnmappedEntry, LeavesSets

\* A page allocated is one that nobody maps.
LEMMA AllocSets ==
  ASSUME Exact(vm), NEW e \in Envs, NEW va \in VAs, NEW perm \in {"R", "W", "COW"},
         vm.page_free_list # {}
  PROVE  \E f \in Frames :
           /\ \A d \in Envs, v \in VAs : vm.pt[d][v].frame # f
           /\ Sets(vm, e, va, [frame |-> f, perm |-> perm], sys_page_alloc(vm, e, va, perm))
<1> DEFINE new == sys_page_alloc(vm, e, va, perm)
<1>1. vm \in Memory /\ CountsOf(vm) /\ FreeAre(vm)
  BY DEF Exact
<1>2. PICK f \in Frames : Maps(vm.pt, f) = {} /\ Leaves(vm, Put(vm.pt, e, va, [frame |-> f, perm |-> perm]), new)
  BY <1>1, AllocLeaves
<1> DEFINE x == [frame |-> f, perm |-> perm]
<1>3. \A d \in Envs, v \in VAs : vm.pt[d][v].frame # f
  <2> TAKE d \in Envs, v \in VAs
  <2>1. <<d, v>> \notin Maps(vm.pt, f)
    BY <1>2
  <2> QED
    BY <2>1 DEF Maps
<1>4. x \in Entry
  BY MappedEntry
<1> HIDE DEF x, new
<1>5. Sets(vm, e, va, x, new)
  BY <1>1, <1>2, <1>4, LeavesSets DEF x
<1> QED
  BY <1>3, <1>5 DEF x, new

\* The types of what the invariant speaks of.
LEMMA Typed ==
  ASSUME Typing
  PROVE  /\ \A d \in Envs : /\ pc[d].at \in Places /\ pc[d].child \in Envs /\ pc[d].fault \in Stages
                            /\ pc[d].n \in Nat /\ 1 <= pc[d].n /\ pc[d].n <= Len(UserPages) + 1
                            /\ pc[d].va \in Pages /\ pc[d].handler \in BOOLEAN
         /\ \A d \in Envs, v \in VAs :
              /\ vm.pt[d][v] \in Entry /\ vm.pt[d][v].perm \in {"none", "R", "W", "COW"}
              /\ vm.pt[d][v].perm # "none" <=> vm.pt[d][v].frame \in Frames
              /\ vm.pt[d][v] = Unmapped <=> vm.pt[d][v].perm = "none"
         /\ Len(UserPages) \in Nat
<1>1. Len(UserPages) \in Nat
  BY JosForkAssumption
<1>2. \A d \in Envs, v \in VAs : vm.pt[d][v] \in Entry
  BY DEF Typing, Exact, Memory
<1>3. \A d \in Envs, v \in VAs :
              /\ vm.pt[d][v] \in Entry /\ vm.pt[d][v].perm \in {"none", "R", "W", "COW"}
              /\ vm.pt[d][v].perm # "none" <=> vm.pt[d][v].frame \in Frames
              /\ vm.pt[d][v] = Unmapped <=> vm.pt[d][v].perm = "none"
  BY <1>2, Entries
<1>4. \A d \in Envs : pc[d] \in Programs
  BY DEF Typing
<1>5. \A d \in Envs : pc[d].n \in 1 .. Len(UserPages) + 1
  BY <1>4 DEF Programs
<1>6. \A d \in Envs : pc[d].n \in Nat /\ 1 <= pc[d].n /\ pc[d].n <= Len(UserPages) + 1
  BY <1>1, <1>5
<1>7. \A d \in Envs : /\ pc[d].at \in Places /\ pc[d].child \in Envs /\ pc[d].fault \in Stages
                      /\ pc[d].va \in Pages /\ pc[d].handler \in BOOLEAN
  BY <1>4 DEF Programs
<1> QED
  BY <1>1, <1>3, <1>6, <1>7

\* The pages of a program, by their numbers.
LEMMA Numbered ==
  /\ Len(UserPages) \in Nat
  /\ \A i \in 1 .. Len(UserPages) : UserPages[i] \in Pages
  /\ \A i, j \in 1 .. Len(UserPages) : UserPages[i] = UserPages[j] => i = j
  /\ \A va \in Pages : \E i \in 1 .. Len(UserPages) : UserPages[i] = va
<1>1. UserPages \in Seq(Pages)
  BY JosForkAssumption DEF Pages
<1>2. DOMAIN UserPages = 1 .. Len(UserPages) /\ Len(UserPages) \in Nat
  BY <1>1
<1>3. Pages = {UserPages[i] : i \in 1 .. Len(UserPages)}
  BY <1>2 DEF Pages, Range
<1>4. \A i, j \in 1 .. Len(UserPages) : UserPages[i] = UserPages[j] => i = j
  BY <1>2, JosForkAssumption DEF IsInjective
<1> QED
  BY <1>2, <1>3, <1>4

-----------------------------------------------------------------------------
(* What a step leaves alone.                                               *)

SameSpace(d) ==
  \A v \in VAs :
    /\ vm'.pt[d][v] = vm.pt[d][v]
    /\ vm.pt[d][v].perm # "none" => vm'.data[vm.pt[d][v].frame] = vm.data[vm.pt[d][v].frame]
Same(d) == pc'[d] = pc[d] /\ SameSpace(d)

LEMMA LocalKept ==
  ASSUME Typing, NEW d \in Envs, Local(d), SameSpace(d),
         pc'[d].fault = pc[d].fault, pc'[d].va = pc[d].va, pc'[d].handler = pc[d].handler,
         \/ pc'[d].at = pc[d].at
         \/ /\ Alive(d) /\ Alive(d)'
            /\ pc'[d].at \in ForkStages \cup {"exofork"} => pc[d].handler
  PROVE  Local(d)'
<1>1. /\ pc[d].va \in VAs /\ \A va \in Pages : va \in VAs
      /\ "XSTACK" \in VAs /\ "PFTEMP" \in VAs
  BY Typed, SpecialPages
<1>2. SpaceIsWhole(d)'
  BY <1>1 DEF Local, SpaceIsWhole, SameSpace, Forking, ForkStages, Alive
<1>3. FaultIsHandled(d)'
  BY <1>1 DEF Local, FaultIsHandled, SameSpace, Alive
<1>4. FaultIsInStep(d)'
  BY <1>1, ZenonT(40) DEF Local, FaultIsInStep, SameSpace, Alive
<1> QED
  BY <1>2, <1>3, <1>4 DEF Local

LEMMA ForkKept ==
  ASSUME Typing, NEW d \in Envs, Local(d), ForkIsInStep(d),
         \A va \in Pages : vm.pt[d][va].perm # "none" =>
           vm'.data[vm'.pt[d][va].frame] = vm.data[vm.pt[d][va].frame],
         pc'[d].at = pc[d].at, pc'[d].n = pc[d].n, pc'[d].child = pc[d].child,
         Forking(d) => Same(child(d))
  PROVE  ForkIsInStep(d)'
<1> DEFINE c == child(d)
<1>1. "XSTACK" \in VAs /\ (\A i \in 1 .. Len(UserPages) : UserPages[i] \in Pages /\ UserPages[i] \in VAs)
  BY Numbered, SpecialPages
<1>2. ASSUME Forking(d) PROVE PagesCopied(d)'
  <2>1. Same(c) /\ PagesCopied(d)
    BY <1>2 DEF ForkIsInStep
  <2>2. Alive(d)
    BY <1>2 DEF Forking, ForkStages, Alive
  <2>3. \A va \in Pages : vm.pt[d][va].perm \in {"R", "W", "COW"}
    BY <2>2 DEF Local, SpaceIsWhole
  <2>4. \A i : Copied(d, i)' <=> Copied(d, i)
    BY DEF Copied
  <2>5. child(d)' = c
    BY DEF child
  <2> SUFFICES ASSUME NEW i \in 1 .. Len(UserPages), Copied(d, i)
               PROVE  /\ vm'.pt[c][UserPages[i]].perm = IF UserPages[i] \in ReadOnly THEN "R" ELSE "COW"
                      /\ vm'.data[vm'.pt[c][UserPages[i]].frame] = vm'.data[vm'.pt[d][UserPages[i]].frame]
    BY <2>4, <2>5 DEF PagesCopied
  <2> DEFINE va == UserPages[i]
  <2>6. /\ vm.pt[c][va].perm = IF va \in ReadOnly THEN "R" ELSE "COW"
        /\ vm.data[vm.pt[c][va].frame] = vm.data[vm.pt[d][va].frame]
    BY <2>1 DEF PagesCopied
  <2>7. va \in Pages /\ va \in VAs
    BY <1>1
  <2> HIDE DEF va
  <2>8. /\ vm'.pt[c][va] = vm.pt[c][va]
        /\ vm'.data[vm.pt[c][va].frame] = vm.data[vm.pt[c][va].frame]
    BY <2>1, <2>6, <2>7 DEF Same, SameSpace
  <2>9. vm'.data[vm'.pt[d][va].frame] = vm.data[vm.pt[d][va].frame]
    BY <2>3, <2>7
  <2> QED
    BY <2>6, <2>8, <2>9 DEF va
<1>3. Forking(d)' <=> Forking(d)
  BY DEF Forking
<1>4. /\ pc[d].at \in {"upcall", "runnable"} => vm'.pt[c]["XSTACK"] = vm.pt[c]["XSTACK"]
      /\ pc[d].at = "runnable" => pc'[c].handler = pc[c].handler
  BY <1>1 DEF Forking, ForkStages, Same, SameSpace
<1> QED
  BY <1>2, <1>3, <1>4 DEF ForkIsInStep, page, child

\* Nobody is the parent of an environment that runs, and a child has one parent.
LEMMA OneParent ==
  ASSUME Inv, NEW e \in Envs, Alive(e)
  PROVE  /\ \A d \in Envs : Forking(d) => child(d) # e
         /\ \A d \in Envs : Forking(d) /\ Forking(e) /\ child(d) = child(e) => d = e
         /\ Forking(e) => pc[child(e)].at = "embryo" /\ child(e) # e
BY DEF Inv, ChildrenWait, Alive

\* It is enough to look at the environment that makes the step and at its child.
LEMMA StepKeeps ==
  ASSUME Inv, NEW e \in Envs, NEW c \in Envs, Typing', Sharing',
         \A d \in Envs : d # e /\ d # c => Same(d),
         \A d \in Envs : Forking(d) /\ child(d) \in {e, c} => d = e,
         Forking(e)' => c # e /\ pc'[c].at = "embryo" /\ pc'[e].child = c,
         c # e => ~ Forking(c)',
         Local(e)', Local(c)', ForkIsInStep(e)'
  PROVE  Inv'
<1>1. Typing /\ (\A d \in Envs : Local(d) /\ ForkIsInStep(d)) /\ ChildrenWait
  BY DEF Inv
<1>2. \A d \in Envs : child(d) \in Envs
  BY <1>1, Typed DEF child
<1>3. \A d \in Envs : Local(d)'
  BY <1>1, LocalKept DEF Same
<1>4. ASSUME NEW d \in Envs PROVE ForkIsInStep(d)'
  <2>1. CASE d = e
    BY <2>1
  <2>2. CASE d # e /\ d = c
    BY <2>2 DEF ForkIsInStep, Forking, ForkStages
  <2>3. CASE d # e /\ d # c
    <3>1. Forking(d) => Same(child(d))
      BY <1>2, <2>3
    <3>2. Same(d)
      BY <2>3
    <3>3. pc'[d].at = pc[d].at /\ pc'[d].n = pc[d].n /\ pc'[d].child = pc[d].child
      BY <3>2 DEF Same
    <3>4. \A va \in Pages : vm.pt[d][va].perm # "none" =>
            vm'.data[vm'.pt[d][va].frame] = vm.data[vm.pt[d][va].frame]
      BY <3>2, SpecialPages DEF Same, SameSpace
    <3> QED
      BY <1>1, <3>1, <3>3, <3>4, ForkKept
  <2> QED
    BY <2>1, <2>2, <2>3
<1>5. ChildrenWait'
  <2>1. \A d \in Envs : d # e /\ d # c => pc'[d] = pc[d]
    BY DEF Same
  <2>2. \A d \in Envs : Forking(d)' => d = e \/ (d # c /\ Forking(d) /\ pc'[d] = pc[d])
    BY <2>1 DEF Forking
  <2>3. \A d \in Envs : Forking(d) /\ d # e => child(d) # e /\ child(d) # c
    OBVIOUS
  <2>4. \A d \in Envs : Forking(d) => pc[child(d)].at = "embryo" /\ child(d) \in Envs
    BY <1>1, <1>2 DEF ChildrenWait
  <2>5. \A d, x \in Envs : Forking(d) /\ Forking(x) /\ child(x) = child(d) => x = d
    BY <1>1 DEF ChildrenWait
  <2> SUFFICES ASSUME NEW d \in Envs, Forking(d)'
               PROVE  /\ pc'[pc'[d].child].at = "embryo"
                      /\ \A x \in Envs : Forking(x)' /\ pc'[x].child = pc'[d].child => x = d
    BY DEF ChildrenWait, child
  <2>6. CASE d = e
    BY <2>2, <2>3, <2>6 DEF child
  <2>7. CASE d # e
    <3>1. d # c /\ Forking(d) /\ pc'[d].child = child(d)
      BY <2>2, <2>7 DEF child
    <3>2. pc'[child(d)] = pc[child(d)]
      BY <2>1, <2>3, <2>4, <2>7, <3>1
    <3> QED
      BY <2>2, <2>3, <2>4, <2>5, <2>7, <3>1, <3>2 DEF child
  <2> QED
    BY <2>6, <2>7
<1> QED
  BY <1>3, <1>4, <1>5 DEF Inv

Mid(d, v, d2, v2) == MidDuppage(d, v, d2, v2) \/ MidFault(d, v, d2, v2)

LEMMA SharingKept ==
  ASSUME Sharing, \A d \in Envs, v \in VAs : vm'.pt[d][v] = vm.pt[d][v],
         \A d, d2 \in Envs, v, v2 \in VAs : Mid(d, v, d2, v2) => Mid(d, v, d2, v2)'
  PROVE  Sharing'
BY DEF Sharing, Mid

EntrySet(e, va, x) ==
  \A d \in Envs, v \in VAs : vm'.pt[d][v] = IF d = e /\ v = va THEN x ELSE vm.pt[d][v]

LEMMA SharingSet ==
  ASSUME Sharing, NEW e \in Envs, NEW va \in VAs, NEW x, EntrySet(e, va, x),
         \A d, d2 \in Envs, v, v2 \in VAs :
           Mid(d, v, d2, v2) /\ ~ (d = e /\ v = va) /\ ~ (d2 = e /\ v2 = va) => Mid(d, v, d2, v2)',
         \A d \in Envs, v \in VAs : ~ (d = e /\ v = va) /\ vm.pt[d][v].frame = x.frame =>
           /\ vm.pt[d][v].perm = "W" => Mid(d, v, e, va)'
           /\ x.perm = "W" => Mid(e, va, d, v)'
  PROVE  Sharing'
<1> SUFFICES ASSUME NEW d \in Envs, NEW d2 \in Envs, NEW v \in VAs, NEW v2 \in VAs,
                    vm'.pt[d][v].perm = "W", vm'.pt[d2][v2].frame = vm'.pt[d][v].frame,
                    ~ (d2 = d /\ v2 = v)
             PROVE  Mid(d, v, d2, v2)'
  BY DEF Sharing, Mid
<1>1. CASE d = e /\ v = va
  BY <1>1 DEF EntrySet
<1>2. CASE d2 = e /\ v2 = va
  BY <1>2 DEF EntrySet
<1>3. CASE ~ (d = e /\ v = va) /\ ~ (d2 = e /\ v2 = va)
  <2>1. vm.pt[d][v].perm = "W" /\ vm.pt[d2][v2].frame = vm.pt[d][v].frame
    BY <1>3 DEF EntrySet
  <2>2. Mid(d, v, d2, v2)
    BY <2>1 DEF Sharing, Mid
  <2> QED
    BY <1>3, <2>2
<1> QED
  BY <1>1, <1>2, <1>3

\* The page of duppage is one of the program's.
LEMMA PageOf ==
  ASSUME Inv, NEW e \in Envs, pc[e].at \in {"map_new", "map_original", "map_shared"}
  PROVE  /\ pc[e].n \in 1 .. Len(UserPages) /\ page(e) \in Pages /\ page(e) \in VAs
         /\ page(e) # "PFTEMP" /\ page(e) # "XSTACK"
         /\ page(e) \in ReadOnly <=> pc[e].at = "map_shared"
         /\ \A i \in 1 .. Len(UserPages) : UserPages[i] = page(e) => i = pc[e].n
<1>1. pc[e].n <= Len(UserPages) /\ (page(e) \in ReadOnly <=> pc[e].at = "map_shared")
  BY DEF Inv, ForkIsInStep
<1>2. pc[e].n \in Nat /\ 1 <= pc[e].n /\ Len(UserPages) \in Nat
  BY Typed DEF Inv
<1>3. pc[e].n \in 1 .. Len(UserPages)
  BY <1>1, <1>2
<1> QED
  BY <1>1, <1>3, Numbered, SpecialPages DEF page

\* A writable page of an environment in the middle of neither is mapped nowhere else.
LEMMA WritableAlone ==
  ASSUME Inv, NEW e \in Envs, NEW va \in VAs, vm.pt[e][va].perm = "W",
         pc[e].at = "map_original" => va # page(e),
         pc[e].fault # "unmap"
  PROVE  \A d \in Envs, v \in VAs : ~ (d = e /\ v = va) => vm.pt[d][v].frame # vm.pt[e][va].frame
<1>1. \A d \in Envs, v \in VAs :
        vm.pt[d][v].frame = vm.pt[e][va].frame /\ ~ (d = e /\ v = va) =>
          MidDuppage(e, va, d, v) \/ MidFault(e, va, d, v)
  BY DEF Inv, Sharing
<1> QED
  BY <1>1 DEF MidDuppage, MidFault

\* Nobody can write what an environment shares, if it runs and handles no fault.
LEMMA NoOtherWriter ==
  ASSUME Inv, NEW e \in Envs, NEW va \in VAs, Alive(e), pc[e].fault # "unmap"
  PROVE  \A d \in Envs, v \in VAs :
           ~ (d = e /\ v = va) /\ vm.pt[d][v].frame = vm.pt[e][va].frame => vm.pt[d][v].perm # "W"
<1>1. \A d \in Envs, v \in VAs :
        /\ vm.pt[d][v].perm = "W" /\ vm.pt[d][v].frame = vm.pt[e][va].frame /\ ~ (d = e /\ v = va)
        => MidDuppage(d, v, e, va) \/ MidFault(d, v, e, va)
  BY DEF Inv, Sharing
<1> QED
  BY <1>1 DEF MidDuppage, MidFault, Alive

LEMMA Becomes ==
  ASSUME Typing, NEW e \in Envs, NEW r \in Programs, pc' = [pc EXCEPT ![e] = r]
  PROVE  /\ pc' \in [Envs -> Programs] /\ pc'[e] = r
         /\ \A d \in Envs : d # e => pc'[d] = pc[d]
BY DEF Typing

\* A step that leaves the memory keeps what it says of it.
LEMMA SpaceOfSets ==
  ASSUME NEW e \in Envs, NEW va \in VAs, NEW x, Sets(vm, e, va, x, vm')
  PROVE  /\ Exact(vm)' /\ EntrySet(e, va, x)
         /\ \A d \in Envs, v \in VAs : vm'.pt[d][v] = IF d = e /\ v = va THEN x ELSE vm.pt[d][v]
         /\ \A d \in Envs, v \in VAs : vm'.pt[d][v].perm # "none" =>
              vm'.data[vm'.pt[d][v].frame] = vm.data[vm'.pt[d][v].frame]
         /\ \A d \in Envs : d # e => SameSpace(d)
<1>1. Exact(vm)'
  BY DEF Sets, Exact, CountsOf, FreeAre
<1> QED
  BY <1>1 DEF Sets, SameSpace, EntrySet

\* What an environment that runs finds at its pages is what it found before.
SameView(d) ==
  /\ Alive(d)' <=> Alive(d)
  /\ Alive(d) => \A va \in Pages : vm'.data[vm'.pt[d][va].frame] = vm.data[vm.pt[d][va].frame]
SameViews == \A d \in Envs : SameView(d)
\* ... or is what an action of the abstract specification makes of it.
Written(e, va, v) ==
  /\ Alive(e) /\ Alive(e)' /\ \A d \in Envs : d # e => SameView(d)
  /\ \A w \in Pages : vm'.data[vm'.pt[e][w].frame] = IF w = va THEN v ELSE vm.data[vm.pt[e][w].frame]
Forked(e) ==
  \E c \in Envs :
    /\ c # e /\ Alive(e) /\ ~ Alive(c) /\ Alive(c)' /\ \A d \in Envs : d # c => SameView(d)
    /\ \A va \in Pages : vm'.data[vm'.pt[c][va].frame] = vm.data[vm.pt[e][va].frame]
Ended(e) == Alive(e) /\ ~ Alive(e)' /\ \A d \in Envs : d # e => SameView(d)

LEMMA SpaceView ==
  ASSUME NEW d \in Envs, Local(d), SameSpace(d), Alive(d)' <=> Alive(d)
  PROVE  SameView(d)
<1>1. Alive(d) => \A va \in Pages : va \in VAs /\ vm.pt[d][va].perm # "none"
  BY SpecialPages DEF Local, SpaceIsWhole
<1> QED
  BY <1>1 DEF SameView, SameSpace

LEMMA StepViews ==
  ASSUME Inv, NEW e \in Envs, NEW c \in Envs, \A d \in Envs : d # e /\ d # c => Same(d)
  PROVE  /\ \A d \in Envs : d # e /\ d # c => SameView(d)
         /\ SameView(e) /\ SameView(c) => SameViews
<1>1. ASSUME NEW d \in Envs, Same(d) PROVE SameView(d)
  BY <1>1, SpaceView DEF Inv, Same, Alive
<1> QED
  BY <1>1 DEF SameViews

\* A child that waits may be given pages.
LEMMA EmbryoLocal ==
  ASSUME NEW c \in Envs, Local(c), pc[c].at = "embryo", pc'[c].at = "embryo",
         pc'[c].fault = pc[c].fault, vm'.pt[c]["PFTEMP"] = vm.pt[c]["PFTEMP"],
         pc'[c].handler => vm'.pt[c]["XSTACK"].perm = "W"
  PROVE  Local(c)'
<1>1. pc[c].fault = "none" /\ vm'.pt[c]["PFTEMP"] = Unmapped
  BY DEF Local, FaultIsInStep, Alive
<1> QED
  BY <1>1 DEF Local, SpaceIsWhole, FaultIsInStep, FaultIsHandled, Alive, Forking, ForkStages

-----------------------------------------------------------------------------
(* fork, a step at a time.                                                 *)

\* The page is in the child copy-on-write, and in the parent as it was.
LEMMA MapNewKeeps ==
  ASSUME Inv, NEW e \in Envs, MapNew(e)
  PROVE  Inv' /\ SameViews
<1> DEFINE r == [pc[e] EXCEPT !.at = "map_original"]
<1> PICK c : c = child(e)
  OBVIOUS
<1> PICK p : p = page(e)
  OBVIOUS
<1> PICK x : x = [frame |-> vm.pt[e][p].frame, perm |-> "COW"]
  OBVIOUS
<1>1. Typing /\ Local(e) /\ Local(child(e)) /\ ForkIsInStep(e) /\ child(e) \in Envs
  BY Typed DEF Inv, child
<1>2. pc[e].at = "map_new" /\ pc[e].fault = "none" /\ Forking(e) /\ Alive(e)
  BY DEF MapNew, At, Forking, ForkStages, Alive
<1>3. c \in Envs /\ pc[c].at = "embryo" /\ c # e
  BY <1>1, <1>2, OneParent
<1>4. /\ pc[e].n \in 1 .. Len(UserPages) /\ p \in Pages /\ p \in VAs
      /\ p # "PFTEMP" /\ p # "XSTACK" /\ p \notin ReadOnly
      /\ \A i \in 1 .. Len(UserPages) : UserPages[i] = p => i = pc[e].n
  BY <1>2, PageOf
<1>5. vm.pt[e][p].perm \in {"W", "COW"}
  BY <1>1, <1>2, <1>4 DEF Local, SpaceIsWhole
<1>6. Sets(vm, c, p, x, vm')
  BY <1>1, <1>3, <1>4, <1>5, MapSets DEF MapNew, Typing
<1>7. pc[e] \in Programs /\ r \in Programs
  BY <1>1 DEF Typing, Programs, Places
<1>8. pc' = [pc EXCEPT ![e] = r]
  BY DEF MapNew, Goto
<1>9. pc' \in [Envs -> Programs] /\ pc'[e] = r /\ \A d \in Envs : d # e => pc'[d] = pc[d]
  BY <1>1, <1>7, <1>8, Becomes
<1>10. /\ r.at = "map_original" /\ r.child = pc[e].child /\ r.n = pc[e].n /\ r.fault = pc[e].fault
       /\ r.va = pc[e].va /\ r.handler = pc[e].handler
  BY <1>7 DEF Programs
<1>11. x.frame = vm.pt[e][p].frame /\ x.perm = "COW"
  OBVIOUS
<1> HIDE DEF r
<1>12. /\ Exact(vm)' /\ EntrySet(c, p, x)
       /\ \A d \in Envs, v \in VAs : vm'.pt[d][v] = IF d = c /\ v = p THEN x ELSE vm.pt[d][v]
       /\ \A d \in Envs, v \in VAs : vm'.pt[d][v].perm # "none" =>
            vm'.data[vm'.pt[d][v].frame] = vm.data[vm'.pt[d][v].frame]
       /\ \A d \in Envs : d # c => SameSpace(d)
  BY <1>3, <1>4, <1>6, SpaceOfSets
<1>13. Typing'
  BY <1>9, <1>12 DEF Typing
<1>14. \A d \in Envs : d # e /\ d # c => Same(d)
  BY <1>9, <1>12 DEF Same
<1>15. Forking(e)' /\ pc'[c].at = "embryo" /\ pc'[e].child = c /\ ~ Forking(c)'
  BY <1>3, <1>9, <1>10 DEF Forking, ForkStages, child
<1>16. \A d \in Envs : Forking(d) /\ child(d) \in {e, c} => d = e
  BY <1>2, OneParent
<1>17. Local(e)'
  <2>1. pc[e].handler
    BY <1>1, <1>2 DEF Local, SpaceIsWhole
  <2>2. Alive(e)' /\ SameSpace(e)
    BY <1>3, <1>9, <1>10, <1>12 DEF Alive
  <2> QED
    BY <1>1, <1>2, <1>9, <1>10, <2>1, <2>2, LocalKept
<1>18. Local(c)'
  <2>1. /\ pc'[c] = pc[c] /\ Local(c)
        /\ vm'.pt[c]["PFTEMP"] = vm.pt[c]["PFTEMP"] /\ vm'.pt[c]["XSTACK"] = vm.pt[c]["XSTACK"]
    BY <1>1, <1>3, <1>4, <1>9, <1>12, SpecialPages
  <2>2. pc[c].handler => vm.pt[c]["XSTACK"].perm = "W"
    BY <2>1 DEF Local, SpaceIsWhole
  <2> QED
    BY <1>3, <2>1, <2>2, EmbryoLocal
<1>19. ForkIsInStep(e)'
  <2>1. PagesCopied(e)'
    <3> SUFFICES ASSUME NEW i \in 1 .. Len(UserPages), Copied(e, i)'
                 PROVE  /\ vm'.pt[c][UserPages[i]].perm = IF UserPages[i] \in ReadOnly THEN "R" ELSE "COW"
                        /\ vm'.data[vm'.pt[c][UserPages[i]].frame] = vm'.data[vm'.pt[e][UserPages[i]].frame]
      BY <1>9, <1>10 DEF PagesCopied, child
    <3>1. UserPages[i] \in Pages /\ UserPages[i] \in VAs
      BY Numbered, SpecialPages
    <3>2. CASE i = pc[e].n
      <4>1. UserPages[i] = p
        BY <3>2 DEF page
      <4> QED
        BY <1>3, <1>4, <1>11, <1>12, <4>1
    <3>3. CASE i < pc[e].n
      <4>1. UserPages[i] # p
        BY <1>1, <1>4, <3>3, Typed
      <4>2. /\ vm.pt[c][UserPages[i]].perm = IF UserPages[i] \in ReadOnly THEN "R" ELSE "COW"
            /\ vm.data[vm.pt[c][UserPages[i]].frame] = vm.data[vm.pt[e][UserPages[i]].frame]
        BY <1>1, <1>2, <3>3 DEF ForkIsInStep, PagesCopied, Copied
      <4>3. vm'.pt[c][UserPages[i]] = vm.pt[c][UserPages[i]] /\ vm'.pt[e][UserPages[i]] = vm.pt[e][UserPages[i]]
        BY <1>3, <1>12, <3>1, <4>1
      <4>4. vm'.pt[e][UserPages[i]].perm # "none" /\ vm'.pt[c][UserPages[i]].perm # "none"
        BY <1>1, <1>2, <3>1, <4>2, <4>3 DEF Local, SpaceIsWhole
      <4>5. /\ vm'.data[vm'.pt[c][UserPages[i]].frame] = vm.data[vm'.pt[c][UserPages[i]].frame]
            /\ vm'.data[vm'.pt[e][UserPages[i]].frame] = vm.data[vm'.pt[e][UserPages[i]].frame]
        BY <1>3, <1>12, <3>1, <4>4
      <4> QED
        BY <4>2, <4>3, <4>5
    <3> QED
      BY <1>9, <1>10, <3>2, <3>3 DEF Copied
  <2> QED
    BY <1>4, <1>9, <1>10, <2>1 DEF ForkIsInStep, page
<1>20. Sharing'
  <2>1. Sharing
    BY DEF Inv
  <2>2. \A d, d2 \in Envs, v, v2 \in VAs :
          Mid(d, v, d2, v2) /\ ~ (d = c /\ v = p) /\ ~ (d2 = c /\ v2 = p) => Mid(d, v, d2, v2)'
    BY <1>2, <1>9 DEF Mid, MidDuppage, MidFault, page, child
  <2>3. \A d \in Envs, v \in VAs : ~ (d = e /\ v = p) /\ vm.pt[d][v].frame = vm.pt[e][p].frame =>
          vm.pt[d][v].perm # "W"
    BY <1>2, <1>4, NoOtherWriter
  <2>4. Mid(e, p, c, p)'
    BY <1>3, <1>9, <1>10 DEF Mid, MidDuppage, page, child
  <2>5. \A d \in Envs, v \in VAs : ~ (d = c /\ v = p) /\ vm.pt[d][v].frame = x.frame =>
           /\ vm.pt[d][v].perm = "W" => Mid(d, v, c, p)'
           /\ x.perm = "W" => Mid(c, p, d, v)'
    BY <1>11, <2>3, <2>4
  <2> QED
    BY <1>3, <1>4, <1>12, <2>1, <2>2, <2>5, SharingSet
<1>21. SameViews
  <2>1. SameView(e)
    <3>1. SameSpace(e) /\ Alive(e)'
      BY <1>3, <1>9, <1>10, <1>12 DEF Alive
    <3> QED
      BY <1>1, <1>2, <3>1, SpaceView
  <2>2. SameView(c)
    BY <1>3, <1>15 DEF SameView, Alive
  <2> QED
    BY <1>3, <1>14, <2>1, <2>2, StepViews
<1> QED
  BY <1>21, <1>3, <1>13, <1>14, <1>15, <1>16, <1>17, <1>18, <1>19, <1>20, StepKeeps

\* The parent's page becomes copy-on-write too.
LEMMA MapOriginalKeeps ==
  ASSUME Inv, NEW e \in Envs, MapOriginal(e)
  PROVE  Inv' /\ SameViews
<1> DEFINE r == [pc[e] EXCEPT !.at = "duppage", !.n = @ + 1]
<1> PICK c : c = child(e)
  OBVIOUS
<1> PICK p : p = page(e)
  OBVIOUS
<1> PICK x : x = [frame |-> vm.pt[e][p].frame, perm |-> "COW"]
  OBVIOUS
<1>1. Typing /\ Local(e) /\ Local(child(e)) /\ ForkIsInStep(e) /\ child(e) \in Envs
  BY Typed DEF Inv, child
<1>2. pc[e].at = "map_original" /\ pc[e].fault = "none" /\ Forking(e) /\ Alive(e)
  BY DEF MapOriginal, At, Forking, ForkStages, Alive
<1>3. c \in Envs /\ pc[c].at = "embryo" /\ c # e
  BY <1>1, <1>2, OneParent
<1>4. /\ pc[e].n \in 1 .. Len(UserPages) /\ p \in Pages /\ p \in VAs
      /\ p # "PFTEMP" /\ p # "XSTACK" /\ p \notin ReadOnly
  BY <1>2, PageOf
<1>5. vm.pt[e][p].perm \in {"W", "COW"}
  BY <1>1, <1>2, <1>4 DEF Local, SpaceIsWhole
<1>6. Sets(vm, e, p, x, vm')
  BY <1>1, <1>4, <1>5, MapSets DEF MapOriginal, Typing
<1>7. pc[e] \in Programs /\ r \in Programs
  <2>1. pc[e] \in Programs
    BY <1>1 DEF Typing
  <2>2. pc[e].n + 1 \in 1 .. Len(UserPages) + 1
    BY <1>4, Numbered
  <2> QED
    BY <2>1, <2>2 DEF Programs, Places
<1>8. pc' = [pc EXCEPT ![e] = r]
  BY DEF MapOriginal
<1>9. pc' \in [Envs -> Programs] /\ pc'[e] = r /\ \A d \in Envs : d # e => pc'[d] = pc[d]
  BY <1>1, <1>7, <1>8, Becomes
<1>10. /\ r.at = "duppage" /\ r.child = pc[e].child /\ r.n = pc[e].n + 1 /\ r.fault = pc[e].fault
       /\ r.va = pc[e].va /\ r.handler = pc[e].handler
  BY <1>7 DEF Programs
<1>11. x.frame = vm.pt[e][p].frame /\ x.perm = "COW"
  OBVIOUS
<1> HIDE DEF r
<1>12. /\ Exact(vm)' /\ EntrySet(e, p, x)
       /\ \A d \in Envs, v \in VAs : vm'.pt[d][v] = IF d = e /\ v = p THEN x ELSE vm.pt[d][v]
       /\ \A d \in Envs, v \in VAs : vm'.pt[d][v].perm # "none" =>
            vm'.data[vm'.pt[d][v].frame] = vm.data[vm'.pt[d][v].frame]
       /\ \A d \in Envs : d # e => SameSpace(d)
  BY <1>4, <1>6, SpaceOfSets
<1>13. Typing'
  BY <1>9, <1>12 DEF Typing
<1>14. \A d \in Envs : d # e => Same(d)
  BY <1>9, <1>12 DEF Same
<1>15. Forking(e)' /\ pc'[c].at = "embryo" /\ pc'[e].child = c /\ ~ Forking(c)'
  BY <1>3, <1>9, <1>10 DEF Forking, ForkStages, child
<1>16. \A d \in Envs : Forking(d) /\ child(d) \in {e, c} => d = e
  BY <1>2, OneParent
<1>17. Local(e)'
  <2>1. pc[e].handler /\ vm.pt[e]["XSTACK"].perm = "W"
    BY <1>1, <1>2 DEF Local, SpaceIsWhole
  <2>2. vm'.pt[e]["XSTACK"] = vm.pt[e]["XSTACK"] /\ vm'.pt[e]["PFTEMP"] = vm.pt[e]["PFTEMP"]
    BY <1>4, <1>12, SpecialPages
  <2>3. \A va \in Pages : vm'.pt[e][va].perm = IF va = p THEN "COW" ELSE vm.pt[e][va].perm
    BY <1>11, <1>12, SpecialPages
  <2>4. SpaceIsWhole(e)'
    BY <1>1, <1>2, <1>4, <1>9, <1>10, <2>1, <2>2, <2>3 DEF Local, SpaceIsWhole, Alive
  <2>5. FaultIsInStep(e)'
    BY <1>1, <1>2, <1>9, <1>10, <2>2 DEF Local, FaultIsInStep
  <2>6. FaultIsHandled(e)'
    BY <1>9, <1>10, <2>1, <2>2 DEF FaultIsHandled
  <2> QED
    BY <2>4, <2>5, <2>6 DEF Local
<1>18. Local(c)'
  BY <1>1, <1>3, <1>14, LocalKept DEF Same
<1>19. ForkIsInStep(e)'
  <2>1. PagesCopied(e)'
    <3> SUFFICES ASSUME NEW i \in 1 .. Len(UserPages), Copied(e, i)'
                 PROVE  /\ vm'.pt[c][UserPages[i]].perm = IF UserPages[i] \in ReadOnly THEN "R" ELSE "COW"
                        /\ vm'.data[vm'.pt[c][UserPages[i]].frame] = vm'.data[vm'.pt[e][UserPages[i]].frame]
      BY <1>9, <1>10 DEF PagesCopied, child
    <3>1. UserPages[i] \in Pages /\ UserPages[i] \in VAs
      BY Numbered, SpecialPages
    <3>2. Copied(e, i)
      BY <1>2, <1>4, <1>9, <1>10 DEF Copied
    <3>3. /\ vm.pt[c][UserPages[i]].perm = IF UserPages[i] \in ReadOnly THEN "R" ELSE "COW"
          /\ vm.data[vm.pt[c][UserPages[i]].frame] = vm.data[vm.pt[e][UserPages[i]].frame]
      BY <1>1, <1>2, <3>2 DEF ForkIsInStep, PagesCopied
    <3>4. /\ vm'.pt[c][UserPages[i]] = vm.pt[c][UserPages[i]]
          /\ vm'.pt[e][UserPages[i]].frame = vm.pt[e][UserPages[i]].frame
      BY <1>3, <1>11, <1>12, <3>1
    <3>5. vm'.pt[e][UserPages[i]].perm # "none" /\ vm'.pt[c][UserPages[i]].perm # "none"
      BY <1>1, <1>2, <1>11, <1>12, <3>1, <3>3, <3>4 DEF Local, SpaceIsWhole
    <3>6. /\ vm'.data[vm'.pt[c][UserPages[i]].frame] = vm.data[vm'.pt[c][UserPages[i]].frame]
          /\ vm'.data[vm'.pt[e][UserPages[i]].frame] = vm.data[vm'.pt[e][UserPages[i]].frame]
      BY <1>3, <1>12, <3>1, <3>5
    <3> QED
      BY <3>3, <3>4, <3>6
  <2> QED
    BY <1>9, <1>10, <2>1 DEF ForkIsInStep
<1>20. Sharing'
  <2>1. Sharing
    BY DEF Inv
  <2>2. \A d, d2 \in Envs, v, v2 \in VAs :
          Mid(d, v, d2, v2) /\ ~ (d = e /\ v = p) /\ ~ (d2 = e /\ v2 = p) => Mid(d, v, d2, v2)'
    BY <1>2, <1>9, <1>10 DEF Mid, MidDuppage, MidFault, page, child
  <2>3. \A d \in Envs, v \in VAs : ~ (d = e /\ v = p) /\ vm.pt[d][v].frame = vm.pt[e][p].frame =>
          vm.pt[d][v].perm # "W"
    BY <1>2, <1>4, NoOtherWriter
  <2>5. \A d \in Envs, v \in VAs : ~ (d = e /\ v = p) /\ vm.pt[d][v].frame = x.frame =>
           /\ vm.pt[d][v].perm = "W" => Mid(d, v, e, p)'
           /\ x.perm = "W" => Mid(e, p, d, v)'
    BY <1>11, <2>3
  <2> QED
    BY <1>3, <1>4, <1>12, <2>1, <2>2, <2>5, SharingSet
<1>21. SameViews
  <2>1. SameView(e)
    <3>1. Alive(e)'
      BY <1>9, <1>10 DEF Alive
    <3>2. ASSUME NEW va \in Pages
          PROVE  vm'.data[vm'.pt[e][va].frame] = vm.data[vm.pt[e][va].frame]
      <4>1. va \in VAs /\ vm.pt[e][va].perm # "none"
        BY <1>1, <1>2, SpecialPages DEF Local, SpaceIsWhole
      <4>2. vm'.pt[e][va].frame = vm.pt[e][va].frame /\ vm'.pt[e][va].perm # "none"
        BY <1>11, <1>12, <4>1
      <4> QED
        BY <1>12, <4>1, <4>2
    <3> QED
      BY <1>2, <3>1, <3>2 DEF SameView
  <2>2. SameView(c)
    BY <1>3, <1>15 DEF SameView, Alive
  <2> QED
    BY <1>3, <1>14, <2>1, <2>2, StepViews
<1> QED
  BY <1>21, <1>3, <1>13, <1>14, <1>15, <1>16, <1>17, <1>18, <1>19, <1>20, StepKeeps

\* A page the program cannot write is in the child as it is.
LEMMA MapSharedKeeps ==
  ASSUME Inv, NEW e \in Envs, MapShared(e)
  PROVE  Inv' /\ SameViews
<1> DEFINE r == [pc[e] EXCEPT !.at = "duppage", !.n = @ + 1]
<1> PICK c : c = child(e)
  OBVIOUS
<1> PICK p : p = page(e)
  OBVIOUS
<1> PICK x : x = [frame |-> vm.pt[e][p].frame, perm |-> "R"]
  OBVIOUS
<1>1. Typing /\ Local(e) /\ Local(child(e)) /\ ForkIsInStep(e) /\ child(e) \in Envs
  BY Typed DEF Inv, child
<1>2. pc[e].at = "map_shared" /\ pc[e].fault = "none" /\ Forking(e) /\ Alive(e)
  BY DEF MapShared, At, Forking, ForkStages, Alive
<1>3. c \in Envs /\ pc[c].at = "embryo" /\ c # e
  BY <1>1, <1>2, OneParent
<1>4. /\ pc[e].n \in 1 .. Len(UserPages) /\ p \in Pages /\ p \in VAs
      /\ p # "PFTEMP" /\ p # "XSTACK" /\ p \in ReadOnly
      /\ \A i \in 1 .. Len(UserPages) : UserPages[i] = p => i = pc[e].n
  BY <1>2, PageOf
<1>5. vm.pt[e][p].perm = "R"
  BY <1>1, <1>2, <1>4 DEF Local, SpaceIsWhole
<1>6. Sets(vm, c, p, x, vm')
  BY <1>1, <1>3, <1>4, <1>5, MapSets DEF MapShared, Typing
<1>7. pc[e] \in Programs /\ r \in Programs
  <2>1. pc[e] \in Programs
    BY <1>1 DEF Typing
  <2>2. pc[e].n + 1 \in 1 .. Len(UserPages) + 1
    BY <1>4, Numbered
  <2> QED
    BY <2>1, <2>2 DEF Programs, Places
<1>8. pc' = [pc EXCEPT ![e] = r]
  BY DEF MapShared
<1>9. pc' \in [Envs -> Programs] /\ pc'[e] = r /\ \A d \in Envs : d # e => pc'[d] = pc[d]
  BY <1>1, <1>7, <1>8, Becomes
<1>10. /\ r.at = "duppage" /\ r.child = pc[e].child /\ r.n = pc[e].n + 1 /\ r.fault = pc[e].fault
       /\ r.va = pc[e].va /\ r.handler = pc[e].handler
  BY <1>7 DEF Programs
<1>11. x.frame = vm.pt[e][p].frame /\ x.perm = "R"
  OBVIOUS
<1> HIDE DEF r
<1>12. /\ Exact(vm)' /\ EntrySet(c, p, x)
       /\ \A d \in Envs, v \in VAs : vm'.pt[d][v] = IF d = c /\ v = p THEN x ELSE vm.pt[d][v]
       /\ \A d \in Envs, v \in VAs : vm'.pt[d][v].perm # "none" =>
            vm'.data[vm'.pt[d][v].frame] = vm.data[vm'.pt[d][v].frame]
       /\ \A d \in Envs : d # c => SameSpace(d)
  BY <1>3, <1>4, <1>6, SpaceOfSets
<1>13. Typing'
  BY <1>9, <1>12 DEF Typing
<1>14. \A d \in Envs : d # e /\ d # c => Same(d)
  BY <1>9, <1>12 DEF Same
<1>15. Forking(e)' /\ pc'[c].at = "embryo" /\ pc'[e].child = c /\ ~ Forking(c)'
  BY <1>3, <1>9, <1>10 DEF Forking, ForkStages, child
<1>16. \A d \in Envs : Forking(d) /\ child(d) \in {e, c} => d = e
  BY <1>2, OneParent
<1>17. Local(e)'
  <2>1. pc[e].handler
    BY <1>1, <1>2 DEF Local, SpaceIsWhole
  <2>2. Alive(e)' /\ SameSpace(e)
    BY <1>3, <1>9, <1>10, <1>12 DEF Alive
  <2> QED
    BY <1>1, <1>2, <1>9, <1>10, <2>1, <2>2, LocalKept
<1>18. Local(c)'
  <2>1. /\ pc'[c] = pc[c] /\ Local(c)
        /\ vm'.pt[c]["PFTEMP"] = vm.pt[c]["PFTEMP"] /\ vm'.pt[c]["XSTACK"] = vm.pt[c]["XSTACK"]
    BY <1>1, <1>3, <1>4, <1>9, <1>12, SpecialPages
  <2>2. pc[c].handler => vm.pt[c]["XSTACK"].perm = "W"
    BY <2>1 DEF Local, SpaceIsWhole
  <2> QED
    BY <1>3, <2>1, <2>2, EmbryoLocal
<1>19. ForkIsInStep(e)'
  <2>1. PagesCopied(e)'
    <3> SUFFICES ASSUME NEW i \in 1 .. Len(UserPages), Copied(e, i)'
                 PROVE  /\ vm'.pt[c][UserPages[i]].perm = IF UserPages[i] \in ReadOnly THEN "R" ELSE "COW"
                        /\ vm'.data[vm'.pt[c][UserPages[i]].frame] = vm'.data[vm'.pt[e][UserPages[i]].frame]
      BY <1>9, <1>10 DEF PagesCopied, child
    <3>1. UserPages[i] \in Pages /\ UserPages[i] \in VAs
      BY Numbered, SpecialPages
    <3>2. CASE i = pc[e].n
      <4>1. UserPages[i] = p
        BY <3>2 DEF page
      <4> QED
        BY <1>3, <1>4, <1>5, <1>11, <1>12, <4>1
    <3>3. CASE i < pc[e].n
      <4>1. UserPages[i] # p
        BY <1>1, <1>4, <3>3, Typed
      <4>2. /\ vm.pt[c][UserPages[i]].perm = IF UserPages[i] \in ReadOnly THEN "R" ELSE "COW"
            /\ vm.data[vm.pt[c][UserPages[i]].frame] = vm.data[vm.pt[e][UserPages[i]].frame]
        BY <1>1, <1>2, <3>3 DEF ForkIsInStep, PagesCopied, Copied
      <4>3. vm'.pt[c][UserPages[i]] = vm.pt[c][UserPages[i]] /\ vm'.pt[e][UserPages[i]] = vm.pt[e][UserPages[i]]
        BY <1>3, <1>12, <3>1, <4>1
      <4>4. vm'.pt[e][UserPages[i]].perm # "none" /\ vm'.pt[c][UserPages[i]].perm # "none"
        BY <1>1, <1>2, <3>1, <4>2, <4>3 DEF Local, SpaceIsWhole
      <4>5. /\ vm'.data[vm'.pt[c][UserPages[i]].frame] = vm.data[vm'.pt[c][UserPages[i]].frame]
            /\ vm'.data[vm'.pt[e][UserPages[i]].frame] = vm.data[vm'.pt[e][UserPages[i]].frame]
        BY <1>3, <1>12, <3>1, <4>4
      <4> QED
        BY <4>2, <4>3, <4>5
    <3>4. i = pc[e].n \/ i < pc[e].n
      BY <1>4, <1>9, <1>10, Numbered DEF Copied
    <3> QED
      BY <3>2, <3>3, <3>4
  <2> QED
    BY <1>9, <1>10, <2>1 DEF ForkIsInStep
<1>20. Sharing'
  <2>1. Sharing
    BY DEF Inv
  <2>2. \A d, d2 \in Envs, v, v2 \in VAs :
          Mid(d, v, d2, v2) /\ ~ (d = c /\ v = p) /\ ~ (d2 = c /\ v2 = p) => Mid(d, v, d2, v2)'
    BY <1>2, <1>9, <1>10 DEF Mid, MidDuppage, MidFault, page, child
  <2>3. \A d \in Envs, v \in VAs : ~ (d = e /\ v = p) /\ vm.pt[d][v].frame = vm.pt[e][p].frame =>
          vm.pt[d][v].perm # "W"
    BY <1>2, <1>4, NoOtherWriter
  <2>5. \A d \in Envs, v \in VAs : ~ (d = c /\ v = p) /\ vm.pt[d][v].frame = x.frame =>
           /\ vm.pt[d][v].perm = "W" => Mid(d, v, c, p)'
           /\ x.perm = "W" => Mid(c, p, d, v)'
    BY <1>5, <1>11, <2>3
  <2> QED
    BY <1>3, <1>4, <1>12, <2>1, <2>2, <2>5, SharingSet
<1>21. SameViews
  <2>1. SameView(e)
    <3>1. SameSpace(e) /\ Alive(e)'
      BY <1>3, <1>9, <1>10, <1>12 DEF Alive
    <3> QED
      BY <1>1, <1>2, <3>1, SpaceView
  <2>2. SameView(c)
    BY <1>3, <1>15 DEF SameView, Alive
  <2> QED
    BY <1>3, <1>14, <2>1, <2>2, StepViews
<1> QED
  BY <1>21, <1>3, <1>13, <1>14, <1>15, <1>16, <1>17, <1>18, <1>19, <1>20, StepKeeps

\* A page that nobody maps is allocated in the child.
LEMMA ForkXstackKeeps ==
  ASSUME Inv, NEW e \in Envs, At(e, "xstack"), vm.page_free_list # {},
         vm' = sys_page_alloc(vm, child(e), "XSTACK", "W"), Goto(e, "upcall")
  PROVE  Inv' /\ SameViews
<1> DEFINE r == [pc[e] EXCEPT !.at = "upcall"]
<1> PICK c : c = child(e)
  OBVIOUS
<1>1. Typing /\ Local(e) /\ Local(child(e)) /\ ForkIsInStep(e) /\ child(e) \in Envs
  BY Typed DEF Inv, child
<1>2. pc[e].at = "xstack" /\ pc[e].fault = "none" /\ Forking(e) /\ Alive(e)
  BY DEF At, Forking, ForkStages, Alive
<1>3. c \in Envs /\ pc[c].at = "embryo" /\ c # e
  BY <1>1, <1>2, OneParent
<1>4. PICK f \in Frames :
        /\ \A d \in Envs, v \in VAs : vm.pt[d][v].frame # f
        /\ Sets(vm, c, "XSTACK", [frame |-> f, perm |-> "W"], vm')
  BY <1>1, <1>3, AllocSets, SpecialPages DEF Typing
<1> PICK x : x = [frame |-> f, perm |-> "W"]
  OBVIOUS
<1>5. x.frame = f /\ x.perm = "W" /\ Sets(vm, c, "XSTACK", x, vm')
  BY <1>4
<1>7. pc[e] \in Programs /\ r \in Programs
  BY <1>1 DEF Typing, Programs, Places
<1>8. pc' = [pc EXCEPT ![e] = r]
  BY DEF Goto
<1>9. pc' \in [Envs -> Programs] /\ pc'[e] = r /\ \A d \in Envs : d # e => pc'[d] = pc[d]
  BY <1>1, <1>7, <1>8, Becomes
<1>10. /\ r.at = "upcall" /\ r.child = pc[e].child /\ r.n = pc[e].n /\ r.fault = pc[e].fault
       /\ r.va = pc[e].va /\ r.handler = pc[e].handler
  BY <1>7 DEF Programs
<1> HIDE DEF r
<1>12. /\ Exact(vm)' /\ EntrySet(c, "XSTACK", x)
       /\ \A d \in Envs, v \in VAs : vm'.pt[d][v] = IF d = c /\ v = "XSTACK" THEN x ELSE vm.pt[d][v]
       /\ \A d \in Envs, v \in VAs : vm'.pt[d][v].perm # "none" =>
            vm'.data[vm'.pt[d][v].frame] = vm.data[vm'.pt[d][v].frame]
       /\ \A d \in Envs : d # c => SameSpace(d)
  BY <1>3, <1>5, SpaceOfSets, SpecialPages
<1>13. Typing'
  BY <1>9, <1>12 DEF Typing
<1>14. \A d \in Envs : d # e /\ d # c => Same(d)
  BY <1>9, <1>12 DEF Same
<1>15. Forking(e)' /\ pc'[c].at = "embryo" /\ pc'[e].child = c /\ ~ Forking(c)'
  BY <1>3, <1>9, <1>10 DEF Forking, ForkStages, child
<1>16. \A d \in Envs : Forking(d) /\ child(d) \in {e, c} => d = e
  BY <1>2, OneParent
<1>17. Local(e)'
  <2>1. pc[e].handler
    BY <1>1, <1>2 DEF Local, SpaceIsWhole
  <2>2. Alive(e)' /\ SameSpace(e)
    BY <1>3, <1>9, <1>10, <1>12 DEF Alive
  <2> QED
    BY <1>1, <1>2, <1>9, <1>10, <2>1, <2>2, LocalKept
<1>18. Local(c)'
  <2>1. /\ pc'[c] = pc[c] /\ Local(c)
        /\ vm'.pt[c]["PFTEMP"] = vm.pt[c]["PFTEMP"] /\ vm'.pt[c]["XSTACK"].perm = "W"
    BY <1>1, <1>3, <1>5, <1>9, <1>12, SpecialPages
  <2> QED
    BY <1>3, <2>1, EmbryoLocal
<1>19. ForkIsInStep(e)'
  <2>1. PagesCopied(e)'
    <3> SUFFICES ASSUME NEW i \in 1 .. Len(UserPages), Copied(e, i)'
                 PROVE  /\ vm'.pt[c][UserPages[i]].perm = IF UserPages[i] \in ReadOnly THEN "R" ELSE "COW"
                        /\ vm'.data[vm'.pt[c][UserPages[i]].frame] = vm'.data[vm'.pt[e][UserPages[i]].frame]
      BY <1>9, <1>10, ZenonT(40) DEF PagesCopied, child
    <3>1. UserPages[i] \in Pages /\ UserPages[i] \in VAs /\ UserPages[i] # "XSTACK"
      BY Numbered, SpecialPages
    <3>2. Copied(e, i)
      BY <1>2, <1>9, <1>10 DEF Copied
    <3>3. /\ vm.pt[c][UserPages[i]].perm = IF UserPages[i] \in ReadOnly THEN "R" ELSE "COW"
          /\ vm.data[vm.pt[c][UserPages[i]].frame] = vm.data[vm.pt[e][UserPages[i]].frame]
      BY <1>1, <1>2, <3>2 DEF ForkIsInStep, PagesCopied
    <3>4. vm'.pt[c][UserPages[i]] = vm.pt[c][UserPages[i]] /\ vm'.pt[e][UserPages[i]] = vm.pt[e][UserPages[i]]
      BY <1>3, <1>12, <3>1
    <3>5. vm'.pt[e][UserPages[i]].perm # "none" /\ vm'.pt[c][UserPages[i]].perm # "none"
      BY <1>1, <1>2, <3>1, <3>3, <3>4 DEF Local, SpaceIsWhole
    <3>6. /\ vm'.data[vm'.pt[c][UserPages[i]].frame] = vm.data[vm'.pt[c][UserPages[i]].frame]
          /\ vm'.data[vm'.pt[e][UserPages[i]].frame] = vm.data[vm'.pt[e][UserPages[i]].frame]
      BY <1>3, <1>12, <3>1, <3>5
    <3> QED
      BY <3>3, <3>4, <3>6
  <2>2. pc[e].n = Len(UserPages) + 1
    BY <1>1, <1>2 DEF ForkIsInStep
  <2>3. vm'.pt[c]["XSTACK"].perm = "W"
    BY <1>3, <1>5, <1>12, SpecialPages
  <2> QED
    BY <1>9, <1>10, <2>1, <2>2, <2>3 DEF ForkIsInStep, child
<1>20. Sharing'
  <2>1. Sharing
    BY DEF Inv
  <2>2. \A d, d2 \in Envs, v, v2 \in VAs :
          Mid(d, v, d2, v2) /\ ~ (d = c /\ v = "XSTACK") /\ ~ (d2 = c /\ v2 = "XSTACK") => Mid(d, v, d2, v2)'
    BY <1>2, <1>9, <1>10 DEF Mid, MidDuppage, MidFault, page, child
  <2>5. \A d \in Envs, v \in VAs : ~ (d = c /\ v = "XSTACK") /\ vm.pt[d][v].frame = x.frame =>
           /\ vm.pt[d][v].perm = "W" => Mid(d, v, c, "XSTACK")'
           /\ x.perm = "W" => Mid(c, "XSTACK", d, v)'
    BY <1>4, <1>5
  <2> QED
    BY <1>3, <1>12, <2>1, <2>2, <2>5, SharingSet, SpecialPages
<1>21. SameViews
  <2>1. SameView(e)
    <3>1. SameSpace(e) /\ Alive(e)'
      BY <1>3, <1>9, <1>10, <1>12 DEF Alive
    <3> QED
      BY <1>1, <1>2, <3>1, SpaceView
  <2>2. SameView(c)
    BY <1>3, <1>15 DEF SameView, Alive
  <2> QED
    BY <1>3, <1>14, <2>1, <2>2, StepViews
<1> QED
  BY <1>21, <1>3, <1>13, <1>14, <1>15, <1>16, <1>17, <1>18, <1>19, <1>20, StepKeeps

\* A step of the program that changes no memory.
LEMMA UnchangedSpace ==
  ASSUME Typing, UNCHANGED vm
  PROVE  Exact(vm)' /\ \A d \in Envs : SameSpace(d)
BY DEF Typing, Exact, CountsOf, FreeAre, SameSpace

\* The loop of fork looks at the page's entry.
LEMMA DuppageKeeps ==
  ASSUME Inv, NEW e \in Envs, Duppage(e)
  PROVE  Inv' /\ SameViews
<1> DEFINE at == IF pc[e].n > Len(UserPages) THEN "xstack"
                 ELSE IF vm.pt[e][page(e)].perm \in {"W", "COW"} THEN "map_new" ELSE "map_shared"
           r == [pc[e] EXCEPT !.at = at]
<1> PICK c : c = child(e)
  OBVIOUS
<1>1. Typing /\ Local(e) /\ Local(child(e)) /\ ForkIsInStep(e) /\ child(e) \in Envs
  BY Typed DEF Inv, child
<1>2. pc[e].at = "duppage" /\ pc[e].fault = "none" /\ Forking(e) /\ Alive(e)
  BY DEF Duppage, At, Forking, ForkStages, Alive
<1>3. c \in Envs /\ pc[c].at = "embryo" /\ c # e
  BY <1>1, <1>2, OneParent
<1>4. at \in {"xstack", "map_new", "map_shared"}
  OBVIOUS
<1>5. pc' = [pc EXCEPT ![e] = r] /\ UNCHANGED vm
  BY DEF Duppage, Goto
<1>6. /\ at = "xstack" => pc[e].n = Len(UserPages) + 1
      /\ at = "map_new" => pc[e].n <= Len(UserPages) /\ page(e) \notin ReadOnly
      /\ at = "map_shared" => pc[e].n <= Len(UserPages) /\ page(e) \in ReadOnly
  <2>1. pc[e].n \in Nat /\ pc[e].n >= 1 /\ pc[e].n <= Len(UserPages) + 1 /\ Len(UserPages) \in Nat
    BY <1>1, Typed
  <2>2. ASSUME pc[e].n <= Len(UserPages)
        PROVE  vm.pt[e][page(e)].perm \in {"W", "COW"} <=> page(e) \notin ReadOnly
    <3>1. page(e) \in Pages
      BY <2>1, <2>2, Numbered DEF page
    <3> QED
      BY <1>1, <1>2, <3>1 DEF Local, SpaceIsWhole
  <2> QED
    BY <2>1, <2>2
<1> HIDE DEF at
<1>7. pc[e] \in Programs /\ r \in Programs
  BY <1>1, <1>4 DEF Typing, Programs, Places
<1>9. pc' \in [Envs -> Programs] /\ pc'[e] = r /\ \A d \in Envs : d # e => pc'[d] = pc[d]
  BY <1>1, <1>5, <1>7, Becomes
<1>10. /\ r.at = at /\ r.child = pc[e].child /\ r.n = pc[e].n /\ r.fault = pc[e].fault
       /\ r.va = pc[e].va /\ r.handler = pc[e].handler
  BY <1>7 DEF Programs
<1> HIDE DEF r
<1>12. Exact(vm)' /\ \A d \in Envs : SameSpace(d)
  BY <1>1, <1>5, UnchangedSpace
<1>13. Typing'
  BY <1>9, <1>12 DEF Typing
<1>14. \A d \in Envs : d # e => Same(d)
  BY <1>9, <1>12 DEF Same
<1>15. Forking(e)' /\ pc'[c].at = "embryo" /\ pc'[e].child = c /\ ~ Forking(c)'
  BY <1>3, <1>4, <1>9, <1>10 DEF Forking, ForkStages, child
<1>16. \A d \in Envs : Forking(d) /\ child(d) \in {e, c} => d = e
  BY <1>2, OneParent
<1>17. Local(e)'
  <2>1. pc[e].handler
    BY <1>1, <1>2 DEF Local, SpaceIsWhole
  <2>2. Alive(e)'
    BY <1>4, <1>9, <1>10 DEF Alive
  <2> QED
    BY <1>1, <1>2, <1>9, <1>10, <1>12, <2>1, <2>2, LocalKept
<1>18. Local(c)'
  BY <1>1, <1>3, <1>14, LocalKept DEF Same
<1>19. ForkIsInStep(e)'
  <2>1. PagesCopied(e)'
    <3>1. \A i : Copied(e, i)' <=> Copied(e, i)
      BY <1>2, <1>4, <1>9, <1>10 DEF Copied
    <3>2. PagesCopied(e)
      BY <1>1, <1>2 DEF ForkIsInStep
    <3>3. child(e)' = child(e) /\ vm' = vm
      BY <1>5, <1>9, <1>10 DEF child
    <3> QED
      BY <3>1, <3>2, <3>3 DEF PagesCopied
  <2>2. page(e)' = page(e)
    BY <1>9, <1>10 DEF page
  <2> QED
    BY <1>4, <1>6, <1>9, <1>10, <2>1, <2>2 DEF ForkIsInStep
<1>20. Sharing'
  <2>1. Sharing /\ \A d \in Envs, v \in VAs : vm'.pt[d][v] = vm.pt[d][v]
    BY <1>5 DEF Inv
  <2>2. \A d, d2 \in Envs, v, v2 \in VAs : Mid(d, v, d2, v2) => Mid(d, v, d2, v2)'
    BY <1>2, <1>9, <1>10 DEF Mid, MidDuppage, MidFault, page, child
  <2> QED
    BY <2>1, <2>2, SharingKept
<1>21. SameViews
  <2>1. SameView(e)
    <3>1. SameSpace(e) /\ Alive(e)'
      BY <1>3, <1>4, <1>9, <1>10, <1>12 DEF Alive
    <3> QED
      BY <1>1, <1>2, <3>1, SpaceView
  <2>2. SameView(c)
    BY <1>3, <1>15 DEF SameView, Alive
  <2> QED
    BY <1>3, <1>14, <2>1, <2>2, StepViews
<1> QED
  BY <1>21, <1>3, <1>13, <1>14, <1>15, <1>16, <1>17, <1>18, <1>19, <1>20, StepKeeps

\* The environment goes away, and with it the frames that nobody else maps.
LEMMA DestroyedKeeps ==
  ASSUME Inv, NEW e \in Envs, Alive(e), Destroyed(e)
  PROVE  Inv' /\ Ended(e)
<1>1. Typing /\ Local(e)
  BY DEF Inv
<1>2. vm \in Memory /\ CountsOf(vm) /\ FreeAre(vm) /\ vm.pt \in Tables
  BY <1>1 DEF Typing, Exact, Memory, Tables
<1>3. Leaves(vm, Emptied(vm.pt, e), vm')
  BY <1>2, FreeLeaves DEF Destroyed
<1>4. /\ Exact(vm)'
      /\ \A d \in Envs, v \in VAs : vm'.pt[d][v] = IF d = e THEN Unmapped ELSE vm.pt[d][v]
  BY <1>2, <1>3, EmptiedAt DEF Leaves, Exact, CountsOf, FreeAre
<1>5. ASSUME NEW d \in Envs, d # e PROVE SameSpace(d)
  <2> SUFFICES ASSUME NEW v \in VAs
               PROVE  /\ vm'.pt[d][v] = vm.pt[d][v]
                      /\ vm.pt[d][v].perm # "none" =>
                           vm'.data[vm.pt[d][v].frame] = vm.data[vm.pt[d][v].frame]
    BY DEF SameSpace
  <2>1. vm'.pt[d][v] = vm.pt[d][v]
    BY <1>4, <1>5
  <2>2. vm.pt[d][v] \in Entry
    BY <1>1, Typed
  <2>3. ASSUME vm.pt[d][v].perm # "none"
        PROVE  vm'.data[vm.pt[d][v].frame] = vm.data[vm.pt[d][v].frame]
    <3>1. vm.pt[d][v].frame \in Frames
      BY <2>2, <2>3, Entries
    <3>2. vm'.pt = Emptied(vm.pt, e)
      BY <1>3 DEF Leaves
    <3>3. <<d, v>> \in Maps(Emptied(vm.pt, e), vm.pt[d][v].frame)
      BY <2>1, <3>2 DEF Maps
    <3> QED
      BY <1>3, <3>1, <3>3 DEF Leaves
  <2> QED
    BY <2>1, <2>3
<1>6. NotThere \in Programs /\ NotThere.at = "free" /\ NotThere.fault = "none" /\ NotThere.handler = FALSE
  <2>1. 1 \in 1 .. Len(UserPages) + 1
    BY Numbered
  <2> QED
    BY <2>1, JosForkAssumption DEF NotThere, Programs, Places, Stages, Pages
<1>7. pc' \in [Envs -> Programs] /\ pc'[e] = NotThere /\ \A d \in Envs : d # e => pc'[d] = pc[d]
  BY <1>1, <1>6, Becomes DEF Destroyed
<1>8. Typing'
  BY <1>4, <1>7 DEF Typing
<1>9. \A d \in Envs : d # e => Same(d)
  BY <1>5, <1>7 DEF Same
<1>10. \A d \in Envs : Forking(d) /\ child(d) \in {e, e} => d = e
  BY OneParent
<1>11. ~ Forking(e)' /\ ForkIsInStep(e)'
  BY <1>6, <1>7 DEF Forking, ForkStages, ForkIsInStep
<1>12. Local(e)'
  <2>1. \A v \in VAs : vm'.pt[e][v] = Unmapped
    BY <1>4
  <2> QED
    BY <1>6, <1>7, <2>1, SpecialPages
    DEF Local, SpaceIsWhole, FaultIsInStep, FaultIsHandled, Alive, Forking, ForkStages
<1>13. Sharing'
  <2> SUFFICES ASSUME NEW d \in Envs, NEW d2 \in Envs, NEW v \in VAs, NEW v2 \in VAs,
                      vm'.pt[d][v].perm = "W", vm'.pt[d2][v2].frame = vm'.pt[d][v].frame,
                      ~ (d2 = d /\ v2 = v)
               PROVE  (MidDuppage(d, v, d2, v2) \/ MidFault(d, v, d2, v2))'
    BY DEF Sharing
  <2>1. d # e /\ vm'.pt[d][v] = vm.pt[d][v]
    BY <1>4, UnmappedEntry
  <2>2. vm.pt[d][v].frame \in Frames
    BY <1>1, <2>1, Typed
  <2>3. d2 # e /\ vm'.pt[d2][v2] = vm.pt[d2][v2]
    BY <1>4, <2>1, <2>2, UnmappedEntry
  <2>4. MidDuppage(d, v, d2, v2) \/ MidFault(d, v, d2, v2)
    BY <2>1, <2>3 DEF Inv, Sharing
  <2> QED
    BY <1>7, <2>1, <2>3, <2>4 DEF MidDuppage, MidFault, page, child
<1>14. Ended(e)
  <2>1. \A d \in Envs : d # e => SameView(d)
    BY <1>9, StepViews
  <2> QED
    BY <1>6, <1>7, <2>1 DEF Ended, Alive
<1> QED
  BY <1>14, <1>8, <1>9, <1>10, <1>11, <1>12, <1>13, StepKeeps

LEMMA ForkXstackActKeeps ==
  ASSUME Inv, NEW e \in Envs, ForkXstack(e)
  PROVE  Inv' /\ (SameViews \/ Ended(e))
<1>1. Alive(e)
  BY DEF ForkXstack, At, Alive
<1> QED
  BY <1>1, ForkXstackKeeps, DestroyedKeeps DEF ForkXstack

\* The handler is there already, or gets its exception stack.
LEMMA ForkStartKeeps ==
  ASSUME Inv, NEW e \in Envs, ForkStart(e)
  PROVE  Inv' /\ (SameViews \/ Ended(e))
<1>1. Typing /\ Local(e)
  BY DEF Inv
<1>2. pc[e].at = "user" /\ pc[e].fault = "none" /\ ~ Forking(e) /\ Alive(e)
  BY DEF ForkStart, At, Forking, ForkStages, Alive
<1>3. \A d \in Envs : Forking(d) /\ child(d) \in {e, e} => d = e
  BY <1>2, OneParent
<1>4. CASE pc[e].handler /\ Goto(e, "exofork") /\ UNCHANGED vm
  <2> DEFINE r == [pc[e] EXCEPT !.at = "exofork"]
  <2>1. pc[e] \in Programs /\ r \in Programs /\ pc' = [pc EXCEPT ![e] = r]
    BY <1>1, <1>4 DEF Typing, Programs, Places, Goto
  <2>2. pc' \in [Envs -> Programs] /\ pc'[e] = r /\ \A d \in Envs : d # e => pc'[d] = pc[d]
    BY <1>1, <2>1, Becomes
  <2>3. /\ r.at = "exofork" /\ r.child = pc[e].child /\ r.n = pc[e].n /\ r.fault = pc[e].fault
        /\ r.va = pc[e].va /\ r.handler = pc[e].handler
    BY <2>1 DEF Programs
  <2> HIDE DEF r
  <2>4. Exact(vm)' /\ \A d \in Envs : SameSpace(d)
    BY <1>1, <1>4, UnchangedSpace
  <2>5. Typing'
    BY <2>2, <2>4 DEF Typing
  <2>6. \A d \in Envs : d # e => Same(d)
    BY <2>2, <2>4 DEF Same
  <2>7. ~ Forking(e)' /\ ForkIsInStep(e)' /\ Alive(e)'
    BY <2>2, <2>3 DEF Forking, ForkStages, ForkIsInStep, Alive
  <2>8. Local(e)'
    BY <1>1, <1>2, <1>4, <2>2, <2>3, <2>4, <2>7, LocalKept
  <2>9. Sharing'
    <3>1. Sharing /\ \A d \in Envs, v \in VAs : vm'.pt[d][v] = vm.pt[d][v]
      BY <1>4 DEF Inv
    <3>2. \A d, d2 \in Envs, v, v2 \in VAs : Mid(d, v, d2, v2) => Mid(d, v, d2, v2)'
      BY <1>2, <2>2, <2>3 DEF Mid, MidDuppage, MidFault, page, child
    <3> QED
      BY <3>1, <3>2, SharingKept
  <2>10. SameViews
    <3>1. SameView(e)
      BY <1>1, <1>2, <2>4, <2>7, SpaceView
    <3> QED
      BY <2>6, <3>1, StepViews
  <2> QED
    BY <1>3, <2>10, <2>5, <2>6, <2>7, <2>8, <2>9, StepKeeps
<1>5. CASE vm.page_free_list # {} /\ vm' = sys_page_alloc(vm, e, "XSTACK", "W")
           /\ pc' = [pc EXCEPT ![e].at = "exofork", ![e].handler = TRUE]
  <2> DEFINE r == [pc[e] EXCEPT !.at = "exofork", !.handler = TRUE]
  <2>1. pc[e] \in Programs /\ r \in Programs /\ pc' = [pc EXCEPT ![e] = r]
    <3>1. pc[e] \in Programs /\ pc \in [Envs -> Programs]
      BY <1>1 DEF Typing
    <3>2. r \in Programs
      BY <3>1 DEF Programs, Places
    <3>3. pc' = [[pc EXCEPT ![e].at = "exofork"] EXCEPT ![e].handler = TRUE]
      BY <1>5
    <3> DEFINE one == [pc EXCEPT ![e].at = "exofork"]
    <3>4. one[e] = [pc[e] EXCEPT !.at = "exofork"]
      BY <3>1
    <3>5. pc' = [one EXCEPT ![e] = [one[e] EXCEPT !.handler = TRUE]]
      BY <3>3
    <3>6. pc' = [one EXCEPT ![e] = r]
      BY <3>4, <3>5
    <3>7. pc' = [pc EXCEPT ![e] = r]
      <4> HIDE DEF r
      <4> QED
        BY <3>1, <3>6
    <3> QED
      BY <3>1, <3>2, <3>7
  <2>2. pc' \in [Envs -> Programs] /\ pc'[e] = r /\ \A d \in Envs : d # e => pc'[d] = pc[d]
    BY <1>1, <2>1, Becomes
  <2>3. /\ r.at = "exofork" /\ r.child = pc[e].child /\ r.n = pc[e].n /\ r.fault = pc[e].fault
        /\ r.va = pc[e].va /\ r.handler
    BY <2>1 DEF Programs
  <2> HIDE DEF r
  <2>4. PICK f \in Frames :
          /\ \A d \in Envs, v \in VAs : vm.pt[d][v].frame # f
          /\ Sets(vm, e, "XSTACK", [frame |-> f, perm |-> "W"], vm')
    BY <1>1, <1>5, AllocSets, SpecialPages DEF Typing
  <2> PICK x : x = [frame |-> f, perm |-> "W"]
    OBVIOUS
  <2>5. x.frame = f /\ x.perm = "W" /\ Sets(vm, e, "XSTACK", x, vm')
    BY <2>4
  <2>6. /\ Exact(vm)' /\ EntrySet(e, "XSTACK", x)
        /\ \A d \in Envs, v \in VAs : vm'.pt[d][v] = IF d = e /\ v = "XSTACK" THEN x ELSE vm.pt[d][v]
        /\ \A d \in Envs, v \in VAs : vm'.pt[d][v].perm # "none" =>
             vm'.data[vm'.pt[d][v].frame] = vm.data[vm'.pt[d][v].frame]
        /\ \A d \in Envs : d # e => SameSpace(d)
    BY <2>5, SpaceOfSets, SpecialPages
  <2>7. Typing'
    BY <2>2, <2>6 DEF Typing
  <2>8. \A d \in Envs : d # e => Same(d)
    BY <2>2, <2>6 DEF Same
  <2>9. ~ Forking(e)' /\ ForkIsInStep(e)' /\ Alive(e)'
    BY <2>2, <2>3 DEF Forking, ForkStages, ForkIsInStep, Alive
  <2>10. Local(e)'
    <3>1. /\ vm'.pt[e]["XSTACK"].perm = "W" /\ vm'.pt[e]["PFTEMP"] = vm.pt[e]["PFTEMP"]
          /\ \A va \in Pages : vm'.pt[e][va] = vm.pt[e][va]
      BY <2>5, <2>6, SpecialPages
    <3>2. SpaceIsWhole(e)'
      BY <1>1, <1>2, <2>2, <2>3, <3>1 DEF Local, SpaceIsWhole, Alive
    <3>3. FaultIsInStep(e)'
      BY <1>1, <1>2, <2>2, <2>3, <3>1 DEF Local, FaultIsInStep
    <3> QED
      BY <2>2, <2>3, <3>1, <3>2, <3>3 DEF Local, FaultIsHandled
  <2>11. Sharing'
    <3>1. Sharing
      BY DEF Inv
    <3>2. \A d, d2 \in Envs, v, v2 \in VAs :
            Mid(d, v, d2, v2) /\ ~ (d = e /\ v = "XSTACK") /\ ~ (d2 = e /\ v2 = "XSTACK") => Mid(d, v, d2, v2)'
      BY <1>2, <2>2, <2>3 DEF Mid, MidDuppage, MidFault, page, child
    <3>3. \A d \in Envs, v \in VAs : ~ (d = e /\ v = "XSTACK") /\ vm.pt[d][v].frame = x.frame =>
             /\ vm.pt[d][v].perm = "W" => Mid(d, v, e, "XSTACK")'
             /\ x.perm = "W" => Mid(e, "XSTACK", d, v)'
      BY <2>4, <2>5
    <3> QED
      BY <2>6, <3>1, <3>2, <3>3, SharingSet, SpecialPages
  <2>12. SameViews
    <3>1. ASSUME NEW va \in Pages
          PROVE  vm'.data[vm'.pt[e][va].frame] = vm.data[vm.pt[e][va].frame]
      <4>1. va \in VAs /\ vm'.pt[e][va] = vm.pt[e][va] /\ vm.pt[e][va].perm # "none"
        BY <1>1, <1>2, <2>6, SpecialPages DEF Local, SpaceIsWhole
      <4> QED
        BY <2>6, <4>1
    <3>2. SameView(e)
      BY <1>2, <2>9, <3>1 DEF SameView
    <3> QED
      BY <2>8, <3>2, StepViews
  <2> QED
    BY <1>3, <2>12, <2>7, <2>8, <2>9, <2>10, <2>11, StepKeeps
<1> QED
  BY <1>2, <1>4, <1>5, DestroyedKeeps DEF ForkStart

\* A step that changes the programs of a parent and a child, and no memory.
LEMMA BothBecome ==
  ASSUME Typing, NEW e \in Envs, NEW c \in Envs, c # e, NEW r \in Programs, NEW s \in Programs,
         pc' = [pc EXCEPT ![e] = r, ![c] = s], UNCHANGED vm
  PROVE  /\ Typing' /\ pc'[e] = r /\ pc'[c] = s
         /\ \A d \in Envs : SameSpace(d) /\ (d # e /\ d # c => pc'[d] = pc[d] /\ Same(d))
<1>1. pc \in [Envs -> Programs]
  BY DEF Typing
<1>2. /\ pc' \in [Envs -> Programs] /\ pc'[e] = r /\ pc'[c] = s
      /\ \A d \in Envs : d # e /\ d # c => pc'[d] = pc[d]
  BY <1>1
<1>3. Exact(vm)' /\ \A d \in Envs : SameSpace(d)
  BY UnchangedSpace
<1> QED
  BY <1>2, <1>3 DEF Typing, Same

LEMMA ExoforkKeeps ==
  ASSUME Inv, NEW e \in Envs, Exofork(e)
  PROVE  Inv' /\ (SameViews \/ Ended(e))
<1>1. Typing /\ Local(e) /\ \A d \in Envs : Local(d)
  BY DEF Inv
<1>2. pc[e].at = "exofork" /\ pc[e].fault = "none" /\ ~ Forking(e) /\ Alive(e)
  BY DEF Exofork, At, Forking, ForkStages, Alive
<1>3. ASSUME NEW c \in Envs, pc[c].at = "free", UNCHANGED vm,
             pc' = [pc EXCEPT ![c].at = "embryo", ![e].at = "duppage", ![e].child = c, ![e].n = 1]
      PROVE  Inv' /\ (SameViews \/ Ended(e))
  <2> DEFINE r == [pc[e] EXCEPT !.at = "duppage", !.child = c, !.n = 1]
             s == [pc[c] EXCEPT !.at = "embryo"]
  <2>1. c # e
    BY <1>2, <1>3
  <2>2. pc \in [Envs -> Programs] /\ pc[e] \in Programs /\ pc[c] \in Programs
    BY <1>1 DEF Typing
  <2>3. r \in Programs /\ s \in Programs
    <3>1. 1 \in 1 .. Len(UserPages) + 1
      BY Numbered
    <3> QED
      BY <2>2, <3>1 DEF Programs, Places
  <2>4. pc' = [pc EXCEPT ![e] = r, ![c] = s]
    <3> DEFINE zero == [pc EXCEPT ![c] = s]
               one == [zero EXCEPT ![e].at = "duppage"]
               two == [one EXCEPT ![e].child = c]
    <3>1. pc' = [two EXCEPT ![e].n = 1]
      BY <1>3
    <3>2. zero[e] = pc[e] /\ zero \in [Envs -> Programs]
      <4> HIDE DEF s
      <4> QED
        BY <2>1, <2>2, <2>3
    <3>3. one[e] = [pc[e] EXCEPT !.at = "duppage"]
      BY <3>2
    <3>4. two = [zero EXCEPT ![e] = [pc[e] EXCEPT !.at = "duppage", !.child = c]]
      BY <3>2, <3>3
    <3>5. two[e] = [pc[e] EXCEPT !.at = "duppage", !.child = c]
      BY <3>2, <3>4
    <3>6. pc' = [two EXCEPT ![e] = r]
      BY <3>1, <3>5
    <3>7. pc' = [zero EXCEPT ![e] = r]
      <4> HIDE DEF zero
      <4> QED
        BY <3>2, <3>4, <3>6
    <3> HIDE DEF r, s
    <3> QED
      BY <2>1, <2>2, <3>7
  <2>5. /\ r.at = "duppage" /\ r.child = c /\ r.n = 1 /\ r.fault = pc[e].fault
        /\ r.va = pc[e].va /\ r.handler = pc[e].handler
        /\ s.at = "embryo" /\ s.fault = pc[c].fault /\ s.handler = pc[c].handler
    BY <2>2 DEF Programs
  <2> HIDE DEF r, s
  <2>6. /\ Typing' /\ pc'[e] = r /\ pc'[c] = s
        /\ \A d \in Envs : SameSpace(d) /\ (d # e /\ d # c => pc'[d] = pc[d] /\ Same(d))
    BY <1>1, <1>3, <2>1, <2>3, <2>4, BothBecome
  <2>7. Forking(e)' /\ pc'[c].at = "embryo" /\ pc'[e].child = c /\ ~ Forking(c)' /\ Alive(e)'
    BY <2>5, <2>6 DEF Forking, ForkStages, Alive
  <2>8. \A d \in Envs : Forking(d) /\ child(d) \in {e, c} => d = e
    BY <1>2, <1>3 DEF Inv, ChildrenWait, Alive
  <2>9. Local(e)'
    <3>1. pc[e].handler
      BY <1>1, <1>2 DEF Local, SpaceIsWhole
    <3> QED
      BY <1>1, <1>2, <2>5, <2>6, <2>7, <3>1, LocalKept
  <2>10. Local(c)'
    <3>1. \A v \in VAs : vm'.pt[c][v] = Unmapped
      BY <1>1, <1>3 DEF Local, SpaceIsWhole
    <3>2. pc[c].fault = "none"
      BY <1>1, <1>3 DEF Local, FaultIsInStep, Alive
    <3>3. ~ pc[c].handler
      BY <1>1, <1>3, SpecialPages, UnmappedEntry DEF Local, SpaceIsWhole
    <3> QED
      BY <2>5, <2>6, <3>1, <3>2, <3>3, SpecialPages
      DEF Local, SpaceIsWhole, FaultIsInStep, FaultIsHandled, Alive, Forking, ForkStages
  <2>11. ForkIsInStep(e)'
    <3>1. \A i \in 1 .. Len(UserPages) : ~ Copied(e, i)'
      BY <2>5, <2>6, Numbered DEF Copied
    <3> QED
      BY <2>5, <2>6, <3>1 DEF ForkIsInStep, PagesCopied
  <2>12. Sharing'
    <3>1. Sharing /\ \A d \in Envs, v \in VAs : vm'.pt[d][v] = vm.pt[d][v]
      BY <1>3 DEF Inv
    <3>2. \A d, d2 \in Envs, v, v2 \in VAs : Mid(d, v, d2, v2) => Mid(d, v, d2, v2)'
      <4>1. pc[c].fault = "none"
        BY <1>1, <1>3 DEF Local, FaultIsInStep, Alive
      <4>2. \A d \in Envs : pc[d].at = "map_original" \/ pc[d].fault = "unmap" => pc'[d] = pc[d]
        BY <1>2, <1>3, <2>6, <4>1
      <4>3. \A d \in Envs : pc[d].at = "embryo" => pc'[d].at = "embryo"
        BY <1>2, <1>3, <2>6
      <4> QED
        BY <4>2, <4>3 DEF Mid, MidDuppage, MidFault, page, child
    <3> QED
      BY <3>1, <3>2, SharingKept
  <2>13. SameViews
    <3>1. SameView(e)
      BY <1>1, <1>2, <2>6, <2>7, SpaceView
    <3>2. SameView(c)
      BY <1>3, <2>7 DEF SameView, Alive
    <3> QED
      BY <2>6, <3>1, <3>2, StepViews
  <2> QED
    BY <2>13, <2>1, <2>6, <2>7, <2>8, <2>9, <2>10, <2>11, <2>12, StepKeeps
<1> QED
  BY <1>2, <1>3, DestroyedKeeps DEF Exofork

LEMMA ForkUpcallKeeps ==
  ASSUME Inv, NEW e \in Envs, ForkUpcall(e)
  PROVE  Inv' /\ SameViews
<1> PICK c : c = child(e)
  OBVIOUS
<1> DEFINE r == [pc[e] EXCEPT !.at = "runnable"]
           s == [pc[c] EXCEPT !.handler = TRUE]
<1>1. Typing /\ Local(e) /\ Local(child(e)) /\ ForkIsInStep(e) /\ child(e) \in Envs
  BY Typed DEF Inv, child
<1>2. pc[e].at = "upcall" /\ pc[e].fault = "none" /\ Forking(e) /\ Alive(e)
  BY DEF ForkUpcall, At, Forking, ForkStages, Alive
<1>3. c \in Envs /\ pc[c].at = "embryo" /\ c # e
  BY <1>1, <1>2, OneParent
<1>4. pc \in [Envs -> Programs] /\ pc[e] \in Programs /\ pc[c] \in Programs
  BY <1>1 DEF Typing
<1>5. r \in Programs /\ s \in Programs
  <2>1. r \in Programs
    BY <1>4 DEF Programs, Places
  <2>2. s \in Programs
    BY <1>4 DEF Programs
  <2> QED
    BY <2>1, <2>2
<1>6. pc' = [pc EXCEPT ![e] = r, ![c] = s]
  <2> DEFINE one == [pc EXCEPT ![e] = r]
  <2>1. pc' = [one EXCEPT ![c].handler = TRUE]
    BY DEF ForkUpcall
  <2>2. one[c] = pc[c]
    <3> HIDE DEF r
    <3> QED
      BY <1>3, <1>4
  <2> QED
    BY <2>1, <2>2
<1>7. /\ r.at = "runnable" /\ r.child = pc[e].child /\ r.n = pc[e].n /\ r.fault = pc[e].fault
      /\ r.va = pc[e].va /\ r.handler = pc[e].handler
  BY <1>4 DEF Programs
<1>8. s.at = pc[c].at /\ s.fault = pc[c].fault /\ s.handler
  BY <1>4 DEF Programs
<1>9. UNCHANGED vm /\ Typing /\ c \in Envs /\ c # e
  BY <1>1, <1>3 DEF ForkUpcall
<1> HIDE DEF r, s
<1>10. /\ Typing' /\ pc'[e] = r /\ pc'[c] = s
       /\ \A d \in Envs : SameSpace(d) /\ (d # e /\ d # c => pc'[d] = pc[d] /\ Same(d))
  BY ONLY <1>5, <1>6, <1>9, BothBecome
<1>11. /\ Forking(e)' /\ pc'[c].at = "embryo" /\ pc'[e].child = c /\ ~ Forking(c)' /\ Alive(e)'
  BY <1>3, <1>7, <1>8, <1>10 DEF Forking, ForkStages, Alive, child
<1>12. \A d \in Envs : Forking(d) /\ child(d) \in {e, c} => d = e
  BY <1>2, OneParent
<1>13. Local(e)'
  <2>1. pc[e].handler
    BY <1>1, <1>2 DEF Local, SpaceIsWhole
  <2> QED
    BY <1>1, <1>2, <1>7, <1>10, <1>11, <2>1, LocalKept
<1>14. vm.pt[c]["XSTACK"].perm = "W"
  BY <1>1, <1>2 DEF ForkIsInStep
<1>15. Local(c)'
  BY <1>1, <1>3, <1>8, <1>9, <1>10, <1>14, EmbryoLocal
<1>16. ForkIsInStep(e)'
  <2>1. PagesCopied(e)'
    <3>1. \A i : Copied(e, i)' <=> Copied(e, i)
      BY <1>2, <1>7, <1>10 DEF Copied
    <3>2. PagesCopied(e)
      BY <1>1, <1>2 DEF ForkIsInStep
    <3>3. child(e)' = child(e) /\ vm' = vm
      BY <1>7, <1>9, <1>10 DEF child
    <3> QED
      BY <3>1, <3>2, <3>3 DEF PagesCopied
  <2>2. pc[e].n = Len(UserPages) + 1
    BY <1>1, <1>2 DEF ForkIsInStep
  <2>3. pc'[c].handler /\ vm'.pt[c]["XSTACK"].perm = "W" /\ child(e)' = c
    BY <1>7, <1>8, <1>9, <1>10, <1>14 DEF child
  <2> QED
    BY <1>7, <1>10, <2>1, <2>2, <2>3 DEF ForkIsInStep
<1>17. Sharing'
  <2>1. Sharing /\ \A d \in Envs, v \in VAs : vm'.pt[d][v] = vm.pt[d][v]
    BY <1>9 DEF Inv
  <2>2. pc[c].fault = "none"
    BY <1>1, <1>3 DEF Local, FaultIsInStep, Alive
  <2>3. \A d, d2 \in Envs, v, v2 \in VAs : Mid(d, v, d2, v2) => Mid(d, v, d2, v2)'
    BY <1>2, <1>3, <1>7, <1>8, <1>10, <2>2 DEF Mid, MidDuppage, MidFault, page, child
  <2> QED
    BY <2>1, <2>3, SharingKept
<1>18. SameViews
  <2>1. SameView(e)
    BY <1>1, <1>2, <1>10, <1>11, SpaceView
  <2>2. SameView(c)
    BY <1>3, <1>11 DEF SameView, Alive
  <2> QED
    BY <1>3, <1>10, <2>1, <2>2, StepViews
<1> QED
  BY <1>18, <1>3, <1>10, <1>11, <1>12, <1>13, <1>15, <1>16, <1>17, StepKeeps

\* The child runs: every page of it is there, and so are its handler and exception stack.
LEMMA ForkReturnKeeps ==
  ASSUME Inv, NEW e \in Envs, ForkReturn(e)
  PROVE  Inv' /\ Forked(e)
<1> PICK c : c = child(e)
  OBVIOUS
<1> DEFINE r == [pc[e] EXCEPT !.at = "user", !.n = 1, !.child = First]
           s == [pc[c] EXCEPT !.at = "user"]
<1>1. Typing /\ Local(e) /\ Local(child(e)) /\ ForkIsInStep(e) /\ child(e) \in Envs
  BY Typed DEF Inv, child
<1>2. pc[e].at = "runnable" /\ pc[e].fault = "none" /\ Forking(e) /\ Alive(e)
  BY DEF ForkReturn, At, Forking, ForkStages, Alive
<1>3. c \in Envs /\ pc[c].at = "embryo" /\ c # e
  BY <1>1, <1>2, OneParent
<1>4. pc \in [Envs -> Programs] /\ pc[e] \in Programs /\ pc[c] \in Programs
  BY <1>1 DEF Typing
<1>5. r \in Programs /\ s \in Programs
  <2>1. 1 \in 1 .. Len(UserPages) + 1 /\ First \in Envs
    BY Numbered, JosForkAssumption
  <2> QED
    BY <1>4, <2>1 DEF Programs, Places
<1>6. pc' = [pc EXCEPT ![e] = r, ![c] = s]
  <2> DEFINE one == [pc EXCEPT ![e].at = "user"]
             two == [one EXCEPT ![e].n = 1]
             three == [two EXCEPT ![e].child = First]
  <2>1. pc' = [three EXCEPT ![c].at = "user"]
    BY DEF ForkReturn
  <2>2. one = [pc EXCEPT ![e] = [pc[e] EXCEPT !.at = "user"]]
    OBVIOUS
  <2>3. two = [pc EXCEPT ![e] = [pc[e] EXCEPT !.at = "user", !.n = 1]]
    BY <1>4, <2>2
  <2>4. three = [pc EXCEPT ![e] = r]
    BY <1>4, <2>3
  <2> HIDE DEF three
  <2>5. three[c] = pc[c]
    <3> HIDE DEF r
    <3> QED
      BY <1>3, <1>4, <2>4
  <2>6. pc' = [three EXCEPT ![c] = s]
    BY <2>1, <2>5
  <2> HIDE DEF r, s
  <2> QED
    BY <2>4, <2>6
<1>7. /\ r.at = "user" /\ r.fault = pc[e].fault
      /\ r.va = pc[e].va /\ r.handler = pc[e].handler
  BY <1>4 DEF Programs
<1>8. s.at = "user" /\ s.fault = pc[c].fault /\ s.handler = pc[c].handler
  BY <1>4 DEF Programs
<1>9. UNCHANGED vm /\ Typing /\ c \in Envs /\ c # e
  BY <1>1, <1>3 DEF ForkReturn
<1> HIDE DEF r, s
<1>10. /\ Typing' /\ pc'[e] = r /\ pc'[c] = s
       /\ \A d \in Envs : SameSpace(d) /\ (d # e /\ d # c => pc'[d] = pc[d] /\ Same(d))
  BY ONLY <1>5, <1>6, <1>9, BothBecome
<1>11. ~ Forking(e)' /\ ~ Forking(c)' /\ Alive(e)'
  BY <1>7, <1>8, <1>10 DEF Forking, ForkStages, Alive
<1>12. \A d \in Envs : Forking(d) /\ child(d) \in {e, c} => d = e
  BY <1>2, OneParent
<1>13. Local(e)'
  BY <1>1, <1>2, <1>7, <1>10, <1>11, LocalKept DEF ForkStages
<1>14. ASSUME NEW va \in Pages
       PROVE  /\ vm.pt[c][va].perm = IF va \in ReadOnly THEN "R" ELSE "COW"
              /\ vm.data[vm.pt[c][va].frame] = vm.data[vm.pt[e][va].frame]
  <2>1. PICK i \in 1 .. Len(UserPages) : UserPages[i] = va
    BY Numbered
  <2>2. Copied(e, i)
    BY <1>1, <1>2, Numbered DEF ForkIsInStep, Copied
  <2> QED
    BY <1>1, <1>2, <2>1, <2>2 DEF ForkIsInStep, PagesCopied
<1>15. Local(c)'
  <2>1. pc[c].handler /\ vm.pt[c]["XSTACK"].perm = "W"
    BY <1>1, <1>2 DEF ForkIsInStep
  <2>2. pc[c].fault = "none" /\ vm.pt[c]["PFTEMP"] = Unmapped
    BY <1>1, <1>3 DEF Local, FaultIsInStep, Alive
  <2> QED
    BY <1>8, <1>9, <1>10, <1>14, <2>1, <2>2
    DEF Local, SpaceIsWhole, FaultIsInStep, FaultIsHandled, Forking, ForkStages
<1>16. ForkIsInStep(e)'
  BY <1>7, <1>10, <1>11 DEF ForkIsInStep
<1>17. Sharing'
  <2>1. Sharing /\ \A d \in Envs, v \in VAs : vm'.pt[d][v] = vm.pt[d][v]
    BY <1>9 DEF Inv
  <2>2. pc[c].fault = "none"
    BY <1>1, <1>3 DEF Local, FaultIsInStep, Alive
  <2>3. \A d \in Envs : pc[d].at = "map_original" => child(d) # c /\ d # e /\ d # c
    BY <1>2, <1>3, OneParent DEF Forking, ForkStages
  <2>4. \A d, d2 \in Envs, v, v2 \in VAs : Mid(d, v, d2, v2) => Mid(d, v, d2, v2)'
    BY <1>2, <1>3, <1>7, <1>8, <1>10, <2>2, <2>3 DEF Mid, MidDuppage, MidFault, page, child
  <2> QED
    BY <2>1, <2>4, SharingKept
<1>18. Forked(e)
  <2>1. SameView(e)
    BY <1>1, <1>2, <1>10, <1>11, SpaceView
  <2>2. \A d \in Envs : d # c => SameView(d)
    BY <1>3, <1>10, <2>1, StepViews
  <2>3. c # e /\ ~ Alive(c) /\ Alive(c)'
    BY <1>3, <1>8, <1>10 DEF Alive
  <2> QED
    BY <1>2, <1>3, <1>9, <1>14, <2>2, <2>3 DEF Forked
<1> QED
  BY <1>18, <1>3, <1>10, <1>11, <1>12, <1>13, <1>15, <1>16, <1>17, StepKeeps

-----------------------------------------------------------------------------
(* Writes and page faults.                                                 *)

\* A step of one environment that leaves its fork where it is.
LEMMA OwnStepKeeps ==
  ASSUME Inv, NEW e \in Envs, Alive(e), Typing', Sharing', Local(e)',
         \A d \in Envs : d # e => Same(d),
         pc'[e].at = pc[e].at, pc'[e].n = pc[e].n, pc'[e].child = pc[e].child,
         \A va \in Pages : vm.pt[e][va].perm # "none" =>
           vm'.data[vm'.pt[e][va].frame] = vm.data[vm.pt[e][va].frame]
  PROVE  Inv' /\ SameViews
<1>1. Typing /\ (\A d \in Envs : Local(d) /\ ForkIsInStep(d)) /\ child(e) \in Envs
  BY Typed DEF Inv, child
<1>2. Forking(e) => child(e) # e
  BY OneParent
<1>3. ForkIsInStep(e)'
  BY <1>1, <1>2, ForkKept
<1>4. Forking(e)' <=> Forking(e)
  BY DEF Forking
<1>5. SameViews
  <2>1. SameView(e)
    BY <1>1 DEF SameView, Alive, Local, SpaceIsWhole
  <2> QED
    BY <2>1, StepViews
<1>6. CASE Forking(e)
  <2> PICK c \in Envs : c = child(e)
    BY <1>1
  <2>1. c # e /\ pc[c].at = "embryo" /\ pc'[e].child = c /\ Same(c)
    BY <1>2, <1>6, OneParent DEF child
  <2>2. pc'[c].at = "embryo" /\ ~ Forking(c)'
    BY <2>1 DEF Same, Forking, ForkStages
  <2>3. Local(c)'
    BY <1>1, <2>1, LocalKept DEF Same
  <2>4. \A d \in Envs : Forking(d) /\ child(d) \in {e, c} => d = e
    BY <1>6, OneParent
  <2> QED
    BY <1>3, <1>5, <2>1, <2>2, <2>3, <2>4, StepKeeps
<1>7. CASE ~ Forking(e)
  <2>1. \A d \in Envs : Forking(d) /\ child(d) \in {e, e} => d = e
    BY OneParent
  <2> QED
    BY <1>3, <1>4, <1>5, <1>7, <2>1, StepKeeps
<1> QED
  BY <1>6, <1>7

\* The contents of a frame change, and what is mapped elsewhere does not.
LEMMA StoreSpace ==
  ASSUME Typing, NEW f \in Frames, NEW v \in Values, vm' = [vm EXCEPT !.data[f] = v]
  PROVE  /\ Exact(vm)' /\ vm'.pt = vm.pt /\ vm'.data[f] = v
         /\ \A g \in Frames : g # f => vm'.data[g] = vm.data[g]
<1> DEFINE d == [vm.data EXCEPT ![f] = v]
<1>1. vm \in Memory /\ CountsOf(vm) /\ FreeAre(vm)
  BY DEF Typing, Exact
<1>2. vm' = [pt |-> vm.pt, pp_ref |-> vm.pp_ref, page_free_list |-> vm.page_free_list, data |-> d]
  BY <1>1 DEF Memory
<1>3. d \in [Frames -> Values] /\ d[f] = v /\ \A g \in Frames : g # f => d[g] = vm.data[g]
  BY <1>1 DEF Memory
<1> HIDE DEF d
<1>4. vm' \in Memory
  BY <1>1, <1>2, <1>3 DEF Memory
<1>5. CountsOf(vm') /\ FreeAre(vm')
  BY <1>1, <1>2 DEF CountsOf, FreeAre
<1> QED
  BY <1>2, <1>3, <1>4, <1>5 DEF Exact, CountsOf, FreeAre

LEMMA WriteKeeps ==
  ASSUME Inv, NEW e \in Envs, NEW va \in Pages, NEW v \in Values, Write(e, va, v)
  PROVE  Inv' /\ Written(e, va, v)
<1>1. Typing /\ Local(e)
  BY DEF Inv
<1>2. /\ pc[e].at = "user" /\ pc[e].fault = "none" /\ Alive(e) /\ vm.pt[e][va].perm = "W"
      /\ va \in VAs /\ pc' = pc
  BY SpecialPages DEF Write, Alive
<1> PICK f : f = vm.pt[e][va].frame
  OBVIOUS
<1>3. f \in Frames
  BY <1>1, <1>2, Typed
<1>4. vm' = [vm EXCEPT !.data[f] = v]
  BY DEF Write
<1>5. /\ Exact(vm)' /\ vm'.pt = vm.pt /\ vm'.data[f] = v
      /\ \A g \in Frames : g # f => vm'.data[g] = vm.data[g]
  BY <1>1, <1>3, <1>4, StoreSpace
<1>6. \A d \in Envs, w \in VAs : ~ (d = e /\ w = va) => vm.pt[d][w].frame # f
  BY <1>2, WritableAlone
<1>7. \A d \in Envs, w \in VAs : vm.pt[d][w].perm # "none" => vm.pt[d][w].frame \in Frames
  BY <1>1, Typed
<1>8. \A d \in Envs : d # e => Same(d)
  BY <1>2, <1>5, <1>6, <1>7 DEF Same, SameSpace
<1>9. Typing'
  BY <1>1, <1>2, <1>5 DEF Typing
<1>10. Local(e)'
  BY <1>1, <1>2, <1>5 DEF Local, SpaceIsWhole, FaultIsInStep, FaultIsHandled, Alive, Forking
<1>11. Sharing'
  BY <1>2, <1>5 DEF Inv, Sharing, MidDuppage, MidFault, page, child
<1>12. ~ Forking(e) /\ ~ Forking(e)'
  BY <1>2 DEF Forking, ForkStages
<1>13. ForkIsInStep(e)'
  BY <1>2, <1>12 DEF ForkIsInStep
<1>14. \A d \in Envs : Forking(d) /\ child(d) \in {e, e} => d = e
  BY <1>2, OneParent
<1>15. Written(e, va, v)
  <2>1. \A d \in Envs : d # e => SameView(d)
    BY <1>8, StepViews
  <2>2. \A w \in Pages : vm'.data[vm'.pt[e][w].frame] = IF w = va THEN v ELSE vm.data[vm.pt[e][w].frame]
    <3>1. \A w \in Pages : w \in VAs /\ vm.pt[e][w].perm # "none"
      BY <1>1, <1>2, SpecialPages DEF Local, SpaceIsWhole
    <3> QED
      BY <1>5, <1>6, <1>7, <3>1
  <2> QED
    BY <1>2, <2>1, <2>2 DEF Written, Alive
<1> QED
  BY <1>15, <1>8, <1>9, <1>10, <1>11, <1>12, <1>13, <1>14, StepKeeps

\* The programs, when a fault of e goes on.
LEMMA FaultGoes ==
  ASSUME Typing, NEW e \in Envs, NEW fault \in Stages, pc' = [pc EXCEPT ![e].fault = fault]
  PROVE  /\ pc' \in [Envs -> Programs] /\ \A d \in Envs : d # e => pc'[d] = pc[d]
         /\ pc'[e].fault = fault /\ pc'[e].at = pc[e].at /\ pc'[e].n = pc[e].n
         /\ pc'[e].child = pc[e].child /\ pc'[e].va = pc[e].va /\ pc'[e].handler = pc[e].handler
<1> DEFINE r == [pc[e] EXCEPT !.fault = fault]
<1>1. pc[e] \in Programs
  BY DEF Typing
<1>2. r \in Programs
  BY <1>1 DEF Programs
<1>3. /\ r.fault = fault /\ r.at = pc[e].at /\ r.n = pc[e].n
      /\ r.child = pc[e].child /\ r.va = pc[e].va /\ r.handler = pc[e].handler
  BY <1>1 DEF Programs
<1>4. pc' = [pc EXCEPT ![e] = r]
  OBVIOUS
<1> HIDE DEF r
<1>5. pc' \in [Envs -> Programs] /\ pc'[e] = r /\ \A d \in Envs : d # e => pc'[d] = pc[d]
  BY <1>2, <1>4, Becomes
<1> QED
  BY <1>3, <1>5

\* ... and when it starts or ends.
LEMMA FaultTurns ==
  ASSUME Typing, NEW e \in Envs, NEW fault \in Stages, NEW va \in Pages,
         pc' = [pc EXCEPT ![e].fault = fault, ![e].va = va]
  PROVE  /\ pc' \in [Envs -> Programs] /\ \A d \in Envs : d # e => pc'[d] = pc[d]
         /\ pc'[e].fault = fault /\ pc'[e].at = pc[e].at /\ pc'[e].n = pc[e].n
         /\ pc'[e].child = pc[e].child /\ pc'[e].va = va /\ pc'[e].handler = pc[e].handler
<1> DEFINE r == [pc[e] EXCEPT !.fault = fault, !.va = va]
<1>1. pc[e] \in Programs /\ pc \in [Envs -> Programs]
  BY DEF Typing
<1>2. r \in Programs
  BY <1>1 DEF Programs
<1>3. /\ r.fault = fault /\ r.at = pc[e].at /\ r.n = pc[e].n
      /\ r.child = pc[e].child /\ r.va = va /\ r.handler = pc[e].handler
  BY <1>1 DEF Programs
<1>4. pc' = [pc EXCEPT ![e] = r]
  BY <1>1
<1> HIDE DEF r
<1>5. pc' \in [Envs -> Programs] /\ pc'[e] = r /\ \A d \in Envs : d # e => pc'[d] = pc[d]
  BY <1>2, <1>4, Becomes
<1> QED
  BY <1>3, <1>5

LEMMA FaultKeeps ==
  ASSUME Inv, NEW e \in Envs, NEW va \in Pages, Fault(e, va)
  PROVE  Inv' /\ (SameViews \/ Ended(e))
<1>1. Typing /\ Local(e)
  BY DEF Inv
<1>2. Alive(e) /\ pc[e].fault = "none" /\ vm.pt[e][va].perm = "COW"
  BY <1>1 DEF Fault, Local, SpaceIsWhole
<1>3. ASSUME pc' = [pc EXCEPT ![e].fault = "alloc", ![e].va = va], UNCHANGED vm
      PROVE  Inv' /\ (SameViews \/ Ended(e))
  <2>1. "alloc" \in Stages
    BY DEF Stages
  <2>2. /\ pc' \in [Envs -> Programs] /\ \A d \in Envs : d # e => pc'[d] = pc[d]
        /\ pc'[e].fault = "alloc" /\ pc'[e].at = pc[e].at /\ pc'[e].n = pc[e].n
        /\ pc'[e].child = pc[e].child /\ pc'[e].va = va /\ pc'[e].handler = pc[e].handler
    BY <1>1, <1>3, <2>1, FaultTurns
  <2>3. Exact(vm)' /\ \A d \in Envs : SameSpace(d)
    BY <1>1, <1>3, UnchangedSpace
  <2>4. Typing' /\ \A d \in Envs : d # e => Same(d)
    BY <2>2, <2>3 DEF Typing, Same
  <2>5. Local(e)'
    <3>1. vm' = vm
      BY <1>3
    <3>2. SpaceIsWhole(e)'
      BY <1>1, <2>2, <3>1 DEF Local, SpaceIsWhole, Alive, Forking
    <3>3. FaultIsInStep(e)'
      BY <1>1, <1>2, <2>2, <3>1 DEF Local, FaultIsInStep, Alive
    <3>4. FaultIsHandled(e)'
      BY <1>1, <2>2, <3>1 DEF Local, FaultIsHandled, Alive
    <3> QED
      BY <3>2, <3>3, <3>4 DEF Local
  <2>6. Sharing'
    <3>1. Sharing /\ \A d \in Envs, v \in VAs : vm'.pt[d][v] = vm.pt[d][v]
      BY <1>3 DEF Inv
    <3>2. \A d, d2 \in Envs, v, v2 \in VAs : Mid(d, v, d2, v2) => Mid(d, v, d2, v2)'
      BY <1>2, <2>2 DEF Mid, MidDuppage, MidFault, page, child
    <3> QED
      BY <3>1, <3>2, SharingKept
  <2>7. \A w \in Pages : vm.pt[e][w].perm # "none" =>
          vm'.data[vm'.pt[e][w].frame] = vm.data[vm.pt[e][w].frame]
    BY <1>3
  <2> QED
    BY <1>2, <2>2, <2>4, <2>5, <2>6, <2>7, OwnStepKeeps
<1> QED
  BY <1>2, <1>3, DestroyedKeeps DEF Fault

\* An environment that handles a fault runs, and its page is copy-on-write.
LEMMA Faulting ==
  ASSUME Inv, NEW e \in Envs, pc[e].fault # "none"
  PROVE  /\ Typing /\ Local(e) /\ Alive(e)
         /\ pc[e].va \in Pages /\ pc[e].va \in VAs /\ pc[e].va # "PFTEMP" /\ pc[e].va # "XSTACK"
         /\ pc[e].at = "map_original" => page(e) # "PFTEMP"
<1>1. Typing /\ Local(e)
  BY DEF Inv
<1>2. Alive(e)
  BY <1>1 DEF Local, FaultIsInStep
<1> QED
  BY <1>1, <1>2, Typed, SpecialPages, PageOf

LEMMA FaultAllocKeeps ==
  ASSUME Inv, NEW e \in Envs, FaultAlloc(e)
  PROVE  Inv' /\ (SameViews \/ Ended(e))
<1>1. pc[e].fault = "alloc"
  BY DEF FaultAlloc
<1>2. /\ Typing /\ Local(e) /\ Alive(e)
      /\ pc[e].va \in Pages /\ pc[e].va \in VAs /\ pc[e].va # "PFTEMP" /\ pc[e].va # "XSTACK"
  BY <1>1, Faulting
<1>3. ASSUME vm.page_free_list # {}, vm' = sys_page_alloc(vm, e, "PFTEMP", "W"),
             pc' = [pc EXCEPT ![e].fault = "copy"]
      PROVE  Inv' /\ (SameViews \/ Ended(e))
  <2>1. "copy" \in Stages
    BY DEF Stages
  <2>2. /\ pc' \in [Envs -> Programs] /\ \A d \in Envs : d # e => pc'[d] = pc[d]
        /\ pc'[e].fault = "copy" /\ pc'[e].at = pc[e].at /\ pc'[e].n = pc[e].n
        /\ pc'[e].child = pc[e].child /\ pc'[e].va = pc[e].va /\ pc'[e].handler = pc[e].handler
    BY <1>2, <1>3, <2>1, FaultGoes
  <2>3. PICK f \in Frames :
          /\ \A d \in Envs, v \in VAs : vm.pt[d][v].frame # f
          /\ Sets(vm, e, "PFTEMP", [frame |-> f, perm |-> "W"], vm')
    BY <1>2, <1>3, AllocSets, SpecialPages DEF Typing
  <2> PICK x : x = [frame |-> f, perm |-> "W"]
    OBVIOUS
  <2>4. x.frame = f /\ x.perm = "W" /\ Sets(vm, e, "PFTEMP", x, vm')
    BY <2>3
  <2>5. /\ Exact(vm)' /\ EntrySet(e, "PFTEMP", x)
        /\ \A d \in Envs, v \in VAs : vm'.pt[d][v] = IF d = e /\ v = "PFTEMP" THEN x ELSE vm.pt[d][v]
        /\ \A d \in Envs, v \in VAs : vm'.pt[d][v].perm # "none" =>
             vm'.data[vm'.pt[d][v].frame] = vm.data[vm'.pt[d][v].frame]
        /\ \A d \in Envs : d # e => SameSpace(d)
    BY <2>4, SpaceOfSets, SpecialPages
  <2>6. Typing' /\ \A d \in Envs : d # e => Same(d)
    BY <2>2, <2>5 DEF Typing, Same
  <2>7. /\ vm'.pt[e]["PFTEMP"].perm = "W" /\ vm'.pt[e]["XSTACK"] = vm.pt[e]["XSTACK"]
        /\ \A w \in Pages : vm'.pt[e][w] = vm.pt[e][w]
    BY <2>4, <2>5, SpecialPages
  <2>8. Local(e)'
    <3>1. SpaceIsWhole(e)'
      BY <1>2, <2>2, <2>7 DEF Local, SpaceIsWhole, Alive, Forking
    <3>2. FaultIsInStep(e)'
      BY <1>1, <1>2, <2>2, <2>7 DEF Local, FaultIsInStep, Alive
    <3>3. FaultIsHandled(e)'
      BY <1>2, <2>2, <2>7 DEF Local, FaultIsHandled, Alive
    <3> QED
      BY <3>1, <3>2, <3>3 DEF Local
  <2>9. Sharing'
    <3>1. Sharing
      BY DEF Inv
    <3>2. \A d, d2 \in Envs, v, v2 \in VAs :
            Mid(d, v, d2, v2) /\ ~ (d = e /\ v = "PFTEMP") /\ ~ (d2 = e /\ v2 = "PFTEMP") => Mid(d, v, d2, v2)'
      BY <1>1, <2>2 DEF Mid, MidDuppage, MidFault, page, child
    <3>3. \A d \in Envs, v \in VAs : ~ (d = e /\ v = "PFTEMP") /\ vm.pt[d][v].frame = x.frame =>
             /\ vm.pt[d][v].perm = "W" => Mid(d, v, e, "PFTEMP")'
             /\ x.perm = "W" => Mid(e, "PFTEMP", d, v)'
      BY <2>3, <2>4
    <3> QED
      BY <2>5, <3>1, <3>2, <3>3, SharingSet, SpecialPages
  <2>10. \A w \in Pages : vm.pt[e][w].perm # "none" =>
          vm'.data[vm'.pt[e][w].frame] = vm.data[vm.pt[e][w].frame]
    BY <2>5, <2>7, SpecialPages
  <2> QED
    BY <1>2, <2>2, <2>6, <2>8, <2>9, <2>10, OwnStepKeeps
<1> QED
  BY <1>2, <1>3, DestroyedKeeps DEF FaultAlloc

LEMMA FaultCopyKeeps ==
  ASSUME Inv, NEW e \in Envs, FaultCopy(e)
  PROVE  Inv' /\ SameViews
<1>1. pc[e].fault = "copy"
  BY DEF FaultCopy
<1>2. /\ Typing /\ Local(e) /\ Alive(e)
      /\ pc[e].va \in Pages /\ pc[e].va \in VAs /\ pc[e].va # "PFTEMP" /\ pc[e].va # "XSTACK"
      /\ pc[e].at = "map_original" => page(e) # "PFTEMP"
  BY <1>1, Faulting
<1> PICK f : f = vm.pt[e]["PFTEMP"].frame
  OBVIOUS
<1> PICK g : g = vm.pt[e][pc[e].va].frame
  OBVIOUS
<1>3. vm.pt[e]["PFTEMP"].perm = "W" /\ vm.pt[e][pc[e].va].perm = "COW"
  BY <1>1, <1>2 DEF Local, FaultIsInStep
<1>4. f \in Frames /\ g \in Frames
  BY <1>2, <1>3, Typed, SpecialPages
<1>5. \A d \in Envs, w \in VAs : ~ (d = e /\ w = "PFTEMP") => vm.pt[d][w].frame # f
  BY <1>1, <1>2, <1>3, WritableAlone, SpecialPages
<1>6. f # g
  BY <1>2, <1>5
<1> PICK v : v = vm.data[g]
  OBVIOUS
<1>7. v \in Values
  BY <1>2, <1>4 DEF Typing, Exact, Memory
<1>8. vm' = [vm EXCEPT !.data[f] = v]
  BY DEF FaultCopy
<1>9. /\ Exact(vm)' /\ vm'.pt = vm.pt /\ vm'.data[f] = v
      /\ \A h \in Frames : h # f => vm'.data[h] = vm.data[h]
  BY <1>2, <1>4, <1>7, <1>8, StoreSpace, ZenonT(40)
<1>10. "map" \in Stages /\ pc' = [pc EXCEPT ![e].fault = "map"]
  BY DEF Stages, FaultCopy
<1>11. /\ pc' \in [Envs -> Programs] /\ \A d \in Envs : d # e => pc'[d] = pc[d]
       /\ pc'[e].fault = "map" /\ pc'[e].at = pc[e].at /\ pc'[e].n = pc[e].n
       /\ pc'[e].child = pc[e].child /\ pc'[e].va = pc[e].va /\ pc'[e].handler = pc[e].handler
  BY <1>2, <1>10, FaultGoes
<1>12. \A d \in Envs, w \in VAs : vm.pt[d][w].perm # "none" => vm.pt[d][w].frame \in Frames
  BY <1>2, Typed
<1>13. \A d \in Envs : d # e => Same(d)
  BY <1>5, <1>9, <1>11, <1>12 DEF Same, SameSpace
<1>14. Typing'
  BY <1>9, <1>11 DEF Typing
<1>15. Local(e)'
  <2>1. SpaceIsWhole(e)'
    BY <1>2, <1>9, <1>11 DEF Local, SpaceIsWhole, Alive, Forking
  <2>2. vm'.data[g] = v
    BY <1>4, <1>6, <1>9
  <2>3. FaultIsInStep(e)'
    BY <1>2, <1>3, <1>9, <1>11, <2>2 DEF FaultIsInStep, Alive
  <2>4. FaultIsHandled(e)'
    BY <1>2, <1>9, <1>11 DEF Local, FaultIsHandled, Alive
  <2> QED
    BY <2>1, <2>3, <2>4 DEF Local
<1>16. Sharing'
  <2>1. Sharing /\ \A d \in Envs, w \in VAs : vm'.pt[d][w] = vm.pt[d][w]
    BY <1>9 DEF Inv
  <2>2. \A d, d2 \in Envs, w, w2 \in VAs : Mid(d, w, d2, w2) => Mid(d, w, d2, w2)'
    BY <1>1, <1>11 DEF Mid, MidDuppage, MidFault, page, child
  <2> QED
    BY <2>1, <2>2, SharingKept
<1>17. \A w \in Pages : vm.pt[e][w].perm # "none" =>
         vm'.data[vm'.pt[e][w].frame] = vm.data[vm.pt[e][w].frame]
  BY <1>5, <1>9, <1>12, SpecialPages
<1> QED
  BY <1>2, <1>11, <1>13, <1>14, <1>15, <1>16, <1>17, OwnStepKeeps

\* The new page takes the place of the old: for a moment it is mapped twice.
LEMMA FaultMapKeeps ==
  ASSUME Inv, NEW e \in Envs, FaultMap(e)
  PROVE  Inv' /\ SameViews
<1>1. pc[e].fault = "map"
  BY DEF FaultMap
<1> PICK va : va = pc[e].va
  OBVIOUS
<1>2. /\ Typing /\ Local(e) /\ Alive(e)
      /\ va \in Pages /\ va \in VAs /\ va # "PFTEMP" /\ va # "XSTACK"
      /\ pc[e].at = "map_original" => page(e) # "PFTEMP"
  BY <1>1, Faulting
<1>3. /\ vm.pt[e]["PFTEMP"].perm = "W" /\ vm.pt[e][va].perm = "COW"
      /\ vm.data[vm.pt[e]["PFTEMP"].frame] = vm.data[vm.pt[e][va].frame]
  BY <1>1, <1>2 DEF Local, FaultIsInStep
<1> PICK x : x = [frame |-> vm.pt[e]["PFTEMP"].frame, perm |-> "W"]
  OBVIOUS
<1>4. x.frame = vm.pt[e]["PFTEMP"].frame /\ x.perm = "W"
  OBVIOUS
<1>5. Sets(vm, e, va, x, vm')
  BY <1>2, <1>3, MapSets, SpecialPages DEF FaultMap, Typing
<1>6. /\ Exact(vm)' /\ EntrySet(e, va, x)
      /\ \A d \in Envs, v \in VAs : vm'.pt[d][v] = IF d = e /\ v = va THEN x ELSE vm.pt[d][v]
      /\ \A d \in Envs, v \in VAs : vm'.pt[d][v].perm # "none" =>
           vm'.data[vm'.pt[d][v].frame] = vm.data[vm'.pt[d][v].frame]
      /\ \A d \in Envs : d # e => SameSpace(d)
  BY <1>2, <1>5, SpaceOfSets
<1>7. "unmap" \in Stages /\ pc' = [pc EXCEPT ![e].fault = "unmap"]
  BY DEF Stages, FaultMap
<1>8. /\ pc' \in [Envs -> Programs] /\ \A d \in Envs : d # e => pc'[d] = pc[d]
      /\ pc'[e].fault = "unmap" /\ pc'[e].at = pc[e].at /\ pc'[e].n = pc[e].n
      /\ pc'[e].child = pc[e].child /\ pc'[e].va = va /\ pc'[e].handler = pc[e].handler
  BY <1>2, <1>7, FaultGoes
<1>9. Typing' /\ \A d \in Envs : d # e => Same(d)
  BY <1>6, <1>8 DEF Typing, Same
<1>10. x = vm.pt[e]["PFTEMP"]
  <2>1. vm.pt[e]["PFTEMP"] \in Entry /\ vm.pt[e]["PFTEMP"].perm # "none"
    BY <1>2, <1>3, Typed, SpecialPages
  <2>2. vm.pt[e]["PFTEMP"] \in [frame : Frames, perm : {"R", "W", "COW"}]
    BY <2>1 DEF Entry, Unmapped
  <2> QED
    BY <1>3, <2>2
<1>11. Local(e)'
  <2>1. /\ vm'.pt[e]["PFTEMP"] = vm.pt[e]["PFTEMP"] /\ vm'.pt[e]["XSTACK"] = vm.pt[e]["XSTACK"]
        /\ \A w \in Pages : vm'.pt[e][w] = IF w = va THEN x ELSE vm.pt[e][w]
    BY <1>2, <1>6, SpecialPages
  <2>2. va \notin ReadOnly
    BY <1>2, <1>3 DEF Local, SpaceIsWhole
  <2>3. SpaceIsWhole(e)'
    BY <1>2, <1>4, <1>8, <2>1, <2>2 DEF Local, SpaceIsWhole, Alive, Forking
  <2>4. FaultIsInStep(e)'
    BY <1>2, <1>3, <1>8, <1>10, <2>1 DEF FaultIsInStep, Alive
  <2>5. FaultIsHandled(e)'
    BY <1>2, <1>3, <1>8, <2>1 DEF Local, FaultIsHandled, Alive
  <2> QED
    BY <2>3, <2>4, <2>5 DEF Local
<1>12. Sharing'
  <2>1. Sharing
    BY DEF Inv
  <2>2. \A d, d2 \in Envs, v, v2 \in VAs :
          Mid(d, v, d2, v2) /\ ~ (d = e /\ v = va) /\ ~ (d2 = e /\ v2 = va) => Mid(d, v, d2, v2)'
    BY <1>1, <1>8 DEF Mid, MidDuppage, MidFault, page, child
  <2>3. \A d \in Envs, v \in VAs : vm.pt[d][v].frame = x.frame => d = e /\ v = "PFTEMP"
    BY <1>1, <1>2, <1>3, <1>4, WritableAlone, SpecialPages, SMTT(30)
  <2>4. Mid(e, "PFTEMP", e, va)' /\ Mid(e, va, e, "PFTEMP")'
    BY <1>8 DEF Mid, MidFault
  <2>5. \A d \in Envs, v \in VAs : ~ (d = e /\ v = va) /\ vm.pt[d][v].frame = x.frame =>
           /\ vm.pt[d][v].perm = "W" => Mid(d, v, e, va)'
           /\ x.perm = "W" => Mid(e, va, d, v)'
    BY <2>3, <2>4
  <2> QED
    BY <1>2, <1>6, <2>1, <2>2, <2>5, SharingSet
<1>13. \A w \in Pages : vm.pt[e][w].perm # "none" =>
         vm'.data[vm'.pt[e][w].frame] = vm.data[vm.pt[e][w].frame]
  <2> SUFFICES ASSUME NEW w \in Pages, vm.pt[e][w].perm # "none"
               PROVE  vm'.data[vm'.pt[e][w].frame] = vm.data[vm.pt[e][w].frame]
    OBVIOUS
  <2>1. w \in VAs
    BY SpecialPages
  <2>2. CASE w = va
    <3>1. vm'.pt[e][w] = x
      BY <1>6, <2>1, <2>2
    <3>2. vm'.pt[e][w].perm # "none"
      BY <1>4, <3>1
    <3>3. vm'.data[vm'.pt[e][w].frame] = vm.data[vm'.pt[e][w].frame]
      BY <1>6, <2>1, <3>2
    <3>4. vm'.pt[e][w].frame = vm.pt[e]["PFTEMP"].frame
      BY <1>4, <3>1
    <3> QED
      BY <1>3, <2>2, <3>3, <3>4
  <2>3. CASE w # va
    <3>1. vm'.pt[e][w] = vm.pt[e][w]
      BY <1>6, <2>1, <2>3
    <3> QED
      BY <1>6, <2>1, <3>1
  <2> QED
    BY <2>2, <2>3
<1> QED
  BY <1>2, <1>8, <1>9, <1>11, <1>12, <1>13, OwnStepKeeps

LEMMA FaultUnmapKeeps ==
  ASSUME Inv, NEW e \in Envs, FaultUnmap(e)
  PROVE  Inv' /\ SameViews
<1>1. pc[e].fault = "unmap"
  BY DEF FaultUnmap
<1>2. /\ Typing /\ Local(e) /\ Alive(e)
      /\ pc[e].va \in Pages /\ pc[e].va # "PFTEMP"
  BY <1>1, Faulting
<1>3. Sets(vm, e, "PFTEMP", Unmapped, vm')
  BY <1>2, RemoveSets, SpecialPages DEF FaultUnmap, Typing
<1>4. /\ Exact(vm)' /\ EntrySet(e, "PFTEMP", Unmapped)
      /\ \A d \in Envs, v \in VAs : vm'.pt[d][v] = IF d = e /\ v = "PFTEMP" THEN Unmapped ELSE vm.pt[d][v]
      /\ \A d \in Envs, v \in VAs : vm'.pt[d][v].perm # "none" =>
           vm'.data[vm'.pt[d][v].frame] = vm.data[vm'.pt[d][v].frame]
      /\ \A d \in Envs : d # e => SameSpace(d)
  BY <1>3, SpaceOfSets, SpecialPages
<1>5. "none" \in Stages /\ Stack \in Pages /\ pc' = [pc EXCEPT ![e].fault = "none", ![e].va = Stack]
  BY JosForkAssumption DEF Stages, FaultUnmap, Pages
<1>6. /\ pc' \in [Envs -> Programs] /\ \A d \in Envs : d # e => pc'[d] = pc[d]
      /\ pc'[e].fault = "none" /\ pc'[e].at = pc[e].at /\ pc'[e].n = pc[e].n
      /\ pc'[e].child = pc[e].child /\ pc'[e].va = Stack /\ pc'[e].handler = pc[e].handler
  BY <1>2, <1>5, FaultTurns
<1>7. Typing' /\ \A d \in Envs : d # e => Same(d)
  BY <1>4, <1>6 DEF Typing, Same
<1>8. /\ vm'.pt[e]["PFTEMP"] = Unmapped /\ vm'.pt[e]["XSTACK"] = vm.pt[e]["XSTACK"]
      /\ \A w \in Pages : vm'.pt[e][w] = vm.pt[e][w]
  BY <1>4, SpecialPages
<1>9. Local(e)'
  <2>1. SpaceIsWhole(e)'
    BY <1>2, <1>6, <1>8 DEF Local, SpaceIsWhole, Alive, Forking
  <2>2. FaultIsInStep(e)'
    BY <1>6, <1>8 DEF FaultIsInStep
  <2>3. FaultIsHandled(e)'
    BY <1>2, <1>6, <1>8 DEF Local, FaultIsHandled, Alive
  <2> QED
    BY <2>1, <2>2, <2>3 DEF Local
<1>10. Sharing'
  <2>1. Sharing
    BY DEF Inv
  <2>2. \A d, d2 \in Envs, v, v2 \in VAs :
          Mid(d, v, d2, v2) /\ ~ (d = e /\ v = "PFTEMP") /\ ~ (d2 = e /\ v2 = "PFTEMP") => Mid(d, v, d2, v2)'
    BY <1>6 DEF Mid, MidDuppage, MidFault, page, child
  <2>3. \A d \in Envs, v \in VAs : vm.pt[d][v].perm = "W" => vm.pt[d][v].frame # Unmapped.frame
    BY <1>2, Typed, UnmappedEntry
  <2>4. \A d \in Envs, v \in VAs : ~ (d = e /\ v = "PFTEMP") /\ vm.pt[d][v].frame = Unmapped.frame =>
           /\ vm.pt[d][v].perm = "W" => Mid(d, v, e, "PFTEMP")'
           /\ Unmapped.perm = "W" => Mid(e, "PFTEMP", d, v)'
    BY <2>3, UnmappedEntry
  <2> QED
    BY <1>4, <2>1, <2>2, <2>4, SharingSet, SpecialPages
<1>11. \A w \in Pages : vm.pt[e][w].perm # "none" =>
         vm'.data[vm'.pt[e][w].frame] = vm.data[vm.pt[e][w].frame]
  BY <1>4, <1>8, SpecialPages
<1> QED
  BY <1>2, <1>6, <1>7, <1>9, <1>10, <1>11, OwnStepKeeps

-----------------------------------------------------------------------------
(* The invariant holds.                                                    *)

LEMMA NextKeeps ==
  ASSUME Inv, Next
  PROVE  /\ Inv'
         /\ \/ SameViews
            \/ \E e \in Envs, va \in Pages, v \in Values : Written(e, va, v)
            \/ \E e \in Envs : Forked(e) \/ Ended(e)
<1> PICK e \in Envs :
      \/ \E va \in Pages : Fault(e, va) \/ \E v \in Values : Write(e, va, v)
      \/ FaultAlloc(e) \/ FaultCopy(e) \/ FaultMap(e) \/ FaultUnmap(e)
      \/ ForkStart(e) \/ Exofork(e) \/ Duppage(e) \/ MapNew(e) \/ MapOriginal(e)
      \/ MapShared(e) \/ ForkXstack(e) \/ ForkUpcall(e) \/ ForkReturn(e)
      \/ Exit(e)
  BY DEF Next
<1> DEFINE Abstract == \/ SameViews
                       \/ \E d \in Envs, va \in Pages, v \in Values : Written(d, va, v)
                       \/ \E d \in Envs : Forked(d) \/ Ended(d)
<1>1. ASSUME NEW va \in Pages, Fault(e, va) \/ \E v \in Values : Write(e, va, v) PROVE Inv' /\ Abstract
  BY <1>1, FaultKeeps, WriteKeeps
<1>2. CASE FaultAlloc(e) \/ FaultCopy(e) \/ FaultMap(e) \/ FaultUnmap(e)
  BY <1>2, FaultAllocKeeps, FaultCopyKeeps, FaultMapKeeps, FaultUnmapKeeps
<1>3. CASE ForkStart(e) \/ Exofork(e) \/ Duppage(e) \/ MapNew(e) \/ MapOriginal(e)
  BY <1>3, ForkStartKeeps, ExoforkKeeps, DuppageKeeps, MapNewKeeps, MapOriginalKeeps
<1>4. CASE MapShared(e) \/ ForkXstack(e) \/ ForkUpcall(e) \/ ForkReturn(e)
  BY <1>4, MapSharedKeeps, ForkXstackActKeeps, ForkUpcallKeeps, ForkReturnKeeps
<1>5. CASE Exit(e)
  BY <1>5, DestroyedKeeps DEF Exit
<1> QED
  BY <1>1, <1>2, <1>3, <1>4, <1>5

LEMMA UnchangedKeeps == ASSUME Inv, UNCHANGED vars PROVE Inv'
<1>1. vm' = vm /\ pc' = pc
  BY DEF vars
<1>2. Typing' /\ \A d \in Envs : Same(d)
  BY <1>1, UnchangedSpace DEF Inv, Typing, Same
<1>3. \A d \in Envs : Typing /\ Local(d) /\ ForkIsInStep(d) /\ child(d) \in Envs
  BY Typed DEF Inv, child
<1>4. \A d \in Envs : Local(d)'
  BY <1>2, <1>3, LocalKept DEF Same
<1>5. ASSUME NEW d \in Envs PROVE ForkIsInStep(d)'
  <2>1. \A va \in Pages : vm'.data[vm'.pt[d][va].frame] = vm.data[vm.pt[d][va].frame]
    BY <1>1
  <2> QED
    BY <1>1, <1>2, <1>3, <2>1, ForkKept
<1>6. Sharing' /\ ChildrenWait'
  BY <1>1 DEF Inv, Sharing, MidDuppage, MidFault, ChildrenWait, Forking, page, child
<1> QED
  BY <1>2, <1>4, <1>5, <1>6 DEF Inv

\* At the start each page of the first environment has a frame of its own.
LEMMA InitInv == ASSUME Init PROVE Inv
<1> DEFINE len == Len(UserPages)
           num(va) == CHOOSE i \in DOMAIN UserPages : UserPages[i] = va
           x(va) == [frame |-> num(va), perm |-> IF va \in ReadOnly THEN "R" ELSE "W"]
<1>1. /\ len \in Nat /\ DOMAIN UserPages = 1 .. len /\ NFrames \in Nat /\ len <= NFrames
      /\ First \in Envs /\ Stack \in Pages
  <2>1. UserPages \in Seq(Pages)
    BY JosForkAssumption DEF Pages
  <2> QED
    BY <2>1, JosForkAssumption DEF Pages
<1>2. ASSUME NEW va \in Pages PROVE num(va) \in 1 .. len /\ UserPages[num(va)] = va
  BY <1>1, Numbered
<1>3. ASSUME NEW va \in Pages
      PROVE  /\ x(va) \in Entry /\ x(va).frame = num(va) /\ num(va) \in Frames
             /\ x(va).perm = IF va \in ReadOnly THEN "R" ELSE "W"
  <2>1. num(va) \in Frames
    BY <1>1, <1>2 DEF Frames
  <2> HIDE DEF num
  <2> QED
    BY <2>1, MappedEntry
<1>4. vm = [pt |-> [e \in Envs |-> [va \in VAs |-> IF e = First /\ va \in Pages THEN x(va) ELSE Unmapped]],
            pp_ref |-> [f \in Frames |-> IF f <= len THEN 1 ELSE 0],
            page_free_list |-> len + 1 .. NFrames,
            data |-> [f \in Frames |-> IF f <= len THEN Image[UserPages[f]] ELSE 0]]
  BY DEF Init
<1> HIDE DEF x, num
<1>5. \A d \in Envs, v \in VAs : vm.pt[d][v] = IF d = First /\ v \in Pages THEN x(v) ELSE Unmapped
  BY <1>4
<1>6. /\ \A f \in Frames : vm.pp_ref[f] = IF f <= len THEN 1 ELSE 0
      /\ \A f \in Frames : f \in vm.page_free_list <=> ~ f <= len
  BY <1>1, <1>4 DEF Frames
<1>7. vm \in Raw
  <2> DEFINE pt == [e \in Envs |-> [va \in VAs |-> IF e = First /\ va \in Pages THEN x(va) ELSE Unmapped]]
             ref == [f \in Frames |-> IF f <= len THEN 1 ELSE 0]
             data == [f \in Frames |-> IF f <= len THEN Image[UserPages[f]] ELSE 0]
  <2>1. pt \in Tables
    BY <1>3, UnmappedEntry DEF Tables
  <2>2. ref \in [Frames -> Int]
    OBVIOUS
  <2>3. data \in [Frames -> Values]
    <3>1. \A f \in Frames : f <= len => Image[UserPages[f]] \in Values
      <4> SUFFICES ASSUME NEW f \in Frames, f <= len PROVE Image[UserPages[f]] \in Values
        OBVIOUS
      <4>1. UserPages[f] \in Pages
        BY <1>1, Numbered DEF Frames
      <4> QED
        BY <4>1, JosForkAssumption DEF Pages
    <3>2. 0 \in Values
      BY JosForkAssumption
    <3> QED
      BY <3>1, <3>2
  <2>4. len + 1 .. NFrames \subseteq Frames
    BY <1>1 DEF Frames
  <2>5. vm = [pt |-> pt, pp_ref |-> ref, page_free_list |-> len + 1 .. NFrames, data |-> data]
    BY <1>4
  <2> HIDE DEF pt, ref, data, len
  <2> QED
    BY <2>1, <2>2, <2>3, <2>4, <2>5 DEF Raw
<1>8. ASSUME NEW f \in Frames
      PROVE  /\ f <= len => Maps(vm.pt, f) = {<<First, UserPages[f]>>}
             /\ ~ f <= len => Maps(vm.pt, f) = {}
  <2>1. \A d \in Envs, v \in VAs : vm.pt[d][v].frame = f <=> d = First /\ v \in Pages /\ num(v) = f
    BY <1>3, <1>5, UnmappedEntry
  <2>2. \A v \in Pages : num(v) = f <=> f <= len /\ v = UserPages[f]
    <3>1. \A v \in Pages : num(v) = f => f <= len /\ v = UserPages[f]
      BY <1>1, <1>2
    <3>2. ASSUME NEW v \in Pages, f <= len, v = UserPages[f] PROVE num(v) = f
      <4>1. f \in 1 .. len
        BY <1>1, <3>2 DEF Frames
      <4> QED
        BY <1>2, <3>2, <4>1, Numbered
    <3> QED
      BY <3>1, <3>2
  <2>3. f <= len => UserPages[f] \in Pages /\ UserPages[f] \in VAs
    BY <1>1, Numbered, SpecialPages DEF Frames
  <2> HIDE DEF len
  <2>4. \A d \in Envs, v \in VAs : <<d, v>> \in Maps(vm.pt, f) <=> f <= len /\ <<d, v>> = <<First, UserPages[f]>>
    BY <2>1, <2>2, <2>3, SpecialPages DEF Maps
  <2>5. Maps(vm.pt, f) \subseteq Envs \X VAs
    BY DEF Maps
  <2>6. f <= len => <<First, UserPages[f]>> \in Envs \X VAs
    BY <1>1, <2>3
  <2> QED
    BY <2>4, <2>5, <2>6
<1>9. CountsOf(vm)
  <2> SUFFICES ASSUME NEW f \in Frames PROVE vm.pp_ref[f] = Cardinality(Maps(vm.pt, f))
    BY DEF CountsOf
  <2>1. Cardinality({<<First, UserPages[f]>>}) = 1
    BY FS_Singleton
  <2>2. Cardinality({}) = 0
    BY FS_EmptySet
  <2> QED
    BY <1>6, <1>8, <2>1, <2>2
<1>10. Exact(vm)
  <2>1. FreeAre(vm)
    BY <1>6, <1>8 DEF FreeAre
  <2> QED
    BY <1>7, <1>9, <2>1, RawIsMemory DEF Exact
<1>11. /\ pc \in [Envs -> Programs] /\ \A d \in Envs : d # First => pc[d] = NotThere
       /\ NotThere.at = "free" /\ NotThere.fault = "none" /\ ~ NotThere.handler
       /\ pc[First].at = "user" /\ pc[First].fault = "none" /\ ~ pc[First].handler
  <2> DEFINE r == [NotThere EXCEPT !.at = "user"]
  <2>1. NotThere \in Programs
    <3>1. 1 \in 1 .. Len(UserPages) + 1
      BY <1>1
    <3> QED
      BY <1>1, <3>1 DEF NotThere, Programs, Places, Stages
  <2>2. r \in Programs /\ r.at = "user" /\ r.fault = NotThere.fault /\ r.handler = NotThere.handler
    BY <2>1 DEF Programs, Places
  <2>3. NotThere.at = "free" /\ NotThere.fault = "none" /\ NotThere.handler = FALSE
    BY DEF NotThere
  <2>4. pc = [e \in Envs |-> IF e = First THEN r ELSE NotThere]
    BY DEF Init
  <2> HIDE DEF r
  <2> QED
    BY <1>1, <2>1, <2>2, <2>3, <2>4
<1>12. Typing
  BY <1>10, <1>11 DEF Typing
<1>13. ChildrenWait /\ \A d \in Envs : ForkIsInStep(d)
  BY <1>11 DEF ChildrenWait, Forking, ForkStages, ForkIsInStep
<1>14. ASSUME NEW d \in Envs PROVE Local(d)
  <2>1. vm.pt[d]["PFTEMP"] = Unmapped
    BY <1>5, SpecialPages
  <2>2. CASE d = First
    BY <1>3, <1>5, <1>11, <2>1, <2>2, SpecialPages
    DEF Local, SpaceIsWhole, FaultIsInStep, FaultIsHandled, Alive, Forking, ForkStages
  <2>3. CASE d # First
    BY <1>5, <1>11, <2>1, <2>3
    DEF Local, SpaceIsWhole, FaultIsInStep, FaultIsHandled, Alive, Forking, ForkStages
  <2> QED
    BY <2>2, <2>3
<1>15. Sharing
  <2>1. ASSUME NEW d \in Envs, NEW d2 \in Envs, NEW v \in VAs, NEW v2 \in VAs,
               vm.pt[d][v].perm = "W", vm.pt[d2][v2].frame = vm.pt[d][v].frame
        PROVE  d2 = d /\ v2 = v
    <3>1. vm.pt[d][v].frame \in Frames
      BY <1>12, <2>1, Typed
    <3>2. <<d, v>> \in Maps(vm.pt, vm.pt[d][v].frame) /\ <<d2, v2>> \in Maps(vm.pt, vm.pt[d][v].frame)
      BY <2>1 DEF Maps
    <3> QED
      BY <1>8, <3>1, <3>2
  <2> QED
    BY <2>1 DEF Sharing
<1> QED
  BY <1>12, <1>13, <1>14, <1>15 DEF Inv

\* The inductive invariant: counts, sharing, handlers, forks and faults are at every
\* moment between two system calls as the code that made them left them.
LEMMA Invariance == Spec => []Inv
<1>1. Init => Inv
  BY InitInv
<1>2. Inv /\ [Next]_vars => Inv'
  BY NextKeeps, UnchangedKeeps
<1> QED
  BY <1>1, <1>2, PTL DEF Spec

\* The model's state is well formed.
THEOREM TypeCorrect == Spec => []TypeOK
<1>1. Inv => TypeOK
  BY InvIs DEF ForkInv
<1> QED
  BY <1>1, Invariance, PTL

\* The kernel's count of a physical page is the number of its mappings, and a page is in
\* the free list exactly when nobody maps it: page_insert, page_remove and env_free
\* (kern/pmap.c, kern/env.c) neither free a page in use nor lose one, whichever
\* environments fork, fault and die between any two system calls.
THEOREM ReferencesAreExact == Spec => []RefcountsAreExact
<1>1. Inv => RefcountsAreExact
  BY InvIs DEF ForkInv
<1> QED
  BY <1>1, Invariance, PTL

\* duppage and pgfault (lib/fork.c) never leave a page that one environment can write
\* mapped anywhere else, but for the moment between two of their system calls.
THEOREM SharingIsSafe == Spec => []SharedIsReadOnly
<1>1. Inv => SharedIsReadOnly
  BY InvIs DEF ForkInv
<1> QED
  BY <1>1, Invariance, PTL

\* An environment with a copy-on-write page has what its page faults need: fork sets the
\* upcall and the exception stack of the child before it lets the child run.
THEOREM HandlersAreThere == Spec => []FaultsAreHandled
<1>1. Inv => FaultsAreHandled
  BY InvIs DEF ForkInv
<1> QED
  BY <1>1, Invariance, PTL

-----------------------------------------------------------------------------
(* fork copies.                                                            *)

memoryOf == [e \in Envs |-> IF Alive(e) THEN [va \in Pages |-> vm.data[vm.pt[e][va].frame]]
                            ELSE [va \in {} |-> 0]]

LEMMA MemoryAt ==
  ASSUME NEW e \in Envs
  PROVE  /\ Alive(e) => memoryOf[e] = [va \in Pages |-> vm.data[vm.pt[e][va].frame]]
         /\ ~ Alive(e) => memoryOf[e] = F!Gone
         /\ Alive(e) => memoryOf[e] # F!Gone
         /\ memoryOf = [d \in Envs |-> memoryOf[d]]
<1>1. Stack \in Pages
  BY JosForkAssumption DEF Pages
<1>2. Alive(e) => memoryOf[e] = [va \in Pages |-> vm.data[vm.pt[e][va].frame]]
  BY DEF memoryOf
<1>3. ~ Alive(e) => memoryOf[e] = F!Gone
  BY DEF memoryOf, F!Gone
<1>4. DOMAIN F!Gone = {}
  BY DEF F!Gone
<1>5. Alive(e) => DOMAIN memoryOf[e] = Pages
  BY <1>2
<1>6. memoryOf = [d \in Envs |-> memoryOf[d]]
  BY DEF memoryOf
<1> QED
  BY <1>1, <1>2, <1>3, <1>4, <1>5, <1>6

LEMMA MemoryNext ==
  ASSUME NEW e \in Envs
  PROVE  /\ Alive(e)' => memoryOf'[e] = [va \in Pages |-> vm'.data[vm'.pt[e][va].frame]]
         /\ ~ Alive(e)' => memoryOf'[e] = F!Gone
         /\ memoryOf' = [d \in Envs |-> memoryOf'[d]]
<1>1. Alive(e)' => memoryOf'[e] = [va \in Pages |-> vm'.data[vm'.pt[e][va].frame]]
  BY DEF memoryOf
<1>2. ~ Alive(e)' => memoryOf'[e] = F!Gone
  BY DEF memoryOf, F!Gone
<1>3. memoryOf' = [d \in Envs |-> memoryOf'[d]]
  BY DEF memoryOf
<1> QED
  BY <1>1, <1>2, <1>3

LEMMA SameMemory ==
  ASSUME NEW e \in Envs, SameView(e)
  PROVE  memoryOf'[e] = memoryOf[e]
<1>1. CASE Alive(e)
  <2>1. /\ memoryOf[e] = [va \in Pages |-> vm.data[vm.pt[e][va].frame]]
        /\ memoryOf'[e] = [va \in Pages |-> vm'.data[vm'.pt[e][va].frame]]
    BY <1>1, MemoryAt, MemoryNext DEF SameView
  <2>2. \A va \in Pages : vm'.data[vm'.pt[e][va].frame] = vm.data[vm.pt[e][va].frame]
    BY <1>1 DEF SameView
  <2> QED
    BY <2>1, <2>2
<1>2. CASE ~ Alive(e)
  BY <1>2, MemoryAt, MemoryNext DEF SameView
<1> QED
  BY <1>1, <1>2

LEMMA AbstractStep ==
  ASSUME Inv, Next
  PROVE  F!Next \/ memoryOf' = memoryOf
<1>1. CASE SameViews
  <2>1. \A d \in Envs : memoryOf'[d] = memoryOf[d]
    BY <1>1, SameMemory DEF SameViews
  <2>2. memoryOf = [d \in Envs |-> memoryOf[d]] /\ memoryOf' = [d \in Envs |-> memoryOf'[d]]
    BY DEF memoryOf
  <2> QED
    BY <2>1, <2>2
<1>2. ASSUME NEW e \in Envs, NEW va \in Pages, NEW v \in Values, Written(e, va, v) PROVE F!Next
  <2>1. memoryOf[e] # F!Gone
    BY <1>2, MemoryAt DEF Written
  <2>2. memoryOf'[e] = [memoryOf[e] EXCEPT ![va] = v]
    <3>1. /\ memoryOf[e] = [w \in Pages |-> vm.data[vm.pt[e][w].frame]]
          /\ memoryOf'[e] = [w \in Pages |-> vm'.data[vm'.pt[e][w].frame]]
      BY <1>2, MemoryAt, MemoryNext DEF Written
    <3>2. \A w \in Pages : vm'.data[vm'.pt[e][w].frame] = IF w = va THEN v ELSE vm.data[vm.pt[e][w].frame]
      BY <1>2 DEF Written
    <3> QED
      BY <3>1, <3>2, SMTT(30)
  <2>3. \A d \in Envs : d # e => memoryOf'[d] = memoryOf[d]
    BY <1>2, SameMemory DEF Written
  <2>4. memoryOf' = [memoryOf EXCEPT ![e][va] = v]
    BY <2>2, <2>3, MemoryAt, MemoryNext
  <2>5. F!Write(e, va, v)
    BY <2>1, <2>4 DEF F!Write, memoryOf
  <2> QED
    BY <2>5 DEF F!Next
<1>3. ASSUME NEW e \in Envs, Forked(e) PROVE F!Next
  <2>1. PICK c \in Envs :
          /\ c # e /\ Alive(e) /\ ~ Alive(c) /\ Alive(c)' /\ \A d \in Envs : d # c => SameView(d)
          /\ \A va \in Pages : vm'.data[vm'.pt[c][va].frame] = vm.data[vm.pt[e][va].frame]
    BY <1>3 DEF Forked
  <2>2. memoryOf[e] # F!Gone /\ memoryOf[c] = F!Gone
    BY <2>1, MemoryAt
  <2>3. memoryOf'[c] = memoryOf[e]
    <3>1. /\ memoryOf[e] = [va \in Pages |-> vm.data[vm.pt[e][va].frame]]
          /\ memoryOf'[c] = [va \in Pages |-> vm'.data[vm'.pt[c][va].frame]]
      BY <2>1, MemoryAt, MemoryNext
    <3> QED
      BY <2>1, <3>1
  <2>4. \A d \in Envs : d # c => memoryOf'[d] = memoryOf[d]
    BY <2>1, SameMemory
  <2>5. memoryOf' = [memoryOf EXCEPT ![c] = memoryOf[e]]
    BY <2>3, <2>4, MemoryAt, MemoryNext
  <2>6. F!Fork(e, c)
    BY <2>2, <2>5 DEF F!Fork, memoryOf
  <2> QED
    BY <2>6 DEF F!Next
<1>4. ASSUME NEW e \in Envs, Ended(e) PROVE F!Next
  <2>1. memoryOf[e] # F!Gone /\ memoryOf'[e] = F!Gone
    BY <1>4, MemoryAt, MemoryNext DEF Ended
  <2>2. \A d \in Envs : d # e => memoryOf'[d] = memoryOf[d]
    BY <1>4, SameMemory DEF Ended
  <2>3. memoryOf' = [memoryOf EXCEPT ![e] = F!Gone]
    BY <2>1, <2>2, MemoryAt, MemoryNext
  <2>4. F!End(e)
    BY <2>1, <2>3 DEF F!End, memoryOf
  <2> QED
    BY <2>4 DEF F!Next
<1> QED
  BY <1>1, <1>2, <1>3, <1>4, NextKeeps

\* At the start one environment has a memory.
LEMMA AbstractInit == ASSUME Init PROVE F!Init
<1>1. Inv
  BY InitInv
<1>2. First \in Envs /\ Alive(First) /\ \A d \in Envs : d # First => ~ Alive(d)
  BY JosForkAssumption DEF Init, NotThere, Alive
<1> DEFINE v == [va \in Pages |-> vm.data[vm.pt[First][va].frame]]
<1>3. v \in [Pages -> Values]
  <2>1. \A va \in Pages : vm.pt[First][va].frame \in Frames
    BY <1>1, <1>2, Typed, SpecialPages DEF Inv, Local, SpaceIsWhole
  <2>2. vm.data \in [Frames -> Values]
    BY <1>1 DEF Inv, Typing, Exact, Memory
  <2> QED
    BY <2>1, <2>2
<1>4. memoryOf = [x \in Envs |-> IF x = First THEN v ELSE F!Gone]
  BY <1>2 DEF memoryOf, F!Gone
<1> HIDE DEF v
<1>5. \E e \in Envs, w \in [Pages -> Values] : memoryOf = [x \in Envs |-> IF x = e THEN w ELSE F!Gone]
  BY <1>2, <1>3, <1>4
<1> QED
  BY <1>5 DEF F!Init, memoryOf

\* fork of lib/fork.c gives the child a copy of its parent's memory as of the moment it
\* lets the child run, and from then on each sees its own writes only, whatever page
\* faults, forks and deaths come between.
THEOREM Refinement == Spec => ImplementsForkByCopy
<1>1. Init => F!Init
  BY AbstractInit
<1>2. Inv /\ [Next]_vars => [F!Next]_memoryOf
  <2>1. ASSUME UNCHANGED vars PROVE memoryOf' = memoryOf
    BY <2>1 DEF vars, memoryOf, Alive
  <2> QED
    BY <2>1, AbstractStep
<1> QED
  BY <1>1, <1>2, Invariance, PTL DEF Spec, ImplementsForkByCopy, F!Spec, memoryOf
=============================================================================
