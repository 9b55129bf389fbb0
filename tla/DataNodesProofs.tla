-------------------------- MODULE DataNodesProofs ---------------------------
(***************************************************************************)
(* Machine-checked proofs about DataNodes, for every set of datanodes and  *)
(* blocks and every bound on registrations and on the lateness of beats.   *)
(***************************************************************************)
EXTENDS DataNodes, WellFoundedInduction, TLAPS

\* The master runs, is heard of in time, and no thread registers it; a thread
\* that has read something has read a block.
MasterLives ==
  /\ up[Master]
  /\ age[Master] <= Late + 1
  /\ \A th \in threads : th.node # Master /\ (th.read = "no" \/ th.at \in Blocks)

\* A block whose pipeline may be open is remembered, and the master has it or
\* has yet to get it.
WritesReachMaster ==
  \A w \in writes :
    /\ w.at # "located" => w.block \in writtenBlocks
    /\ Master \in w.left \/ w.block \in disk[Master]

MasterInv == TypeOK /\ MasterLives /\ WritesReachMaster /\ MasterHasAll

\* With Apart: blocks are written and datanodes registered at different times,
\* so a write goes to every node that runs, ...
WritesReachAll ==
  /\ threads = {} \/ writes = {}
  /\ \A w \in writes : \A d \in Nodes :
       up[d] => d \in w.left \/ w.block \in disk[d]

\* ... and no thread carries junk for a block that was written.
NoJunk == \A th \in threads : th.read = "junk" => th.at \notin complete

\* A thread has copied the blocks its iterator has passed.
Copied(th) ==
  \A b \in complete :
    b < th.at \/ (b = th.at /\ th.read = "no") => b \in disk[th.node]

\* A running node has every block, or some thread is on its way to that.
Covered ==
  \A d \in Nodes : up[d] =>
    complete \subseteq disk[d] \/ \E th \in threads : th.node = d /\ Copied(th)

CopyInv == MasterInv /\ WritesReachAll /\ NoJunk /\ Covered

-----------------------------------------------------------------------------
(* The least element of a set of numbers.                                  *)

\* A set of numbers that is not empty has a least element, which Min picks.
LEMMA MinIsLeast ==
  ASSUME NEW S, S \subseteq Nat, S # {}
  PROVE  Min(S) \in S /\ \A b \in S : Min(S) <= b
<1>1. PICK x \in S : \A y \in S : ~ (<<y, x>> \in OpToRel(<, Nat))
  BY NatLessThanWellFounded, WFMin, Zenon
<1>2. \A y \in S : ~ (y < x)
  BY <1>1, Zenon DEF OpToRel
<1>3. \A y \in S : x <= y
  BY <1>2, x \in Nat
<1> QED
  BY <1>3 DEF Min

-----------------------------------------------------------------------------
(* Types, and the master.                                                  *)

LEMMA MasterInvInit == Init => MasterInv
<1> SUFFICES ASSUME Init PROVE MasterInv
  OBVIOUS
<1>1. age \in [Nodes -> 0..NoEntry] /\ age[Master] = 0
  BY DataNodesAssumption DEF Init, NoEntry
<1>3. up[Master]
  BY DataNodesAssumption DEF Init
<1>2. up \in [Nodes -> BOOLEAN] /\ disk \in [Nodes -> SUBSET Blocks] /\ starts \in 0..MaxStarts
  BY DataNodesAssumption DEF Init
<1> QED
  BY <1>1, <1>2, <1>3, DataNodesAssumption
  DEF Init, MasterInv, TypeOK, MasterLives, WritesReachMaster, MasterHasAll

\* The master has been heard of within two seconds, ...
LEMMA MasterAge ==
  ASSUME MasterInv
  PROVE  Master \in Nodes /\ age[Master] \in 0..NoEntry /\ age[Master] < Dead
<1>1. Master \in Nodes /\ Late \in 0..1
  BY DataNodesAssumption
<1>2. age[Master] \in 0..NoEntry
  BY <1>1 DEF MasterInv, TypeOK
<1>3. age[Master] <= Late + 1
  BY DEF MasterInv, MasterLives
<1> QED
  BY <1>1, <1>2, <1>3 DEF Dead, NoEntry

\* ... and so it is always listed, and every write is located at it.
LEMMA MasterListed == ASSUME MasterInv PROVE Master \in GetDatanodes
BY MasterAge DEF GetDatanodes, Known, Dead, NoEntry

LEMMA HeartbeatStep ==
  ASSUME MasterInv, heartbeatCount \/ \E d \in Nodes : DatanodeHeartbeat(d)
  PROVE  MasterInv'
<1> USE DataNodesAssumption
    DEF MasterInv, TypeOK, MasterLives, WritesReachMaster, MasterHasAll
<1>1. CASE heartbeatCount
  <2>1. Master \in Known /\ age[Master] <= Late
    <3>1. Master \in Known
      BY MasterListed DEF GetDatanodes
    <3> QED
      BY <1>1, <3>1, Zenon DEF heartbeatCount
  <2>2. age' \in [Nodes -> 0..NoEntry] /\ age'[Master] <= Late + 1
    BY <1>1, <2>1 DEF heartbeatCount, Known, Dead, NoEntry
  <2> QED
    BY <1>1, <2>2 DEF heartbeatCount
<1>2. ASSUME NEW d \in Nodes, DatanodeHeartbeat(d) PROVE MasterInv'
  BY <1>2 DEF DatanodeHeartbeat, NoEntry
<1> QED
  BY <1>1, <1>2

LEMMA StopStep == ASSUME MasterInv, NEW d \in Nodes, Stop(d) PROVE MasterInv'
BY DEF MasterInv, TypeOK, MasterLives, WritesReachMaster, MasterHasAll, Stop

LEMMA RegisterStep ==
  ASSUME MasterInv, NEW d \in Nodes, RegisterOnNamenode(d) PROVE MasterInv'
<1> DEFINE th == [node |-> d, n |-> starts, at |-> 0, read |-> "no"]
<1>1. th \in Thread /\ th.node # Master /\ th.read = "no"
  BY DataNodesAssumption DEF MasterInv, TypeOK, MasterLives, RegisterOnNamenode, Thread
<1> HIDE DEF th
<1>2. threads' = threads \cup {th}
  BY DEF RegisterOnNamenode, th
<1> QED
  BY <1>1, <1>2, DataNodesAssumption
  DEF MasterInv, TypeOK, MasterLives, WritesReachMaster, MasterHasAll, RegisterOnNamenode

\* The next block of an iterator is a block that was remembered.
LEMMA NextBlock ==
  ASSUME TypeOK, NEW th \in threads, Ahead(th) # {}
  PROVE  /\ Min(Ahead(th)) \in Ahead(th)
         /\ \A b \in Ahead(th) : Min(Ahead(th)) <= b
BY MinIsLeast, DataNodesAssumption DEF TypeOK, Ahead

\* What a registration does to its thread.
LEMMA ThreadTypes ==
  ASSUME MasterInv, NEW th \in threads, NEW next, Become(th, next),
         next \in Thread, next.node = th.node, next.read = "no" \/ next.at \in Blocks
  PROVE  /\ threads' \subseteq Thread
         /\ \A t \in threads' : t.node # Master /\ (t.read = "no" \/ t.at \in Blocks)
BY DEF MasterInv, TypeOK, MasterLives, Become

LEMMA ReadBlockType ==
  ASSUME MasterInv, NEW th \in threads, ReadBlock(th)
  PROVE  \E next \in Thread :
           /\ Become(th, next)
           /\ next.node = th.node /\ next.at = Min(Ahead(th)) /\ next.at \in Blocks
           /\ next.read = IF next.at \in disk[Master] THEN "data" ELSE "junk"
<1> DEFINE b == Min(Ahead(th))
           next == [th EXCEPT !.at = b, !.read = IF b \in disk[Master] THEN "data" ELSE "junk"]
<1>1. b \in Blocks
  BY NextBlock DEF ReadBlock, Ahead, MasterInv, TypeOK
<1>2. th \in Thread
  BY DEF MasterInv, TypeOK
<1>3. next \in Thread /\ next.node = th.node /\ next.at = b /\ b \in Blocks
      /\ next.read = IF b \in disk[Master] THEN "data" ELSE "junk"
  BY <1>1, <1>2 DEF Thread
<1>4. Become(th, next)
  BY DEF ReadBlock
<1> HIDE DEF next
<1> QED
  BY <1>3, <1>4

LEMMA TransferBlockType ==
  ASSUME MasterInv, NEW th \in threads, TransferBlock(th)
  PROVE  \E next \in Thread :
           Become(th, next) /\ next.node = th.node /\ next.at = th.at /\ next.read = "no"
<1>1. th \in Thread
  BY DEF MasterInv, TypeOK
<1>2. [th EXCEPT !.read = "no"] \in Thread
  BY <1>1 DEF Thread
<1> QED
  BY <1>1, <1>2 DEF TransferBlock, Thread

LEMMA RegisteringStep ==
  ASSUME MasterInv, NEW th \in threads, Registering(th) PROVE MasterInv'
<1> USE DEF MasterInv
<1>1. CASE ReadBlock(th)
  <2>1. /\ threads' \subseteq Thread
        /\ \A t \in threads' : t.node # Master /\ (t.read = "no" \/ t.at \in Blocks)
    BY <1>1, ReadBlockType, ThreadTypes
  <2> QED
    BY <1>1, <2>1 DEF TypeOK, MasterLives, WritesReachMaster, MasterHasAll, ReadBlock
<1>2. CASE TransferBlock(th)
  <2>1. /\ threads' \subseteq Thread
        /\ \A t \in threads' : t.node # Master /\ (t.read = "no" \/ t.at \in Blocks)
    BY <1>2, TransferBlockType, ThreadTypes
  <2>2. th.node \in Nodes \ {Master} /\ th.at \in Blocks
    BY <1>2 DEF TypeOK, MasterLives, Thread, TransferBlock
  <2>3. disk'[Master] = disk[Master]
    BY <1>2, <2>2, DataNodesAssumption DEF TypeOK, TransferBlock
  <2>4. disk' \in [Nodes -> SUBSET Blocks]
    BY <1>2, <2>2 DEF TypeOK, TransferBlock
  <2> QED
    BY <1>2, <2>1, <2>3, <2>4
    DEF TypeOK, MasterLives, WritesReachMaster, MasterHasAll, TransferBlock
<1>3. CASE EndRegister(th)
  <2>1. age' \in [Nodes -> 0..NoEntry] /\ age'[Master] = age[Master]
    BY <1>3 DEF TypeOK, MasterLives, EndRegister, Thread, NoEntry
  <2> QED
    BY <1>3, <2>1 DEF TypeOK, MasterLives, WritesReachMaster, MasterHasAll, EndRegister
<1> QED
  BY <1>1, <1>2, <1>3 DEF Registering

\* A new write is located at the listed nodes, the master among them.
LEMMA AppendStep == ASSUME MasterInv, AppendBlock PROVE MasterInv'
<1> DEFINE w == [block |-> Min(NewBlocks), locs |-> GetDatanodes,
                 left |-> GetDatanodes, at |-> "located"]
<1>1. Min(NewBlocks) \in Blocks
  BY MinIsLeast, DataNodesAssumption DEF AppendBlock, NewBlocks
<1>2. w \in Write /\ w.at = "located" /\ Master \in w.left
  BY <1>1, MasterListed DEF Write, GetDatanodes, Known
<1>3. writes' = writes \cup {w}
  BY DEF AppendBlock
<1> HIDE DEF w
<1> QED
  BY <1>2, <1>3
  DEF AppendBlock, MasterInv, TypeOK, MasterLives, WritesReachMaster, MasterHasAll

\* A step of a write leaves the others alone and goes on with its own, if at all.
LEMMA WritesAfter ==
  ASSUME MasterInv, NEW w \in writes, NEW next \in Write,
         writes' \subseteq (writes \ {w}) \cup {next},
         writtenBlocks \subseteq writtenBlocks', disk[Master] \subseteq disk'[Master],
         next.at # "located" => next.block \in writtenBlocks',
         Master \in next.left \/ next.block \in disk'[Master]
  PROVE  writes' \subseteq Write /\ WritesReachMaster'
BY DEF MasterInv, TypeOK, WritesReachMaster

LEMMA InsertStep == ASSUME MasterInv, NEW w \in writes, InsertBlock(w) PROVE MasterInv'
<1> DEFINE next == [w EXCEPT !.at = "added"]
<1>1. w \in Write
  BY DEF MasterInv, TypeOK
<1>2. next \in Write /\ next.block = w.block /\ next.left = w.left
  BY <1>1 DEF Write
<1>3. w.block \in Blocks
  BY <1>1 DEF Write
<1>4. writes' = (writes \ {w}) \cup {next} /\ writtenBlocks' = writtenBlocks \cup {w.block}
      /\ disk' = disk
  BY DEF InsertBlock
<1>5. Master \in w.left \/ w.block \in disk[Master]
  BY DEF MasterInv, WritesReachMaster
<1> HIDE DEF next
<1>6. writes' \subseteq Write /\ WritesReachMaster'
  BY <1>2, <1>4, <1>5, WritesAfter
<1> QED
  BY <1>3, <1>4, <1>6 DEF InsertBlock, MasterInv, TypeOK, MasterLives, MasterHasAll

LEMMA ConnectStep == ASSUME MasterInv, NEW w \in writes, ConnectToMirror(w) PROVE MasterInv'
<1> DEFINE next == [w EXCEPT !.at = "open"]
<1>1. w \in Write
  BY DEF MasterInv, TypeOK
<1>2. next \in Write /\ next.block = w.block /\ next.left = w.left
  BY <1>1 DEF Write
<1>3. writes' \subseteq (writes \ {w}) \cup {next} /\ writtenBlocks' = writtenBlocks /\ disk' = disk
  BY DEF ConnectToMirror
<1>4. w.block \in writtenBlocks /\ (Master \in w.left \/ w.block \in disk[Master])
  BY DEF MasterInv, WritesReachMaster, ConnectToMirror
<1> HIDE DEF next
<1>5. writes' \subseteq Write /\ WritesReachMaster'
  BY <1>2, <1>3, <1>4, WritesAfter
<1> QED
  BY <1>5 DEF ConnectToMirror, MasterInv, TypeOK, MasterLives, MasterHasAll

\* The master writes its copy when it is the next node; the client is answered
\* when no node is left.
LEMMA WriteStep == ASSUME MasterInv, NEW w \in writes, WriteBlock(w) PROVE MasterInv'
<1> DEFINE d == Min(w.left)
           rest == w.left \ {d}
           next == [w EXCEPT !.left = rest]
<1>1. w \in Write
  BY DEF MasterInv, TypeOK
<1>2. next \in Write /\ next.block = w.block /\ next.left = rest /\ next.at = w.at
  BY <1>1 DEF Write
<1>3. w.block \in Blocks /\ w.block \in writtenBlocks
      /\ (Master \in w.left \/ w.block \in disk[Master])
  BY <1>1 DEF Write, MasterInv, WritesReachMaster, WriteBlock
<1>4. /\ disk' = [disk EXCEPT ![d] = @ \cup {w.block}]
      /\ writes' = (writes \ {w}) \cup (IF rest = {} THEN {} ELSE {next})
      /\ complete' = IF rest = {} THEN complete \cup {w.block} ELSE complete
      /\ UNCHANGED <<up, starts, age, writtenBlocks, threads>>
  BY DEF WriteBlock
<1>5. w.left # {} => d \in w.left
  BY <1>1, MinIsLeast, DataNodesAssumption DEF Write
<1> HIDE DEF next, d
<1>6. disk' \in [Nodes -> SUBSET Blocks] /\ disk[Master] \subseteq disk'[Master]
  <2>1. disk \in [Nodes -> SUBSET Blocks]
    BY DEF MasterInv, TypeOK
  <2>2. disk' \in [Nodes -> SUBSET Blocks]
    BY <1>3, <1>4, <2>1
  <2>3. disk[Master] \subseteq disk'[Master]
    BY <1>4, <2>1, DataNodesAssumption
  <2> QED
    BY <2>2, <2>3
<1>7. Master \in rest \/ w.block \in disk'[Master]
  BY <1>3, <1>4, <1>6, DataNodesAssumption DEF MasterInv, TypeOK
<1>8. writes' \subseteq Write /\ WritesReachMaster'
  <2>1. writes' \subseteq (writes \ {w}) \cup {next}
    BY <1>4
  <2> QED
    BY <1>2, <1>3, <1>4, <1>6, <1>7, <2>1, WritesAfter
<1>9. complete' \subseteq writtenBlocks' /\ MasterHasAll'
  BY <1>3, <1>4, <1>6, <1>7 DEF MasterInv, TypeOK, MasterHasAll
<1> QED
  BY <1>4, <1>6, <1>8, <1>9 DEF MasterInv, TypeOK, MasterLives

LEMMA MasterInvStep == MasterInv /\ [Next]_vars => MasterInv'
<1> SUFFICES ASSUME MasterInv, [Next]_vars PROVE MasterInv'
  OBVIOUS
<1>1. CASE UNCHANGED vars
  BY <1>1 DEF vars, MasterInv, TypeOK, MasterLives, WritesReachMaster, MasterHasAll
<1>2. CASE Next
  BY <1>2, HeartbeatStep, StopStep, RegisterStep, RegisteringStep, AppendStep,
     InsertStep, ConnectStep, WriteStep DEF Next, Writing
<1> QED
  BY <1>1, <1>2

LEMMA MasterInvariant == Spec => []MasterInv
BY MasterInvInit, MasterInvStep, PTL DEF Spec

\* Every state of the datanodes and the NameNode is well typed, and only blocks
\* that were remembered are reported as written.
THEOREM TypeCorrect == Spec => []TypeOK
<1>1. MasterInv => TypeOK
  BY DEF MasterInv
<1> QED
  BY <1>1, MasterInvariant, PTL

\* The master has every block a client was told is written, whatever stops,
\* registers or is written at the same time.
THEOREM MasterIsComplete == Spec => []MasterHasAll
<1>1. MasterInv => MasterHasAll
  BY DEF MasterInv
<1> QED
  BY <1>1, MasterInvariant, PTL

-----------------------------------------------------------------------------
(* A node that has registered is up to date.                               *)

LEMMA CopyInvInit == Init => CopyInv
BY MasterInvInit DEF Init, CopyInv, WritesReachAll, NoJunk, Covered

\* Steps that leave threads, writes and blocks alone, and stops.
LEMMA CopyQuiet ==
  ASSUME CopyInv,
         \/ UNCHANGED <<up, disk, threads, writes, complete>>
         \/ \E d \in Nodes : Stop(d)
  PROVE  WritesReachAll' /\ NoJunk' /\ Covered'
<1> USE DEF CopyInv, WritesReachAll, NoJunk, Covered, Copied
<1>1. CASE UNCHANGED <<up, disk, threads, writes, complete>>
  BY <1>1
<1>2. ASSUME NEW d \in Nodes, Stop(d) PROVE WritesReachAll' /\ NoJunk' /\ Covered'
  <2>1. /\ writes' \subseteq writes /\ threads' = threads /\ complete' = complete
        /\ ~up'[d]
        /\ \A e \in Nodes \ {d} : up'[e] = up[e] /\ disk'[e] = disk[e]
    BY <1>2 DEF Stop, MasterInv, TypeOK
  <2>2. \A th \in threads : th.node \in Nodes
    BY DEF MasterInv, TypeOK, Thread
  <2> QED
    BY <2>1, <2>2
<1> QED
  BY <1>1, <1>2

\* A new thread has everything to copy and no block written meanwhile.
LEMMA CopyRegister ==
  ASSUME CopyInv, Apart, NEW d \in Nodes, RegisterOnNamenode(d)
  PROVE  WritesReachAll' /\ NoJunk' /\ Covered'
<1>0. PICK th : th = [node |-> d, n |-> starts, at |-> 0, read |-> "no"]
  OBVIOUS
<1>1. th.node = d /\ th.at = 0 /\ th.read = "no"
  BY <1>0
<1>2. /\ threads' = threads \cup {th} /\ writes = {} /\ writes' = {}
      /\ disk' = disk /\ complete' = complete
  BY <1>0 DEF RegisterOnNamenode
<1>3. \A e \in Nodes \ {d} : up'[e] = up[e]
  BY DEF RegisterOnNamenode, CopyInv, MasterInv, TypeOK
<1>4. complete \subseteq Nat \ {0}
  BY DataNodesAssumption DEF CopyInv, MasterInv, TypeOK
<1>5. Copied(th)'
  BY <1>1, <1>2, <1>4 DEF Copied
<1>6. WritesReachAll' /\ NoJunk'
  BY <1>1, <1>2 DEF CopyInv, WritesReachAll, NoJunk
<1>7. Covered'
  <2> SUFFICES ASSUME NEW e \in Nodes, up'[e]
               PROVE  \/ complete' \subseteq disk'[e]
                      \/ \E t \in threads' : t.node = e /\ Copied(t)'
    BY DEF Covered
  <2>1. CASE e = d
    BY <1>1, <1>2, <1>5, <2>1
  <2>2. CASE e # d
    BY <1>2, <1>3, <2>2 DEF CopyInv, Covered, Copied
  <2> QED
    BY <2>1, <2>2
<1> QED
  BY <1>6, <1>7

\* Iterators and written blocks are numbers.
LEMMA IteratorTypes ==
  ASSUME CopyInv
  PROVE  /\ complete \subseteq writtenBlocks /\ complete \subseteq Nat
         /\ \A th \in threads : th.at \in Nat
         /\ \A th \in Thread : th.at \in Nat
<1>1. complete \subseteq writtenBlocks /\ writtenBlocks \subseteq Blocks /\ threads \subseteq Thread
  BY DEF CopyInv, MasterInv, TypeOK
<1>2. Blocks \subseteq Nat
  BY DataNodesAssumption
<1>3. \A th \in Thread : th.at \in Nat
  <2> SUFFICES ASSUME NEW th \in Thread PROVE th.at \in Nat
    OBVIOUS
  <2>1. th.at \in Blocks \/ th.at = 0
    BY DEF Thread
  <2>2. 0 \in Nat
    OBVIOUS
  <2> QED
    BY <1>2, <2>1, <2>2, Zenon
<1>4. complete \subseteq Nat
  BY <1>1, <1>2
<1> QED
  BY <1>1, <1>3, <1>4

\* Reading a block moves the iterator past no block that was written: those in
\* between were never remembered.
LEMMA CopyRead ==
  ASSUME CopyInv, NEW th \in threads, ReadBlock(th)
  PROVE  WritesReachAll' /\ NoJunk' /\ Covered'
<1>1. PICK next \in Thread :
        /\ Become(th, next) /\ next.node = th.node /\ next.at = Min(Ahead(th))
        /\ next.read = IF next.at \in disk[Master] THEN "data" ELSE "junk"
  BY ReadBlockType DEF CopyInv
<1>2. threads' = (threads \ {th}) \cup {next} /\ th.read = "no" /\ Ahead(th) # {}
      /\ UNCHANGED <<up, disk, writes, complete>>
  BY <1>1 DEF Become, ReadBlock
<1>3. writes = {}
  BY DEF CopyInv, WritesReachAll
<1>4. WritesReachAll' /\ NoJunk'
  BY <1>1, <1>2, <1>3 DEF CopyInv, WritesReachAll, NoJunk, MasterInv, MasterHasAll
<1>5. ASSUME Copied(th) PROVE Copied(next)'
  <2> SUFFICES ASSUME NEW b \in complete, b < next.at PROVE b \in disk[th.node]
    BY <1>1, <1>2 DEF Copied
  <2>1. b \in writtenBlocks /\ b \in Nat /\ th.at \in Nat /\ next.at \in Nat
    BY IteratorTypes DEF Thread
  <2>2. b \notin Ahead(th)
    BY <1>1, <1>2, <2>1, NextBlock DEF CopyInv, MasterInv
  <2>3. b <= th.at
    BY <2>1, <2>2 DEF Ahead
  <2> QED
    BY <1>2, <1>5, <2>1, <2>3 DEF Copied
<1>6. Covered'
  <2> SUFFICES ASSUME NEW e \in Nodes, up'[e]
               PROVE  \/ complete' \subseteq disk'[e]
                      \/ \E t \in threads' : t.node = e /\ Copied(t)'
    BY DEF Covered
  <2>1. CASE complete \subseteq disk[e]
    BY <1>2, <2>1
  <2>2. ASSUME NEW t \in threads, t.node = e, Copied(t)
        PROVE  \E u \in threads' : u.node = e /\ Copied(u)'
    <3>1. CASE t = th
      BY <1>1, <1>2, <1>5, <2>2, <3>1
    <3>2. CASE t # th
      BY <1>2, <2>2, <3>2 DEF Copied
    <3> QED
      BY <3>1, <3>2
  <2> QED
    BY <1>2, <2>1, <2>2 DEF CopyInv, Covered
<1> QED
  BY <1>4, <1>6

\* A transfer adds a block, or takes one away that was not written.
LEMMA CopyTransfer ==
  ASSUME CopyInv, NEW th \in threads, TransferBlock(th)
  PROVE  WritesReachAll' /\ NoJunk' /\ Covered'
<1>1. PICK next \in Thread :
        Become(th, next) /\ next.node = th.node /\ next.at = th.at /\ next.read = "no"
  BY TransferBlockType DEF CopyInv
<1>2. threads' = (threads \ {th}) \cup {next} /\ th.read # "no"
      /\ UNCHANGED <<up, writes, complete>>
  BY <1>1 DEF Become, TransferBlock
<1>3. writes = {} /\ th.node \in Nodes /\ th \in Thread
  BY DEF CopyInv, WritesReachAll, MasterInv, TypeOK, Thread
<1>4. WritesReachAll' /\ NoJunk'
  BY <1>1, <1>2, <1>3 DEF CopyInv, WritesReachAll, NoJunk
<1>5. \A e \in Nodes : \A b \in complete : b \in disk[e] => b \in disk'[e]
  <2>1. th.read = "data" \/ th.at \notin complete
    BY <1>2, <1>3 DEF CopyInv, NoJunk, Thread
  <2> QED
    BY <1>3, <2>1 DEF TransferBlock, CopyInv, MasterInv, TypeOK
<1>6. up[th.node] /\ th.at \in complete => th.at \in disk'[th.node]
  <2>1. th.at \in complete => th.read = "data"
    BY <1>2, <1>3 DEF CopyInv, NoJunk, Thread
  <2> QED
    BY <1>3, <2>1 DEF TransferBlock, CopyInv, MasterInv, TypeOK
<1>7. Covered'
  <2> SUFFICES ASSUME NEW e \in Nodes, up'[e]
               PROVE  \/ complete' \subseteq disk'[e]
                      \/ \E t \in threads' : t.node = e /\ Copied(t)'
    BY DEF Covered
  <2>1. CASE complete \subseteq disk[e]
    BY <1>2, <1>5, <2>1
  <2>2. ASSUME NEW t \in threads, t.node = e, Copied(t)
        PROVE  \E u \in threads' : u.node = e /\ Copied(u)'
    <3>1. CASE t = th
      BY <1>1, <1>2, <1>5, <1>6, <2>2, <3>1 DEF Copied
    <3>2. CASE t # th
      BY <1>2, <1>5, <2>2, <3>2 DEF Copied
    <3> QED
      BY <3>1, <3>2
  <2> QED
    BY <1>2, <2>1, <2>2 DEF CopyInv, Covered
<1> QED
  BY <1>4, <1>7

\* A thread that ends has passed every block.
LEMMA CopyEnd ==
  ASSUME CopyInv, NEW th \in threads, EndRegister(th)
  PROVE  WritesReachAll' /\ NoJunk' /\ Covered'
<1>1. threads' = threads \ {th} /\ th.read = "no" /\ Ahead(th) = {}
      /\ UNCHANGED <<up, disk, writes, complete>>
  BY DEF EndRegister
<1>2. WritesReachAll' /\ NoJunk'
  BY <1>1 DEF CopyInv, WritesReachAll, NoJunk
<1>3. Copied(th) => complete \subseteq disk[th.node]
  <2> SUFFICES ASSUME Copied(th), NEW b \in complete PROVE b \in disk[th.node]
    OBVIOUS
  <2>1. b \in writtenBlocks /\ b \in Nat /\ th.at \in Nat
    BY IteratorTypes
  <2> QED
    BY <1>1, <2>1 DEF Copied, Ahead
<1>4. Covered'
  BY <1>1, <1>3 DEF CopyInv, Covered, Copied
<1> QED
  BY <1>2, <1>4

\* With Apart, a new write goes to every running node, and no thread is about.
LEMMA CopyAppend ==
  ASSUME CopyInv, Apart, AppendBlock
  PROVE  WritesReachAll' /\ NoJunk' /\ Covered'
<1>1. PICK w : w = [block |-> Min(NewBlocks), locs |-> GetDatanodes,
                    left |-> GetDatanodes, at |-> "located"]
  OBVIOUS
<1>2. writes' = writes \cup {w} /\ UNCHANGED <<up, disk, threads, complete>>
  BY <1>1 DEF AppendBlock
<1>3. threads = {} /\ \A d \in Nodes : up[d] => d \in w.left
  BY <1>1 DEF AppendBlock, Settled
<1> QED
  BY <1>2, <1>3 DEF CopyInv, WritesReachAll, NoJunk, Covered, Copied

\* A write goes on with every running node still to get the block or having it.
LEMMA CopyWrites ==
  ASSUME CopyInv, NEW w \in writes, Writing(w)
  PROVE  WritesReachAll' /\ NoJunk' /\ Covered'
<1>1. /\ threads = {} /\ w \in Write
      /\ \A d \in Nodes : up[d] => d \in w.left \/ w.block \in disk[d]
  BY DEF CopyInv, WritesReachAll, MasterInv, TypeOK
<1>2. \A d \in Nodes : up[d] => complete \subseteq disk[d]
  BY <1>1 DEF CopyInv, Covered
<1>3. CASE InsertBlock(w) \/ ConnectToMirror(w)
  <2>1. /\ \E u \in Write : /\ u.block = w.block /\ u.left = w.left
                           /\ writes' \subseteq (writes \ {w}) \cup {u}
        /\ UNCHANGED <<up, disk, threads, complete>>
    <3>1. \A at \in {"added", "open"} :
            /\ [w EXCEPT !.at = at] \in Write
            /\ [w EXCEPT !.at = at].block = w.block /\ [w EXCEPT !.at = at].left = w.left
      BY <1>1 DEF Write
    <3> QED
      BY <1>3, <3>1 DEF InsertBlock, ConnectToMirror
  <2> QED
    BY <1>1, <1>2, <2>1 DEF CopyInv, WritesReachAll, NoJunk, Covered
<1>4. CASE WriteBlock(w)
  <2>1. PICK d : d = Min(w.left)
    OBVIOUS
  <2>2. PICK next : next = [w EXCEPT !.left = w.left \ {d}]
    OBVIOUS
  <2>3. next.block = w.block /\ next.left = w.left \ {d}
    BY <1>1, <2>2 DEF Write
  <2>4. /\ disk' = [disk EXCEPT ![d] = @ \cup {w.block}]
        /\ writes' = (writes \ {w}) \cup (IF w.left \ {d} = {} THEN {} ELSE {next})
        /\ complete' = IF w.left \ {d} = {} THEN complete \cup {w.block} ELSE complete
        /\ UNCHANGED <<up, threads>>
    BY <1>4, <2>1, <2>2 DEF WriteBlock
  <2>5. disk \in [Nodes -> SUBSET Blocks]
    BY DEF CopyInv, MasterInv, TypeOK
  <2>6. \A e \in Nodes : disk[e] \subseteq disk'[e] /\ (e = d => w.block \in disk'[e])
    BY <2>4, <2>5
  <2>7. \A e \in Nodes : up[e] => e \in w.left \ {d} \/ w.block \in disk'[e]
    BY <1>1, <2>6
  <2>8. WritesReachAll' /\ NoJunk'
    BY <1>1, <2>3, <2>4, <2>6, <2>7 DEF CopyInv, WritesReachAll, NoJunk
  <2>9. \A e \in Nodes : up'[e] => complete' \subseteq disk'[e]
    BY <1>2, <2>4, <2>6, <2>7
  <2> QED
    BY <2>8, <2>9 DEF Covered
<1> QED
  BY <1>3, <1>4 DEF Writing

LEMMA CopyInvStep == ASSUME Apart PROVE CopyInv /\ [Next]_vars => CopyInv'
<1> SUFFICES ASSUME CopyInv, [Next]_vars PROVE CopyInv'
  OBVIOUS
<1>1. MasterInv'
  BY MasterInvStep DEF CopyInv
<1>2. WritesReachAll' /\ NoJunk' /\ Covered'
  <2>1. CASE UNCHANGED vars
    BY <2>1, CopyQuiet DEF vars
  <2>2. CASE heartbeatCount
    BY <2>2, CopyQuiet DEF heartbeatCount
  <2>3. ASSUME NEW d \in Nodes, DatanodeHeartbeat(d) \/ Stop(d) \/ RegisterOnNamenode(d)
        PROVE  WritesReachAll' /\ NoJunk' /\ Covered'
    <3>1. CASE DatanodeHeartbeat(d)
      BY <3>1, CopyQuiet DEF DatanodeHeartbeat
    <3>2. CASE Stop(d)
      BY <3>2, CopyQuiet
    <3>3. CASE RegisterOnNamenode(d)
      BY <3>3, CopyRegister
    <3> QED
      BY <2>3, <3>1, <3>2, <3>3
  <2>4. ASSUME NEW th \in threads, Registering(th)
        PROVE  WritesReachAll' /\ NoJunk' /\ Covered'
    BY <2>4, CopyRead, CopyTransfer, CopyEnd DEF Registering
  <2>5. CASE AppendBlock
    BY <2>5, CopyAppend
  <2>6. ASSUME NEW w \in writes, Writing(w) PROVE WritesReachAll' /\ NoJunk' /\ Covered'
    BY <2>6, CopyWrites
  <2> QED
    BY <2>1, <2>2, <2>3, <2>4, <2>5, <2>6 DEF Next
<1> QED
  BY <1>1, <1>2 DEF CopyInv

\* When blocks are written only while every running datanode is settled, a
\* running node that no thread is busy with has every block: what
\* RegisterDatanode is for.
THEOREM RegisteredIsUpToDate == ASSUME Apart PROVE Spec => []UpToDate
<1>1. CopyInv => UpToDate
  BY DEF CopyInv, Covered, UpToDate
<1>2. CopyInv /\ [Next]_vars => CopyInv'
  BY CopyInvStep
<1> QED
  BY <1>1, <1>2, CopyInvInit, PTL DEF Spec

=============================================================================
