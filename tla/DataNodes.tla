------------------------------ MODULE DataNodes ------------------------------
(***************************************************************************)
(* The datanodes of the HDFS (CSE/lab) and what the NameNode knows of      *)
(* them: heartbeats, the registration of a datanode that was restarted,    *)
(* the copying of every written block to it, and the pipeline in which a   *)
(* client writes a new block.  Every connection and every registration has *)
(* a thread of its own and none of the NameNode's maps has a mutex.        *)
(*                                                                         *)
(* One datanode, the master, runs beside the NameNode on its extent        *)
(* server; the others have extent servers of their own, which keep blocks  *)
(* in memory only.  The HDFS client is external.                           *)
(***************************************************************************)
EXTENDS Integers, FiniteSets, FiniteSetsExt

CONSTANTS
  Nodes,      \* the datanodes, as numbers in the order of their addresses
  Master,     \* master_datanode
  Blocks,     \* the block ids that may be allocated
  MaxStarts,  \* bound: registrations in all
  Late,       \* bound: seconds a running datanode's heartbeat may be late
  Apart       \* blocks are written only while every running datanode is settled

ASSUME DataNodesAssumption ==
  /\ IsFiniteSet(Nodes) /\ Nodes \subseteq Nat /\ Master \in Nodes
  /\ IsFiniteSet(Blocks) /\ Blocks \subseteq Nat \ {0}
  /\ MaxStarts \in Nat /\ Late \in 0..1 /\ Apart \in BOOLEAN

VARIABLES
  up,             \* up[d]: datanode d and its extent server run
  starts,         \* how many registrations there have been
  disk,           \* disk[d]: the blocks whose data d's extent server has
  age,            \* age[d]: heartbeatCounter - datanodes[d], or NoEntry
  writtenBlocks,  \* NameNode::writtenBlocks
  threads,        \* the _RegisterDatanode threads
  writes,         \* the blocks that clients are writing
  complete        \* the blocks whose writers were told of success

vars == <<up, starts, disk, age, writtenBlocks, threads, writes, complete>>

\* A registration thread: whom it serves, the block its iterator is at, and,
\* once that has been read from the master, whether the master had its data.
Thread == [node : Nodes, n : 0..MaxStarts, at : Blocks \cup {0}, read : {"no", "data", "junk"}]

\* A block being written: where it is to go and which nodes have yet to get it.
Write == [block : Blocks, locs : SUBSET Nodes, left : SUBSET Nodes,
          at : {"located", "added", "open"}]

\* Ages from 3 on are alike.
Dead == 3
NoEntry == 4

TypeOK ==
  /\ up \in [Nodes -> BOOLEAN]
  /\ starts \in 0..MaxStarts
  /\ disk \in [Nodes -> SUBSET Blocks]
  /\ age \in [Nodes -> 0..NoEntry]
  /\ writtenBlocks \subseteq Blocks
  /\ threads \subseteq Thread
  /\ writes \subseteq Write
  /\ complete \subseteq writtenBlocks

\* The NameNode and the master datanode run before the others are started.
Init ==
  /\ up = [d \in Nodes |-> d = Master]
  /\ starts = 0
  /\ disk = [d \in Nodes |-> {}]
  /\ age = [d \in Nodes |-> IF d = Master THEN 0 ELSE NoEntry]
  /\ writtenBlocks = {} /\ threads = {} /\ writes = {} /\ complete = {}

-----------------------------------------------------------------------------
(* Heartbeats.                                                             *)

Known == {d \in Nodes : age[d] # NoEntry}

\* Faulty variant: the list keeps the dead.
GetDatanodesAll == Known

\* NameNode::GetDatanodes: datanodes[d] > heartbeatCounter - 3.
GetDatanodes == {d \in Known : age[d] < Dead}

\* NameNode::heartbeatCount, once a second; so do the datanodes beat, and one
\* that runs is heard of at least every Late + 1 seconds.
heartbeatCount ==
  /\ \A d \in Known : up[d] => age[d] <= Late
  /\ age' = [d \in Nodes |-> IF d \in Known /\ age[d] < Dead THEN age[d] + 1 ELSE age[d]]
  /\ UNCHANGED <<up, starts, disk, writtenBlocks, threads, writes, complete>>

\* Faulty variant: a node that was taken for dead stays dead.
DatanodeHeartbeatLost(d) ==
  /\ up[d]
  /\ age' = IF age[d] = Dead THEN age ELSE [age EXCEPT ![d] = 0]
  /\ UNCHANGED <<up, starts, disk, writtenBlocks, threads, writes, complete>>

\* DataNode::heartbeat and NameNode::DatanodeHeartbeat: datanodes[id] gets the
\* counter, with or without an earlier entry.
DatanodeHeartbeat(d) ==
  /\ up[d]
  /\ age' = [age EXCEPT ![d] = 0]
  /\ UNCHANGED <<up, starts, disk, writtenBlocks, threads, writes, complete>>

-----------------------------------------------------------------------------
(* A datanode stops, starts and is brought up to date.                     *)

\* The datanode and its extent server are killed: its blocks are gone and the
\* pipelines it is part of break.
Stop(d) ==
  /\ up[d] /\ d # Master
  /\ up' = [up EXCEPT ![d] = FALSE]
  /\ disk' = [disk EXCEPT ![d] = {}]
  /\ writes' = {w \in writes : w.at = "located" \/ w.at = "added" \/ d \notin w.locs}
  /\ UNCHANGED <<starts, age, writtenBlocks, threads, complete>>

\* DataNode::init and NameNode::PBRegisterDatanode: a thread of its own is to
\* bring the node up to date, and the answer does not wait for it.
RegisterOnNamenode(d) ==
  /\ ~up[d] /\ starts < MaxStarts
  /\ Apart => writes = {}
  /\ up' = [up EXCEPT ![d] = TRUE]
  /\ starts' = starts + 1
  /\ threads' = threads \cup {[node |-> d, n |-> starts, at |-> 0, read |-> "no"]}
  /\ UNCHANGED <<disk, age, writtenBlocks, writes, complete>>

Become(th, next) == threads' = (threads \ {th}) \cup {next}

\* What is left of writtenBlocks, an ordered set, for the thread's iterator.
Ahead(th) == {b \in writtenBlocks : b > th.at}

\* Faulty variant: the block after the next one is taken.
ReadBlockSkip(th) ==
  /\ th.read = "no" /\ Ahead(th) # {}
  /\ Become(th, [th EXCEPT !.at = Max(Ahead(th)),
                           !.read = IF Max(Ahead(th)) \in disk[Master] THEN "data" ELSE "junk"])
  /\ UNCHANGED <<up, starts, disk, age, writtenBlocks, writes, complete>>

\* NameNode::RegisterDatanode and ReplicateBlock: the next block; the master
\* reads it in DataNode::_TransferBlock, and finds its data only once the
\* client has written it.
ReadBlock(th) ==
  /\ th.read = "no" /\ Ahead(th) # {}
  /\ LET b == Min(Ahead(th))
     IN  Become(th, [th EXCEPT !.at = b, !.read = IF b \in disk[Master] THEN "data" ELSE "junk"])
  /\ UNCHANGED <<up, starts, disk, age, writtenBlocks, writes, complete>>

\* The end of _TransferBlock: the new node writes what the master has read.  A
\* transfer to a node that is down fails, and RegisterDatanode goes on.
TransferBlock(th) ==
  /\ th.read # "no"
  /\ Become(th, [th EXCEPT !.read = "no"])
  /\ disk' = [disk EXCEPT ![th.node] =
                IF ~up[th.node] THEN @
                ELSE IF th.read = "data" THEN @ \cup {th.at} ELSE @ \ {th.at}]
  /\ UNCHANGED <<up, starts, age, writtenBlocks, writes, complete>>

\* The end of RegisterDatanode: insert leaves an entry that is there alone.
EndRegister(th) ==
  /\ th.read = "no" /\ Ahead(th) = {}
  /\ threads' = threads \ {th}
  /\ age' = IF age[th.node] = NoEntry THEN [age EXCEPT ![th.node] = 0] ELSE age
  /\ UNCHANGED <<up, starts, disk, writtenBlocks, writes, complete>>

-----------------------------------------------------------------------------
(* A client writes a block.                                                *)

\* No registration is under way and every running datanode is listed.  A node
\* that was listed before it died stays unlisted after EndRegister until it
\* beats, and a block located in that time misses it.
Settled == threads = {} /\ \A d \in Nodes : up[d] => d \in GetDatanodes

NewBlocks == Blocks \ (writtenBlocks \cup {w.block : w \in writes})

\* NameNode::AppendBlock: the extent server's next block, to be written to
\* every datanode there is ...
AppendBlock ==
  /\ NewBlocks # {}
  /\ Apart => Settled
  /\ writes' = writes \cup {[block |-> Min(NewBlocks), locs |-> GetDatanodes,
                             left |-> GetDatanodes, at |-> "located"]}
  /\ UNCHANGED <<up, starts, disk, age, writtenBlocks, threads, complete>>

\* Faulty variant: the block is not remembered.
InsertBlockNot(w) ==
  /\ w.at = "located"
  /\ writes' = (writes \ {w}) \cup {[w EXCEPT !.at = "added"]}
  /\ UNCHANGED <<up, starts, disk, age, writtenBlocks, threads, complete>>

\* ... and to be copied to every node that registers.
InsertBlock(w) ==
  /\ w.at = "located"
  /\ writtenBlocks' = writtenBlocks \cup {w.block}
  /\ writes' = (writes \ {w}) \cup {[w EXCEPT !.at = "added"]}
  /\ UNCHANGED <<up, starts, disk, age, threads, complete>>

\* DataNode::ConnectToMirror, from node to node: one that cannot be reached
\* fails the write.
ConnectToMirror(w) ==
  /\ w.at = "added"
  /\ writes' = (writes \ {w}) \cup
                 (IF \A d \in w.locs : up[d] THEN {[w EXCEPT !.at = "open"]} ELSE {})
  /\ UNCHANGED <<up, starts, disk, age, writtenBlocks, threads, complete>>

\* Faulty variant: the client is answered before the mirrors have written.
WriteBlockEarly(w) ==
  /\ w.at = "open"
  /\ LET d == Min(w.left)
         rest == w.left \ {d}
     IN  /\ disk' = [disk EXCEPT ![d] = @ \cup {w.block}]
         /\ writes' = (writes \ {w}) \cup (IF rest = {} THEN {} ELSE {[w EXCEPT !.left = rest]})
         /\ complete' = complete \cup {w.block}
  /\ UNCHANGED <<up, starts, age, writtenBlocks, threads>>

\* DataNode::_WriteBlock: a node writes the block and sends it on; the last
\* one's answer goes back to the client.
WriteBlock(w) ==
  /\ w.at = "open"
  /\ LET d == Min(w.left)
         rest == w.left \ {d}
     IN  /\ disk' = [disk EXCEPT ![d] = @ \cup {w.block}]
         /\ writes' = (writes \ {w}) \cup (IF rest = {} THEN {} ELSE {[w EXCEPT !.left = rest]})
         /\ complete' = IF rest = {} THEN complete \cup {w.block} ELSE complete
  /\ UNCHANGED <<up, starts, age, writtenBlocks, threads>>

-----------------------------------------------------------------------------
Registering(th) == ReadBlock(th) \/ TransferBlock(th) \/ EndRegister(th)
Writing(w) == InsertBlock(w) \/ ConnectToMirror(w) \/ WriteBlock(w)

Next ==
  \/ heartbeatCount
  \/ \E d \in Nodes : DatanodeHeartbeat(d) \/ Stop(d) \/ RegisterOnNamenode(d)
  \/ \E th \in threads : Registering(th)
  \/ AppendBlock
  \/ \E w \in writes : Writing(w)

Spec == Init /\ [][Next]_vars

\* The clock ticks, running datanodes beat and threads go on.  Nothing makes a
\* datanode start or a client write.
Fairness ==
  /\ WF_vars(heartbeatCount)
  /\ \A d \in Nodes : WF_vars(DatanodeHeartbeat(d))
  /\ WF_vars(\E th \in threads : Registering(th))

FairSpec == Spec /\ Fairness

-----------------------------------------------------------------------------
(* Properties.                                                             *)

\* Whatever stops, starts or is written, the master has every block that a
\* client was told is written: it is always among the datanodes listed.
MasterHasAll == complete \subseteq disk[Master]

\* "register a newly started datanode and update its blocks" (RegisterDatanode):
\* a running node that no thread is busy with has every block.
UpToDate ==
  \A d \in Nodes : up[d] /\ (\A th \in threads : th.node # d) => complete \subseteq disk[d]

\* A datanode that dfsadmin reports can be read from (test-lab4-part3.sh waits
\* for data2 in the report, then: "Couldn't read file back from data2").
ListedHasBlocks ==
  \A d \in GetDatanodes : up[d] => complete \subseteq disk[d]

\* A datanode that stays down is dropped from the list (test-lab4-part3.sh:
\* "death of data1 is not detected"), although the thread that brought it up
\* to date may enter it after it has died.
DeathIsDetected == \A d \in Nodes : ~up[d] ~> (up[d] \/ d \notin GetDatanodes)

\* A datanode that is started gets every block and is listed, unless it stops.
Recovers ==
  \A d \in Nodes : up[d] ~> (~up[d] \/ (d \in GetDatanodes /\ complete \subseteq disk[d]))

=============================================================================
