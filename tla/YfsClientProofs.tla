-------------------------- MODULE YfsClientProofs --------------------------
(***************************************************************************)
(* Machine-checked proofs about YfsClient, for every set of clients, of    *)
(* names and of inodes, and every choice of what is asked of each name.    *)
(***************************************************************************)
EXTENDS YfsClient, TLAPS

\* What the two lock labs leave open (Lab-2.html): creates in two directories race for
\* an inode, and unlink does not lock the file that it removes.
OneDirectory == Dirs = {1}
NamesApart ==
  \A n \in Names : "unlink" \in OpsOn[n] => OpsOn[n] \cap {"write", "setattr"} = {}

Resting == {"unmounted", "idle"}
Making == {"lookup", "scan", "alloc", "getdir", "putdir", "putlink"}
Unlinking == {"find", "remove", "erase"}
Writing == {"get", "put"}
Working == Making \cup Unlinking \cup Writing \cup {"release"}
IsWrite(c) == req[c].op \in {"write", "setattr"}

-----------------------------------------------------------------------------
(* The invariant for any directories.                                       *)

\* The contents of a directory: entries, none of them for a directory that requests name.
IsDirData(data) == data \subseteq Entries /\ \A e \in data : e.ino \notin Dirs

\* Nobody removes or overwrites a directory but with a directory's contents.
DirsStay ==
  \A d \in Dirs : d \in Live /\ extent[d].type = "dir" /\ IsDirData(extent[d].data)

\* A client is where its operation takes it, with an inode that is no directory.
AtItsOperation(c) ==
  /\ pc[c] \notin Resting => req[c].name \in Names /\ req[c].op \in OpsOn[req[c].name]
  /\ pc[c] \in Making => req[c].op \in Makes
  /\ pc[c] = "putlink" => req[c].op = "symlink"
  /\ pc[c] \in Unlinking => req[c].op = "unlink"
  /\ pc[c] \in Writing => IsWrite(c)
  /\ IsWrite(c) => req[c].ino \notin Dirs
  /\ pc[c] \in {"alloc", "getdir", "putdir", "putlink", "remove", "erase"} => ino[c] \notin Dirs
  /\ pc[c] \in {"putdir", "remove", "erase"} => IsDirData(buf[c])
  /\ pc[c] = "release" <=> res[c] # "none"

\* A client at work has the lock of its operation.
HasLock(c) == pc[c] \in Working => owners[LockOf(c)] = {c}

ClientInv(c) == AtItsOperation(c) /\ HasLock(c)

BaseInv == TypeOK /\ DirsStay /\ \A c \in Clients : ClientInv(c)

-----------------------------------------------------------------------------
(* The invariant for one directory.                                         *)

Root == extent[1].data
EntryOf(c) == [name |-> req[c].name, ino |-> ino[c]]
Erasing(e) == \E c \in Clients : pc[c] = "erase" /\ EntryOf(c) = e

\* In the root, names and inodes are there once, and what an entry leads to exists until
\* the client that removed it erases the entry.
RootIsSound ==
  /\ \A e, g \in Root : e.name = g.name \/ e.ino = g.ino => e = g
  /\ \A e \in Root : e.ino \in Live \/ Erasing(e)

Named(i) == \E e \in Root : e.ino = i
NoneForgotten ==
  \A i \in Live \ {1} : Named(i) \/ \E c \in Clients : ino[c] = i /\ pc[c] \in {"getdir", "putdir"}

\* What a client that has the root's lock knows of the root.
KnowsRoot(c) ==
  /\ pc[c] \in {"scan", "alloc", "getdir", "putdir"} => EntriesFor(Root, req[c].name) = {}
  /\ pc[c] = "alloc" => ino[c] \notin Live
  /\ pc[c] \in {"alloc", "getdir", "putdir"} => ~Named(ino[c])
  /\ pc[c] \in {"getdir", "putdir", "putlink"} => ino[c] \in Live
  /\ pc[c] \in {"putlink", "remove", "erase"} => EntryOf(c) \in Root
  /\ pc[c] \in {"putdir", "remove", "erase"} => buf[c] = Root
  /\ pc[c] = "remove" => ino[c] \in Live
  /\ pc[c] = "erase" => ino[c] \notin Live

RootInv ==
  BaseInv /\ RootIsSound /\ NoneForgotten /\ \A c \in Clients : KnowsRoot(c)

-----------------------------------------------------------------------------
(* The invariant when what is written is not unlinked.                      *)

\* A link without a target is one that its client is about to fill.
LinksHaveTargets ==
  \A e \in Root : e.ino \in Live /\ extent[e.ino].type = "symlink" /\ extent[e.ino].data = {} =>
    \E c \in Clients : pc[c] = "putlink" /\ ino[c] = e.ino

MarksOwn ==
  \A e \in Root : e.ino \in Live => \A m \in extent[e.ino].data : m \in Marks /\ m.name = e.name

\* A new inode stays empty until its client is done with it, and the file that a client
\* writes keeps its name and its inode.
KnowsFile(c) ==
  /\ pc[c] \in {"getdir", "putdir", "putlink"} =>
       extent[ino[c]] = [type |-> TypeOf(req[c].op), data |-> {}]
  /\ pc[c] \notin Resting /\ IsWrite(c) =>
       /\ [name |-> req[c].name, ino |-> req[c].ino] \in Root
       /\ req[c].ino \in Live /\ extent[req[c].ino].type = "file"
  /\ pc[c] = "put" => buf[c] = extent[req[c].ino].data

FilesInv ==
  RootInv /\ LinksHaveTargets /\ MarksOwn /\ \A c \in Clients : KnowsFile(c)
-----------------------------------------------------------------------------
(* Files, and what a put does to them.                                      *)

LEMMA FileParts ==
  ASSUME NEW f \in Files, NEW data \in SUBSET (Entries \cup Marks)
  PROVE  /\ f.type \in {"dir", "file", "symlink"} /\ f.data \in SUBSET (Entries \cup Marks)
         /\ [f EXCEPT !.data = data] \in Files
         /\ [f EXCEPT !.data = data] = [type |-> f.type, data |-> data]
BY DEF Files

LEMMA LiveFiles ==
  ASSUME TypeOK
  PROVE  \A i \in Inums : i \in Live <=> extent[i] \in Files
BY YfsAssumption DEF TypeOK, Live

LEMMA DirsAreInums == Dirs \subseteq Inums /\ 1 \in Dirs /\ 1 \in Inums
BY YfsAssumption DEF Inums

LEMMA PutParts ==
  ASSUME TypeOK, NEW i \in Inums, NEW data \in SUBSET (Entries \cup Marks), Put(i, data)
  PROVE  /\ extent' \in [Inums -> {NoFile} \cup Files]
         /\ Live' = Live
         /\ \A j \in Inums : j # i => extent'[j] = extent[j]
         /\ i \in Live => extent'[i] = [type |-> extent[i].type, data |-> data]
         /\ i \notin Live => extent' = extent
<1>1. CASE i \in Live
  <2>1. extent[i] \in Files
    BY <1>1, LiveFiles
  <2> PICK f : f = [extent[i] EXCEPT !.data = data]
    OBVIOUS
  <2>2. f \in Files /\ f = [type |-> extent[i].type, data |-> data]
    BY <2>1, FileParts
  <2>3. extent' = [extent EXCEPT ![i] = f]
    BY <1>1 DEF Put
  <2>4. extent \in [Inums -> {NoFile} \cup Files]
    BY DEF TypeOK
  <2>5. f # NoFile
    BY <2>2, YfsAssumption
  <2> QED
    BY ONLY <1>1, <2>2, <2>3, <2>4, <2>5 DEF Live
<1>2. CASE i \notin Live
  BY <1>2 DEF Put, Live, TypeOK
<1> QED
  BY <1>1, <1>2

LEMMA PutKeepsDirs ==
  ASSUME TypeOK, DirsStay, NEW i \in Inums, NEW data \in SUBSET (Entries \cup Marks),
         Put(i, data), i \in Dirs => IsDirData(data)
  PROVE  DirsStay'
<1> SUFFICES ASSUME NEW d \in Dirs
             PROVE  d \in Live' /\ extent'[d].type = "dir" /\ IsDirData(extent'[d].data)
  BY DEF DirsStay, IsDirData
<1>1. d \in Inums /\ d \in Live /\ extent[d].type = "dir" /\ IsDirData(extent[d].data)
  BY DirsAreInums DEF DirsStay
<1>2. d \in Live'
  BY <1>1, PutParts
<1>3. CASE d = i
  <2>1. extent'[i] = [type |-> extent[i].type, data |-> data]
    BY <1>1, <1>3, PutParts
  <2> QED
    BY <1>1, <1>2, <1>3, <2>1
<1>4. CASE d # i
  <2>1. extent'[d] = extent[d]
    BY <1>1, <1>4, PutParts
  <2> QED
    BY <1>1, <1>2, <2>1
<1> QED
  BY <1>3, <1>4

-----------------------------------------------------------------------------
(* What every step of a client leaves alone.                                *)

Same(d) == /\ pc'[d] = pc[d] /\ req'[d] = req[d] /\ buf'[d] = buf[d]
           /\ ino'[d] = ino[d] /\ res'[d] = res[d]

LEMMA OthersStay ==
  ASSUME TypeOK, NEW c \in Clients, Mount(c) \/ Request(c) \/ Step(c)
  PROVE  \A d \in Clients \ {c} : Same(d)
<1> USE DEF TypeOK, Same
<1>1. CASE Mount(c)
  BY <1>1 DEF Mount
<1>2. CASE Request(c)
  BY <1>2 DEF Request
<1>3. CASE Acquire(c) \/ Lookup(c) \/ Scan(c) \/ Alloc(c) \/ GetDir(c) \/ Remove(c) \/ GetFile(c)
  BY <1>3 DEF Acquire, Lookup, Scan, Alloc, GetDir, Remove, GetFile, Goto
<1>4. CASE PutDir(c)
  BY <1>4 DEF PutDir, Goto
<1>5. CASE PutLink(c) \/ Erase(c) \/ PutFile(c)
  BY <1>5 DEF PutLink, Erase, PutFile, Goto
<1>6. CASE Find(c)
  BY <1>6 DEF Find, Goto
<1>7. CASE Release(c)
  BY <1>7 DEF Release, Goto
<1> QED
  BY <1>1, <1>2, <1>3, <1>4, <1>5, <1>6, <1>7 DEF Step

\* Only Acquire and Release touch the locks, and never one of another client.
LEMMA OthersKeepLocks ==
  ASSUME TypeOK, NEW c \in Clients, Mount(c) \/ Request(c) \/ Step(c), HasLock(c),
         NEW d \in Clients \ {c}, ClientInv(d)
  PROVE  ClientInv(d)'
<1>1. Same(d)
  BY OthersStay
<1>2. AtItsOperation(d)'
  BY <1>1 DEF ClientInv, AtItsOperation, IsWrite, IsDirData, Same
<1>3. LockOf(d)' = LockOf(d)
  BY <1>1 DEF LockOf, Same
<1>4. SUFFICES ASSUME pc[d] \in Working, owners[LockOf(d)] = {d}
               PROVE  owners'[LockOf(d)] = {d}
  BY <1>1, <1>2, <1>3 DEF ClientInv, HasLock, Same
<1>5. CASE UNCHANGED owners
  BY <1>4, <1>5
<1>6. CASE Acquire(c)
  <2>1. owners[LockOf(c)] = {} /\ owners' = [owners EXCEPT ![LockOf(c)] = {c}]
    BY <1>6 DEF Acquire, Lock!Grant
  <2> QED
    BY <1>4, <2>1
<1>7. CASE Release(c)
  <2>1. owners[LockOf(c)] = {c} /\ owners' = [owners EXCEPT ![LockOf(c)] = {}]
    BY <1>7 DEF Release, Lock!GiveBack
  <2> QED
    BY <1>4, <2>1
<1> QED
  BY <1>5, <1>6, <1>7 DEF Mount, Request, Step, Lookup, Scan, Alloc, GetDir, PutDir, PutLink, Find,
                          Remove, Erase, GetFile, PutFile
-----------------------------------------------------------------------------
(* One step keeps BaseInv.                                                  *)

LEMMA BaseInit == Init => BaseInv
<1> SUFFICES ASSUME Init PROVE BaseInv
  OBVIOUS
<1>1. ASSUME NEW i \in Inums
      PROVE  extent[i] = IF i \in Dirs THEN [type |-> "dir", data |-> {}] ELSE NoFile
  BY DEF Init
<1>2. [type |-> "dir", data |-> {}] \in Files
  BY DEF Files
<1>3. TypeOK
  <2>1. extent \in [Inums -> {NoFile} \cup Files]
    BY <1>1, <1>2 DEF Init
  <2> QED
    BY <2>1, DirsAreInums DEF Init, TypeOK, Labels, Requests
<1>4. DirsStay
  BY <1>1, <1>2, LiveFiles, <1>3, DirsAreInums DEF DirsStay, IsDirData
<1>5. \A c \in Clients : ClientInv(c)
  BY DEF Init, ClientInv, AtItsOperation, HasLock, IsWrite, NoRequest, Resting, Making, Unlinking,
         Writing, Working
<1> QED
  BY <1>3, <1>4, <1>5 DEF BaseInv

\* What the client that steps must keep; the others keep theirs by OthersKeepLocks.
LEMMA BaseFrom ==
  ASSUME BaseInv, NEW c \in Clients, Mount(c) \/ Request(c) \/ Step(c),
         TypeOK', DirsStay', ClientInv(c)'
  PROVE  BaseInv'
<1>1. \A d \in Clients \ {c} : ClientInv(d)'
  BY OthersKeepLocks DEF BaseInv, ClientInv
<1> QED
  BY <1>1 DEF BaseInv

LEMMA MountBase == ASSUME BaseInv, NEW c \in Clients, Mount(c) PROVE BaseInv'
<1> USE DEF BaseInv
<1>1. Put(1, {}) /\ pc[c] = "unmounted" /\ pc' = [pc EXCEPT ![c] = "idle"]
      /\ UNCHANGED <<owners, req, buf, ino, res>>
  BY DEF Mount
<1>2. DirsStay'
  BY <1>1, PutKeepsDirs, DirsAreInums DEF IsDirData
<1>3. TypeOK'
  <2>1. extent' \in [Inums -> {NoFile} \cup Files]
    BY <1>1, PutParts, DirsAreInums
  <2> QED
    BY <1>1, <2>1 DEF TypeOK, Labels
<1>4. pc'[c] = "idle"
  BY <1>1 DEF TypeOK
<1>5. ClientInv(c)'
  BY <1>1, <1>4 DEF ClientInv, AtItsOperation, HasLock, IsWrite, Resting, Making, Unlinking,
                    Writing, Working
<1> QED
  BY <1>2, <1>3, <1>5, BaseFrom

\* What the kernel asks for, of a name it found or did not find.
LEMMA Requested ==
  ASSUME BaseInv, NEW c \in Clients, Request(c)
  PROVE  \E n \in Names, d \in Dirs, i \in Inums : \E op \in OpsOn[n] :
           /\ req' = [req EXCEPT ![c] = [op |-> op, dir |-> d, name |-> n, ino |-> i]]
           /\ [op |-> op, dir |-> d, name |-> n, ino |-> i] \in Requests
           /\ op \notin Makes =>
                /\ i \in Found(d, n) /\ i \notin Dirs
                /\ extent[i].type = "file" \/ (extent[i].type = "symlink" /\ op = "unlink")
<1>1. PICK n \in Names, d \in Dirs : \E op \in OpsOn[n] :
       \/ /\ op \in Makes
          /\ req' = [req EXCEPT ![c] = [op |-> op, dir |-> d, name |-> n, ino |-> 1]]
       \/ /\ op \notin Makes
          /\ \E i \in Found(d, n) :
               /\ extent[i].type = "file" \/ (extent[i].type = "symlink" /\ op = "unlink")
               /\ req' = [req EXCEPT ![c] = [op |-> op, dir |-> d, name |-> n, ino |-> i]]
  BY DEF Request
<1>2. PICK op \in OpsOn[n] :
       \/ /\ op \in Makes
          /\ req' = [req EXCEPT ![c] = [op |-> op, dir |-> d, name |-> n, ino |-> 1]]
       \/ /\ op \notin Makes
          /\ \E i \in Found(d, n) :
               /\ extent[i].type = "file" \/ (extent[i].type = "symlink" /\ op = "unlink")
               /\ req' = [req EXCEPT ![c] = [op |-> op, dir |-> d, name |-> n, ino |-> i]]
  BY <1>1
<1>3. op \in UNION {OpsOn[m] : m \in Names}
  OBVIOUS
<1>4. \A i \in Inums : [op |-> op, dir |-> d, name |-> n, ino |-> i] \in Requests
  BY <1>3 DEF Requests
<1>5. CASE op \in Makes
  BY <1>2, <1>4, <1>5, DirsAreInums
<1>6. CASE op \notin Makes
  <2>1. PICK i \in Found(d, n) :
          /\ extent[i].type = "file" \/ (extent[i].type = "symlink" /\ op = "unlink")
          /\ req' = [req EXCEPT ![c] = [op |-> op, dir |-> d, name |-> n, ino |-> i]]
    BY <1>2, <1>6
  <2>2. i \in Inums /\ i \notin Dirs
    BY DEF Found, EntriesFor, Get, BaseInv, DirsStay, IsDirData, Live
  <2> QED
    BY <1>4, <1>6, <2>1, <2>2
<1> QED
  BY <1>5, <1>6

LEMMA RequestBase == ASSUME BaseInv, NEW c \in Clients, Request(c) PROVE BaseInv'
<1> USE DEF BaseInv
<1>1. PICK n \in Names, d \in Dirs, i \in Inums : \E op \in OpsOn[n] :
           /\ req' = [req EXCEPT ![c] = [op |-> op, dir |-> d, name |-> n, ino |-> i]]
           /\ [op |-> op, dir |-> d, name |-> n, ino |-> i] \in Requests
           /\ op \notin Makes => i \notin Dirs
  BY Requested
<1>2. PICK op \in OpsOn[n] :
           /\ req' = [req EXCEPT ![c] = [op |-> op, dir |-> d, name |-> n, ino |-> i]]
           /\ [op |-> op, dir |-> d, name |-> n, ino |-> i] \in Requests
           /\ op \notin Makes => i \notin Dirs
  BY <1>1
<1>3. pc[c] = "idle" /\ pc' = [pc EXCEPT ![c] = "acquire"]
      /\ UNCHANGED <<extent, owners, buf, ino, res>>
  BY DEF Request
<1>4. TypeOK'
  BY <1>2, <1>3 DEF TypeOK, Labels
<1>5. DirsStay'
  BY <1>3 DEF DirsStay, Live
<1>6. pc'[c] = "acquire" /\ req'[c] = [op |-> op, dir |-> d, name |-> n, ino |-> i]
  BY <1>2, <1>3 DEF TypeOK
<1>7. ClientInv(c)'
  <2>1. AtItsOperation(c)'
    BY <1>2, <1>3, <1>6 DEF ClientInv, AtItsOperation, IsWrite, Resting, Making, Unlinking, Writing,
                            Makes
  <2>2. HasLock(c)'
    BY <1>6 DEF HasLock, Working, Making, Unlinking, Writing
  <2> QED
    BY <2>1, <2>2 DEF ClientInv
<1> QED
  BY <1>4, <1>5, <1>7, BaseFrom

LEMMA LockIsInum == ASSUME BaseInv, NEW c \in Clients PROVE LockOf(c) \in Inums /\ req[c].dir \in Dirs
<1>1. req[c] \in Requests
  BY DEF BaseInv, TypeOK
<1>2. req[c].dir \in Dirs /\ req[c].ino \in Inums
  BY <1>1, DirsAreInums DEF Requests, NoRequest
<1> QED
  BY <1>2, DirsAreInums DEF LockOf

LEMMA AcquireBase == ASSUME BaseInv, NEW c \in Clients, Acquire(c) PROVE BaseInv'
<1> USE DEF BaseInv
<1> PICK to : to = IF req[c].op \in Makes THEN "lookup"
                   ELSE IF req[c].op = "unlink" THEN "find" ELSE "get"
  OBVIOUS
<1>1. /\ pc[c] = "acquire" /\ pc' = [pc EXCEPT ![c] = to]
      /\ owners' = [owners EXCEPT ![LockOf(c)] = {c}]
      /\ UNCHANGED <<extent, req, buf, ino, res>>
  BY DEF Acquire, Goto, Lock!Grant
<1>2. TypeOK'
  BY <1>1 DEF TypeOK, Labels
<1>3. DirsStay'
  BY <1>1 DEF DirsStay, Live
<1>4. pc'[c] = to /\ owners'[LockOf(c)] = {c} /\ LockOf(c)' = LockOf(c)
  BY <1>1, LockIsInum DEF TypeOK, LockOf
<1>5. req[c].op \in {"create", "mkdir", "symlink", "unlink", "write", "setattr"}
  BY <1>1, YfsAssumption DEF ClientInv, AtItsOperation, Resting
<1>6. ClientInv(c)'
  <2>1. AtItsOperation(c)'
    BY <1>1, <1>4, <1>5 DEF ClientInv, AtItsOperation, IsWrite, Resting, Making, Unlinking, Writing,
                            Makes
  <2> QED
    BY <1>4, <2>1 DEF ClientInv, HasLock
<1> QED
  BY <1>2, <1>3, <1>6, BaseFrom DEF Step

\* The steps that go on with the lock and leave the files alone.
LEMMA ReadBase ==
  ASSUME BaseInv, NEW c \in Clients, Lookup(c) \/ Scan(c) \/ GetDir(c) \/ Find(c) \/ GetFile(c)
  PROVE  BaseInv'
<1> USE DEF BaseInv
<1>1. UNCHANGED <<extent, owners, req>> /\ pc[c] \in {"lookup", "scan", "getdir", "find", "get"}
  BY DEF Lookup, Scan, GetDir, Find, GetFile
<1>2. \A i \in Inums : Get(i) \in SUBSET (Entries \cup Marks)
  <2>1. SUFFICES ASSUME NEW i \in Live PROVE extent[i].data \in SUBSET (Entries \cup Marks)
    BY DEF Get
  <2>2. extent[i] \in Files
    BY LiveFiles DEF Live
  <2> QED
    BY <2>2, FileParts
<1>3. req[c].dir \in Dirs /\ IsDirData(Get(req[c].dir)) /\ req[c].dir \in Inums
      /\ req[c].ino \in Inums
  <2>1. req[c].dir \in Dirs /\ req[c].dir \in Inums
    BY LockIsInum, DirsAreInums
  <2>2. req[c] \in Requests
    BY DEF TypeOK
  <2> QED
    BY <2>1, <2>2, DirsAreInums DEF Get, DirsStay, Requests, NoRequest
<1>4. DirsStay'
  BY <1>1 DEF DirsStay, Live
<1>5. LockOf(c)' = LockOf(c) /\ owners[LockOf(c)] = {c}
  BY <1>1 DEF LockOf, ClientInv, HasLock, Working, Making, Unlinking, Writing
<1> SUFFICES TypeOK' /\ AtItsOperation(c)'
  BY <1>1, <1>4, <1>5, BaseFrom DEF ClientInv, HasLock, Step
<1> USE DEF ClientInv
<1>6. CASE Lookup(c)
  <2>1. \/ pc' = [pc EXCEPT ![c] = "release"] /\ res' = [res EXCEPT ![c] = "EXIST"]
        \/ pc' = [pc EXCEPT ![c] = "scan"] /\ res' = res
    BY <1>6 DEF Lookup, Goto
  <2>2. UNCHANGED <<buf, ino>> /\ pc[c] = "lookup"
    BY <1>6 DEF Lookup
  <2>3. TypeOK'
    BY <1>1, <2>1, <2>2 DEF TypeOK, Labels
  <2>4. AtItsOperation(c)'
    BY <1>1, <2>1, <2>2 DEF TypeOK, AtItsOperation, IsWrite, Resting, Making, Unlinking, Writing
  <2> QED
    BY <2>3, <2>4
<1>7. CASE Scan(c)
  <2>1. PICK i \in Inums \ Live : ino' = [ino EXCEPT ![c] = i]
    BY <1>7 DEF Scan
  <2>2. UNCHANGED <<buf, res>> /\ pc[c] = "scan" /\ pc' = [pc EXCEPT ![c] = "alloc"]
    BY <1>7 DEF Scan, Goto
  <2>3. i \notin Dirs
    BY DEF DirsStay
  <2>4. TypeOK'
    BY <1>1, <2>1, <2>2 DEF TypeOK, Labels
  <2>5. AtItsOperation(c)'
    BY <1>1, <2>1, <2>2, <2>3 DEF TypeOK, AtItsOperation, IsWrite, Resting, Making, Unlinking,
                                  Writing
  <2> QED
    BY <2>4, <2>5
<1>8. CASE GetDir(c)
  <2> PICK data : data = Get(req[c].dir)
    OBVIOUS
  <2>1. /\ UNCHANGED <<ino, res>> /\ pc[c] = "getdir" /\ pc' = [pc EXCEPT ![c] = "putdir"]
        /\ buf' = [buf EXCEPT ![c] = data]
    BY <1>8 DEF GetDir, Goto
  <2>2. data \in SUBSET (Entries \cup Marks) /\ IsDirData(data)
    BY <1>2, <1>3
  <2>3. TypeOK'
    BY <1>1, <2>1, <2>2 DEF TypeOK, Labels
  <2>4. pc'[c] = "putdir" /\ buf'[c] = data /\ ino'[c] = ino[c] /\ res'[c] = res[c]
        /\ req'[c] = req[c]
    BY <1>1, <2>1 DEF TypeOK
  <2>5. IsDirData(buf[c])'
    BY <2>2, <2>4 DEF IsDirData
  <2>6. AtItsOperation(c)'
    BY <2>1, <2>4, <2>5 DEF AtItsOperation, IsWrite, Resting, Making, Unlinking, Writing
  <2> QED
    BY <2>3, <2>6
<1>9. CASE Find(c)
  <2> PICK data : data = Get(req[c].dir)
    OBVIOUS
  <2>1. data \in SUBSET (Entries \cup Marks) /\ IsDirData(data)
    BY <1>2, <1>3
  <2>2. /\ pc[c] = "find" /\ buf' = [buf EXCEPT ![c] = data]
        /\ \/ pc' = [pc EXCEPT ![c] = "release"] /\ res' = [res EXCEPT ![c] = "OK"] /\ ino' = ino
           \/ /\ pc' = [pc EXCEPT ![c] = "remove"] /\ res' = res
              /\ \E e \in data : ino' = [ino EXCEPT ![c] = e.ino]
    BY <1>9 DEF Find, Goto, EntriesFor
  <2>3. CASE pc' = [pc EXCEPT ![c] = "release"] /\ res' = [res EXCEPT ![c] = "OK"] /\ ino' = ino
    <3>1. TypeOK'
      BY <1>1, <2>1, <2>2, <2>3 DEF TypeOK, Labels
    <3>2. AtItsOperation(c)'
      BY <1>1, <2>2, <2>3 DEF TypeOK, AtItsOperation, IsWrite, Resting, Making, Unlinking, Writing
    <3> QED
      BY <3>1, <3>2
  <2>4. ASSUME pc' = [pc EXCEPT ![c] = "remove"], res' = res,
               NEW e \in data, ino' = [ino EXCEPT ![c] = e.ino]
        PROVE  TypeOK' /\ AtItsOperation(c)'
    <3>1. e.ino \in Inums /\ e.ino \notin Dirs
      BY <2>1 DEF IsDirData, Entries, Inums
    <3>2. TypeOK'
      BY <1>1, <2>1, <2>2, <2>4, <3>1 DEF TypeOK, Labels
    <3>3. pc'[c] = "remove" /\ buf'[c] = data /\ ino'[c] = e.ino /\ res'[c] = res[c]
          /\ req'[c] = req[c]
      BY <1>1, <2>2, <2>4 DEF TypeOK
    <3>4. IsDirData(buf[c])'
      BY <2>1, <3>3 DEF IsDirData
    <3>5. AtItsOperation(c)'
      BY <2>2, <3>1, <3>3, <3>4 DEF AtItsOperation, IsWrite, Resting, Making, Unlinking, Writing
    <3> QED
      BY <3>2, <3>5
  <2> QED
    BY <2>2, <2>3, <2>4
<1>10. CASE GetFile(c)
  <2> PICK data : data = Get(req[c].ino)
    OBVIOUS
  <2>1. /\ UNCHANGED <<ino, res>> /\ pc[c] = "get" /\ pc' = [pc EXCEPT ![c] = "put"]
        /\ buf' = [buf EXCEPT ![c] = data] /\ data \in SUBSET (Entries \cup Marks)
    BY <1>2, <1>3, <1>10 DEF GetFile, Goto
  <2>2. TypeOK'
    BY <1>1, <2>1 DEF TypeOK, Labels
  <2>3. AtItsOperation(c)'
    BY <1>1, <2>1 DEF TypeOK, AtItsOperation, IsWrite, Resting, Making, Unlinking, Writing
  <2> QED
    BY <2>2, <2>3
<1> QED
  BY <1>6, <1>7, <1>8, <1>9, <1>10

\* The steps that change the files.
LEMMA WriteBase ==
  ASSUME BaseInv, NEW c \in Clients,
         Alloc(c) \/ PutDir(c) \/ PutLink(c) \/ Remove(c) \/ Erase(c) \/ PutFile(c)
  PROVE  BaseInv'
<1> USE DEF BaseInv
<1>1. UNCHANGED <<owners, req, buf, ino>>
      /\ pc[c] \in {"alloc", "putdir", "putlink", "remove", "erase", "put"}
  BY DEF Alloc, PutDir, PutLink, Remove, Erase, PutFile
<1>2. LockOf(c)' = LockOf(c) /\ owners[LockOf(c)] = {c}
  BY <1>1 DEF LockOf, ClientInv, HasLock, Working, Making, Unlinking, Writing
<1>3. /\ req[c].dir \in Dirs /\ req[c].dir \in Inums /\ req[c].ino \in Inums /\ ino[c] \in Inums
      /\ req[c].name \in Names /\ buf[c] \in SUBSET (Entries \cup Marks)
  <2>1. req[c].dir \in Dirs /\ req[c].dir \in Inums
    BY LockIsInum, DirsAreInums
  <2>2. req[c] \in Requests
    BY DEF TypeOK
  <2>3. req[c].ino \in Inums
    BY <2>2, DirsAreInums DEF Requests, NoRequest
  <2>4. req[c].name \in Names
    BY <1>1 DEF ClientInv, AtItsOperation, Resting
  <2> QED
    BY <2>1, <2>3, <2>4 DEF TypeOK
<1>4. EntryOf(c) \in Entries
  BY <1>3 DEF EntryOf, Entries, Inums
<1>5. [clt |-> c, name |-> req[c].name] \in Marks
  BY <1>3 DEF Marks
<1>6. ASSUME NEW i \in Inums, NEW data \in SUBSET (Entries \cup Marks), Put(i, data),
             i \in Dirs => IsDirData(data)
      PROVE  extent' \in [Inums -> {NoFile} \cup Files] /\ DirsStay'
  <2> HIDE DEF BaseInv
  <2> QED
    BY <1>6, PutParts, PutKeepsDirs DEF BaseInv
<1>7. /\ extent' \in [Inums -> {NoFile} \cup Files] /\ DirsStay'
      /\ \/ /\ pc[c] # "remove" /\ pc' = [pc EXCEPT ![c] = "release"]
            /\ res' = [res EXCEPT ![c] = "OK"]
         \/ /\ pc[c] = "putdir" /\ req[c].op = "symlink" /\ pc' = [pc EXCEPT ![c] = "putlink"]
            /\ res' = res
         \/ pc[c] = "remove" /\ pc' = [pc EXCEPT ![c] = "erase"] /\ res' = res
         \/ pc[c] = "alloc" /\ pc' = [pc EXCEPT ![c] = "getdir"] /\ res' = res
  <2>1. CASE Alloc(c)
    <3> PICK f : f = [type |-> TypeOf(req[c].op), data |-> {}]
      OBVIOUS
    <3>1. f \in Files
      BY DEF Files, TypeOf
    <3>2. extent' = [extent EXCEPT ![ino[c]] = f] /\ pc[c] = "alloc"
      BY <2>1 DEF Alloc
    <3>3. ino[c] \notin Dirs
      BY <3>2 DEF ClientInv, AtItsOperation
    <3>4. \A d \in Dirs : d \in Inums /\ extent'[d] = extent[d]
      BY <3>2, <3>3, DirsAreInums DEF TypeOK
    <3>5. DirsStay'
      BY <3>4 DEF DirsStay, Live
    <3>6. extent' \in [Inums -> {NoFile} \cup Files]
      BY <3>1, <3>2 DEF TypeOK
    <3> QED
      BY <2>1, <3>5, <3>6 DEF Alloc, Goto
  <2>2. CASE PutDir(c)
    <3> PICK data : data = buf[c] \cup {EntryOf(c)}
      OBVIOUS
    <3>1. Put(req[c].dir, data) /\ pc[c] = "putdir"
      BY <2>2 DEF PutDir, EntryOf
    <3>2. IsDirData(buf[c]) /\ ino[c] \notin Dirs
      BY <3>1 DEF ClientInv, AtItsOperation
    <3>3. IsDirData(data)
      BY <1>4, <3>2 DEF IsDirData, EntryOf
    <3>4. data \in SUBSET (Entries \cup Marks)
      BY <3>3 DEF IsDirData
    <3>5. extent' \in [Inums -> {NoFile} \cup Files] /\ DirsStay'
      BY <1>3, <1>6, <3>1, <3>3, <3>4
    <3> QED
      BY <2>2, <3>5 DEF PutDir, Goto
  <2>3. CASE PutLink(c)
    <3> PICK data : data = {[clt |-> c, name |-> req[c].name]}
      OBVIOUS
    <3>1. Put(ino[c], data) /\ pc[c] = "putlink" /\ data \in SUBSET (Entries \cup Marks)
      BY <1>5, <2>3 DEF PutLink
    <3>2. ino[c] \notin Dirs
      BY <3>1 DEF ClientInv, AtItsOperation
    <3>3. extent' \in [Inums -> {NoFile} \cup Files] /\ DirsStay'
      BY <1>3, <1>6, <3>1, <3>2
    <3> QED
      BY <2>3, <3>1, <3>3 DEF PutLink, Goto
  <2>4. CASE Remove(c)
    <3>1. extent' = [extent EXCEPT ![ino[c]] = NoFile] /\ pc[c] = "remove"
      BY <2>4 DEF Remove
    <3>2. ino[c] \notin Dirs
      BY <3>1 DEF ClientInv, AtItsOperation
    <3>3. \A d \in Dirs : d \in Inums /\ extent'[d] = extent[d]
      BY <3>1, <3>2, DirsAreInums DEF TypeOK
    <3>4. DirsStay'
      BY <3>3 DEF DirsStay, Live
    <3>5. extent' \in [Inums -> {NoFile} \cup Files]
      BY <3>1 DEF TypeOK
    <3> QED
      BY <2>4, <3>4, <3>5 DEF Remove, Goto
  <2>5. CASE Erase(c)
    <3> PICK data : data = buf[c] \ {EntryOf(c)}
      OBVIOUS
    <3>1. Put(req[c].dir, data) /\ pc[c] = "erase"
      BY <2>5 DEF Erase, EntryOf
    <3>2. IsDirData(buf[c])
      BY <3>1 DEF ClientInv, AtItsOperation
    <3>3. IsDirData(data) /\ data \in SUBSET (Entries \cup Marks)
      BY <3>2 DEF IsDirData
    <3>4. extent' \in [Inums -> {NoFile} \cup Files] /\ DirsStay'
      BY <1>3, <1>6, <3>1, <3>3
    <3> QED
      BY <2>5, <3>1, <3>4 DEF Erase, Goto
  <2>6. CASE PutFile(c)
    <3> PICK data : data = IF req[c].op = "write"
                           THEN buf[c] \cup {[clt |-> c, name |-> req[c].name]} ELSE {}
      OBVIOUS
    <3>1. Put(req[c].ino, data) /\ pc[c] = "put"
      BY <2>6 DEF PutFile
    <3>2. data \in SUBSET (Entries \cup Marks)
      BY <1>3, <1>5
    <3>3. req[c].ino \notin Dirs
      BY <3>1 DEF ClientInv, AtItsOperation, Writing
    <3>4. extent' \in [Inums -> {NoFile} \cup Files] /\ DirsStay'
      BY <1>3, <1>6, <3>1, <3>2, <3>3
    <3> QED
      BY <2>6, <3>1, <3>4 DEF PutFile, Goto
  <2> QED
    BY <2>1, <2>2, <2>3, <2>4, <2>5, <2>6
<1>8. TypeOK'
  BY <1>1, <1>7 DEF TypeOK, Labels
<1>9. AtItsOperation(c)'
  <2>1. /\ req'[c] = req[c] /\ buf'[c] = buf[c] /\ ino'[c] = ino[c] /\ IsDirData(buf[c])' = IsDirData(buf[c])
    BY <1>1 DEF IsDirData
  <2>2. \/ pc'[c] = "release" /\ res'[c] = "OK"
        \/ req[c].op = "symlink" /\ pc'[c] = "putlink" /\ res'[c] = res[c] /\ pc[c] = "putdir"
        \/ pc'[c] = "erase" /\ res'[c] = res[c] /\ pc[c] = "remove"
        \/ pc'[c] = "getdir" /\ res'[c] = res[c] /\ pc[c] = "alloc"
    BY <1>7 DEF TypeOK
  <2>3. AtItsOperation(c)
    BY DEF ClientInv
  <2> QED
    BY ONLY <1>1, <2>1, <2>2, <2>3 DEF AtItsOperation, IsWrite, Resting, Making, Unlinking, Writing, Makes
<1> QED
  BY <1>1, <1>2, <1>7, <1>8, <1>9, BaseFrom DEF ClientInv, HasLock, Step

LEMMA ReleaseBase == ASSUME BaseInv, NEW c \in Clients, Release(c) PROVE BaseInv'
<1> USE DEF BaseInv
<1>1. /\ owners' = [owners EXCEPT ![LockOf(c)] = {}] /\ pc' = [pc EXCEPT ![c] = "idle"]
      /\ req' = [req EXCEPT ![c] = NoRequest] /\ buf' = [buf EXCEPT ![c] = {}]
      /\ ino' = [ino EXCEPT ![c] = 1] /\ res' = [res EXCEPT ![c] = "none"] /\ extent' = extent
  BY DEF Release, Goto, Lock!GiveBack
<1>2. TypeOK'
  BY <1>1, DirsAreInums DEF TypeOK, Labels, Requests
<1>3. DirsStay'
  BY <1>1 DEF DirsStay, Live
<1>4. pc'[c] = "idle" /\ req'[c] = NoRequest /\ res'[c] = "none"
  BY <1>1 DEF TypeOK
<1>5. ClientInv(c)'
  BY <1>4 DEF ClientInv, AtItsOperation, HasLock, IsWrite, NoRequest, Resting, Making, Unlinking,
              Writing, Working
<1> QED
  BY <1>2, <1>3, <1>5, BaseFrom DEF Step

LEMMA BaseStutters == BaseInv /\ UNCHANGED vars => BaseInv'
BY DEF vars, BaseInv, TypeOK, DirsStay, IsDirData, Live, ClientInv, AtItsOperation, HasLock, LockOf,
       IsWrite

LEMMA BaseStep == BaseInv /\ [Next]_vars => BaseInv'
<1> SUFFICES ASSUME BaseInv, [Next]_vars PROVE BaseInv'
  OBVIOUS
<1>1. CASE UNCHANGED vars
  BY <1>1, BaseStutters
<1>2. ASSUME NEW c \in Clients, Mount(c) \/ Request(c) \/ Step(c)
      PROVE  BaseInv'
  BY <1>2, MountBase, RequestBase, AcquireBase, ReadBase, WriteBase, ReleaseBase DEF Step
<1> QED
  BY <1>1, <1>2 DEF Next

LEMMA BaseInvariance == Spec => []BaseInv
BY BaseInit, BaseStep, PTL DEF Spec

\* Files, buffers, locks and requests keep their types: a directory is never removed nor
\* overwritten with a file's contents, for all the interleavings of the clients' RPCs.
THEOREM TypeCorrect == Spec => []TypeOK
BY BaseInvariance, PTL DEF BaseInv

-----------------------------------------------------------------------------
(* One directory: the root, and who works on it.                            *)

AtRoot == Making \cup Unlinking

LEMMA RootParts ==
  ASSUME BaseInv, OneDirectory
  PROVE  /\ 1 \in Live /\ Get(1) = Root /\ Root \subseteq Entries
         /\ \A e \in Root : e.ino \in Inums /\ e.ino # 1 /\ e = [name |-> e.name, ino |-> e.ino]
         /\ \A c \in Clients : req[c].dir = 1
<1>1. 1 \in Live /\ IsDirData(Root)
  BY DEF BaseInv, DirsStay, Root, OneDirectory
<1>2. Root \subseteq Entries /\ \A e \in Root : e.ino # 1
  BY <1>1 DEF IsDirData, OneDirectory
<1>3. \A e \in Entries : e.ino \in Inums /\ e = [name |-> e.name, ino |-> e.ino]
  BY DEF Entries, Inums
<1> QED
  BY <1>1, <1>2, <1>3, LockIsInum DEF Get, Root, OneDirectory

\* Only one client is at work on the root: it has the root's lock.
LEMMA OneAtRoot ==
  ASSUME BaseInv, OneDirectory, NEW c \in Clients, NEW d \in Clients,
         pc[c] \in AtRoot, pc[d] \in AtRoot
  PROVE  c = d
<1>1. ASSUME NEW b \in Clients, pc[b] \in AtRoot
      PROVE  owners[1] = {b}
  <2>1. ~IsWrite(b)
    BY <1>1 DEF BaseInv, ClientInv, AtItsOperation, IsWrite, AtRoot, Makes
  <2>2. LockOf(b) = 1
    BY <2>1, RootParts DEF LockOf, IsWrite
  <2> QED
    BY <1>1, <2>2 DEF BaseInv, ClientInv, HasLock, Working, AtRoot
<1> QED
  BY <1>1

\* A step off the root, or by the client that has its lock, keeps what others know.
LEMMA OthersKnowRoot ==
  ASSUME RootInv, OneDirectory, NEW c \in Clients, Mount(c) \/ Request(c) \/ Step(c),
         pc[c] \in AtRoot \/ (Root' = Root /\ Live' = Live)
  PROVE  \A d \in Clients \ {c} : KnowsRoot(d)'
<1> SUFFICES ASSUME NEW d \in Clients \ {c} PROVE KnowsRoot(d)'
  OBVIOUS
<1>1. Same(d)
  BY OthersStay DEF RootInv, BaseInv
<1>2. CASE pc[d] \in AtRoot
  <2>1. Root' = Root /\ Live' = Live
    BY <1>2, OneAtRoot DEF RootInv
  <2>2. KnowsRoot(d)
    BY DEF RootInv
  <2> QED
    BY <1>1, <2>1, <2>2 DEF KnowsRoot, Same, EntriesFor, Named, EntryOf
<1>3. CASE pc[d] \notin AtRoot
  BY <1>1, <1>3 DEF KnowsRoot, Same, AtRoot, Making, Unlinking
<1> QED
  BY <1>2, <1>3

\* A step that leaves the root and the inodes alone, by a client that no entry and no inode
\* depends on.
LEMMA RootStaysSound ==
  ASSUME RootInv, OneDirectory, NEW c \in Clients, Mount(c) \/ Request(c) \/ Step(c),
         Root' = Root, Live' = Live, pc[c] \notin {"getdir", "putdir", "erase"}
  PROVE  RootIsSound' /\ NoneForgotten'
<1>1. \A d \in Clients : pc[d] \in {"getdir", "putdir", "erase"} => Same(d)
  BY OthersStay DEF RootInv, BaseInv
<1>2. RootIsSound /\ NoneForgotten
  BY DEF RootInv
<1>3. RootIsSound'
  BY <1>1, <1>2 DEF RootIsSound, Erasing, Same, EntryOf
<1>4. NoneForgotten'
  BY <1>1, <1>2 DEF NoneForgotten, Named, Same
<1> QED
  BY <1>3, <1>4

LEMMA RootFrom ==
  ASSUME RootInv, OneDirectory, NEW c \in Clients, Mount(c) \/ Request(c) \/ Step(c),
         pc[c] \in AtRoot \/ (Root' = Root /\ Live' = Live),
         RootIsSound', NoneForgotten', KnowsRoot(c)'
  PROVE  RootInv'
<1>1. BaseInv'
  BY BaseStep DEF RootInv, Next
<1>2. \A d \in Clients \ {c} : KnowsRoot(d)'
  BY OthersKnowRoot
<1> QED
  BY <1>1, <1>2 DEF RootInv

LEMMA RootInit == OneDirectory /\ Init => RootInv
<1> SUFFICES ASSUME OneDirectory, Init PROVE RootInv
  OBVIOUS
<1>1. BaseInv
  BY BaseInit
<1>2. extent[1] = [type |-> "dir", data |-> {}] /\ Live = {1}
  BY YfsAssumption, DirsAreInums DEF Init, OneDirectory, Live, Files
<1>3. Root = {}
  BY <1>2 DEF Root
<1>4. \A c \in Clients : pc[c] = "unmounted"
  BY DEF Init
<1> QED
  BY <1>1, <1>2, <1>3, <1>4 DEF RootInv, RootIsSound, NoneForgotten, KnowsRoot

-----------------------------------------------------------------------------
(* What each write does to the root and to the inodes.                      *)

LEMMA AllocDoes ==
  ASSUME RootInv, OneDirectory, NEW c \in Clients, Alloc(c)
  PROVE  /\ pc[c] = "alloc" /\ pc'[c] = "getdir" /\ UNCHANGED <<req, buf, ino, res>>
         /\ \A d \in Clients \ {c} : pc'[d] = pc[d]
         /\ ino[c] \in Inums \ {1} /\ ino[c] \notin Live /\ ~Named(ino[c])
         /\ Root' = Root /\ Live' = Live \cup {ino[c]}
         /\ extent'[ino[c]] = [type |-> TypeOf(req[c].op), data |-> {}]
         /\ \A j \in Inums \ {ino[c]} : extent'[j] = extent[j]
<1>1. BaseInv /\ TypeOK
  BY DEF RootInv, BaseInv
<1>2. /\ pc[c] = "alloc" /\ pc'[c] = "getdir" /\ UNCHANGED <<req, buf, ino, res>>
      /\ extent' = [extent EXCEPT ![ino[c]] = [type |-> TypeOf(req[c].op), data |-> {}]]
      /\ \A d \in Clients \ {c} : pc'[d] = pc[d]
  BY <1>1 DEF Alloc, Goto, TypeOK
<1>3. ino[c] \in Inums /\ ino[c] \notin Live /\ ~Named(ino[c])
  BY <1>1, <1>2 DEF RootInv, TypeOK, KnowsRoot
<1>4. 1 \in Live /\ 1 \in Inums
  BY <1>1, RootParts, DirsAreInums
<1>5. extent'[ino[c]] = [type |-> TypeOf(req[c].op), data |-> {}]
      /\ \A j \in Inums \ {ino[c]} : extent'[j] = extent[j]
  BY <1>1, <1>2, <1>3 DEF TypeOK
<1>6. Root' = Root
  BY <1>3, <1>4, <1>5 DEF Root
<1>7. Live' = Live \cup {ino[c]}
  <2>1. [type |-> TypeOf(req[c].op), data |-> {}] \in Files
    BY DEF Files, TypeOf
  <2>2. [type |-> TypeOf(req[c].op), data |-> {}] # NoFile
    BY <2>1, YfsAssumption
  <2> QED
    BY <1>3, <1>5, <2>2 DEF Live
<1> QED
  BY <1>2, <1>3, <1>4, <1>5, <1>6, <1>7

LEMMA PutDirDoes ==
  ASSUME RootInv, OneDirectory, NEW c \in Clients, PutDir(c)
  PROVE  /\ pc[c] = "putdir" /\ pc'[c] = IF req[c].op = "symlink" THEN "putlink" ELSE "release"
         /\ res'[c] = IF req[c].op = "symlink" THEN res[c] ELSE "OK"
         /\ UNCHANGED <<req, buf, ino>> /\ \A d \in Clients \ {c} : pc'[d] = pc[d]
         /\ ino[c] \in Live \ {1} /\ ~Named(ino[c]) /\ EntriesFor(Root, req[c].name) = {}
         /\ Root' = Root \cup {EntryOf(c)} /\ Live' = Live
         /\ \A j \in Inums \ {1} : extent'[j] = extent[j]
<1>1. BaseInv /\ TypeOK
  BY DEF RootInv, BaseInv
<1>2. /\ pc[c] = "putdir" /\ UNCHANGED <<req, buf, ino>>
      /\ Put(1, buf[c] \cup {EntryOf(c)}) /\ \A d \in Clients \ {c} : pc'[d] = pc[d]
  BY <1>1, RootParts DEF PutDir, Goto, TypeOK, EntryOf
<1>3. /\ pc'[c] = IF req[c].op = "symlink" THEN "putlink" ELSE "release"
      /\ res'[c] = IF req[c].op = "symlink" THEN res[c] ELSE "OK"
  BY <1>1 DEF PutDir, Goto, TypeOK
<1>4. /\ ino[c] \in Live /\ ~Named(ino[c]) /\ EntriesFor(Root, req[c].name) = {}
      /\ buf[c] = Root /\ ino[c] # 1
  BY <1>1, <1>2 DEF RootInv, KnowsRoot, BaseInv, ClientInv, AtItsOperation, OneDirectory
<1>5. EntryOf(c) \in Entries
  BY <1>1, <1>2, <1>4
     DEF EntryOf, Entries, BaseInv, ClientInv, AtItsOperation, Resting, Inums, Live
<1>6. Root \cup {EntryOf(c)} \in SUBSET (Entries \cup Marks)
  BY <1>1, <1>5, RootParts
<1>7. /\ extent'[1] = [type |-> extent[1].type, data |-> Root \cup {EntryOf(c)}] /\ Live' = Live
      /\ \A j \in Inums \ {1} : extent'[j] = extent[j]
  BY <1>1, <1>2, <1>4, <1>6, PutParts, RootParts, DirsAreInums
<1> QED
  BY <1>2, <1>3, <1>4, <1>7 DEF Root

\* A put to a file or to a link leaves the root and the other inodes alone.
LEMMA PutDataDoes ==
  ASSUME RootInv, OneDirectory, NEW c \in Clients, NEW i \in Live \ {1},
         NEW data \in SUBSET (Entries \cup Marks), Put(i, data)
  PROVE  /\ Root' = Root /\ Live' = Live
         /\ extent'[i].type = extent[i].type /\ extent'[i].data = data
         /\ \A j \in Inums \ {i} : extent'[j] = extent[j]
<1>1. TypeOK /\ i \in Inums
  BY DEF RootInv, BaseInv, Live
<1>2. /\ Live' = Live /\ extent'[i] = [type |-> extent[i].type, data |-> data]
      /\ \A j \in Inums \ {i} : extent'[j] = extent[j]
  BY <1>1, PutParts
<1>3. extent'[1] = extent[1]
  BY <1>2, DirsAreInums
<1> QED
  BY <1>2, <1>3 DEF Root

LEMMA PutLinkDoes ==
  ASSUME RootInv, OneDirectory, NEW c \in Clients, PutLink(c)
  PROVE  /\ pc[c] = "putlink" /\ pc'[c] = "release" /\ res'[c] = "OK"
         /\ UNCHANGED <<req, buf, ino>> /\ \A d \in Clients \ {c} : pc'[d] = pc[d]
         /\ ino[c] \in Live \ {1} /\ EntryOf(c) \in Root
         /\ [clt |-> c, name |-> req[c].name] \in Marks
         /\ Root' = Root /\ Live' = Live
         /\ extent'[ino[c]].type = extent[ino[c]].type
         /\ extent'[ino[c]].data = {[clt |-> c, name |-> req[c].name]}
         /\ \A j \in Inums \ {ino[c]} : extent'[j] = extent[j]
<1>1. BaseInv /\ TypeOK
  BY DEF RootInv, BaseInv
<1>2. /\ pc[c] = "putlink" /\ pc'[c] = "release" /\ res'[c] = "OK"
      /\ UNCHANGED <<req, buf, ino>> /\ \A d \in Clients \ {c} : pc'[d] = pc[d]
      /\ Put(ino[c], {[clt |-> c, name |-> req[c].name]})
  BY <1>1 DEF PutLink, Goto, TypeOK
<1>3. ino[c] \in Live \ {1} /\ EntryOf(c) \in Root
  BY <1>1, <1>2 DEF RootInv, KnowsRoot, BaseInv, ClientInv, AtItsOperation, OneDirectory
<1>4. [clt |-> c, name |-> req[c].name] \in Marks
  BY <1>1, <1>2 DEF Marks, BaseInv, ClientInv, AtItsOperation, Resting
<1>5. {[clt |-> c, name |-> req[c].name]} \in SUBSET (Entries \cup Marks)
  BY <1>4
<1>6. /\ Root' = Root /\ Live' = Live
      /\ extent'[ino[c]].type = extent[ino[c]].type
      /\ extent'[ino[c]].data = {[clt |-> c, name |-> req[c].name]}
      /\ \A j \in Inums \ {ino[c]} : extent'[j] = extent[j]
  BY <1>2, <1>3, <1>5, PutDataDoes
<1> QED
  BY <1>2, <1>3, <1>4, <1>6

LEMMA RemoveDoes ==
  ASSUME RootInv, OneDirectory, NEW c \in Clients, Remove(c)
  PROVE  /\ pc[c] = "remove" /\ pc'[c] = "erase" /\ UNCHANGED <<req, buf, ino, res>>
         /\ \A d \in Clients \ {c} : pc'[d] = pc[d]
         /\ ino[c] \in Live \ {1} /\ EntryOf(c) \in Root /\ buf[c] = Root
         /\ Root' = Root /\ Live' = Live \ {ino[c]}
         /\ \A j \in Inums \ {ino[c]} : extent'[j] = extent[j]
<1>1. BaseInv /\ TypeOK
  BY DEF RootInv, BaseInv
<1>2. /\ pc[c] = "remove" /\ pc'[c] = "erase" /\ UNCHANGED <<req, buf, ino, res>>
      /\ extent' = [extent EXCEPT ![ino[c]] = NoFile]
      /\ \A d \in Clients \ {c} : pc'[d] = pc[d]
  BY <1>1 DEF Remove, Goto, TypeOK
<1>3. ino[c] \in Live /\ EntryOf(c) \in Root /\ buf[c] = Root /\ ino[c] # 1
  BY <1>1, <1>2 DEF RootInv, KnowsRoot, BaseInv, ClientInv, AtItsOperation, OneDirectory
<1>4. extent'[ino[c]] = NoFile /\ \A j \in Inums \ {ino[c]} : extent'[j] = extent[j]
  BY <1>1, <1>2 DEF TypeOK
<1>5. Root' = Root /\ Live' = Live \ {ino[c]}
  BY <1>3, <1>4, DirsAreInums DEF Root, Live
<1> QED
  BY <1>2, <1>3, <1>4, <1>5

LEMMA EraseDoes ==
  ASSUME RootInv, OneDirectory, NEW c \in Clients, Erase(c)
  PROVE  /\ pc[c] = "erase" /\ pc'[c] = "release" /\ res'[c] = "OK"
         /\ UNCHANGED <<req, buf, ino>> /\ \A d \in Clients \ {c} : pc'[d] = pc[d]
         /\ ino[c] \notin Live /\ EntryOf(c) \in Root
         /\ Root' = Root \ {EntryOf(c)} /\ Live' = Live
         /\ \A j \in Inums \ {1} : extent'[j] = extent[j]
<1>1. BaseInv /\ TypeOK
  BY DEF RootInv, BaseInv
<1>2. /\ pc[c] = "erase" /\ pc'[c] = "release" /\ res'[c] = "OK" /\ UNCHANGED <<req, buf, ino>>
      /\ Put(1, buf[c] \ {EntryOf(c)}) /\ \A d \in Clients \ {c} : pc'[d] = pc[d]
  BY <1>1, RootParts DEF Erase, Goto, TypeOK, EntryOf
<1>3. ino[c] \notin Live /\ EntryOf(c) \in Root /\ buf[c] = Root
  BY <1>2 DEF KnowsRoot, RootInv
<1>4. Root \ {EntryOf(c)} \in SUBSET (Entries \cup Marks)
  BY <1>1, RootParts
<1>5. /\ extent'[1] = [type |-> extent[1].type, data |-> Root \ {EntryOf(c)}] /\ Live' = Live
      /\ \A j \in Inums \ {1} : extent'[j] = extent[j]
  BY <1>1, <1>2, <1>3, <1>4, PutParts, RootParts, DirsAreInums
<1> QED
  BY <1>2, <1>3, <1>5 DEF Root

-----------------------------------------------------------------------------
(* One step keeps RootInv.                                                  *)

\* A client that starts empties a root that is empty.
LEMMA MountChangesNothing ==
  ASSUME RootInv, OneDirectory, NEW c \in Clients, Mount(c)
  PROVE  Root = {} /\ extent' = extent
<1>1. BaseInv /\ TypeOK
  BY DEF RootInv, BaseInv
<1>2. /\ \A d \in Clients : pc[d] \in {"unmounted", "idle"}
      /\ Live = {1} /\ Put(1, {})
  BY DEF Mount, OneDirectory
<1>3. Root = {}
  <2>1. \A e \in Root : e.ino \in {1} \/ Erasing(e)
    BY <1>2 DEF RootInv, RootIsSound
  <2>2. \A e \in Root : ~Erasing(e)
    BY <1>2 DEF Erasing
  <2>3. \A e \in Root : e.ino # 1
    BY <1>1, RootParts
  <2> QED
    BY <2>1, <2>2, <2>3
<1>4. extent'[1] = [type |-> extent[1].type, data |-> {}] /\ extent[1] \in Files
  BY <1>1, <1>2, PutParts, LiveFiles, DirsAreInums
<1>5. extent'[1] = extent[1]
  BY <1>3, <1>4 DEF Root, Files
<1>6. \A j \in Inums : extent'[j] = extent[j]
  BY <1>1, <1>2, <1>5, PutParts, DirsAreInums
<1>7. extent' \in [Inums -> {NoFile} \cup Files] /\ extent \in [Inums -> {NoFile} \cup Files]
  BY <1>1, <1>2, PutParts, DirsAreInums DEF TypeOK
<1>8. extent' = extent
  BY <1>6, <1>7
<1> QED
  BY <1>3, <1>8

LEMMA MountRoot == ASSUME RootInv, OneDirectory, NEW c \in Clients, Mount(c) PROVE RootInv'
<1>1. extent' = extent /\ pc[c] = "unmounted" /\ pc'[c] = "idle"
  BY MountChangesNothing DEF Mount, RootInv, BaseInv, TypeOK
<1>2. Root' = Root /\ Live' = Live
  BY <1>1 DEF Root, Live
<1>3. RootIsSound' /\ NoneForgotten'
  BY <1>1, <1>2, RootStaysSound
<1>4. KnowsRoot(c)'
  BY <1>1 DEF KnowsRoot
<1> QED
  BY <1>2, <1>3, <1>4, RootFrom

\* The steps that read, and those before and after the work on the root.
LEMMA QuietRoot ==
  ASSUME RootInv, OneDirectory, NEW c \in Clients,
         Request(c) \/ Acquire(c) \/ Lookup(c) \/ Scan(c) \/ Find(c) \/ GetFile(c) \/ Release(c)
  PROVE  RootInv'
<1>1. BaseInv /\ TypeOK
  BY DEF RootInv, BaseInv
<1>2. extent' = extent /\ pc[c] \notin {"getdir", "putdir", "erase"}
  BY DEF Request, Acquire, Lookup, Scan, Find, GetFile, Release
<1>3. Root' = Root /\ Live' = Live /\ Get(1) = Root
  BY <1>1, <1>2, RootParts DEF Root, Live
<1>4. RootIsSound' /\ NoneForgotten'
  BY <1>2, <1>3, RootStaysSound DEF Step
<1> SUFFICES KnowsRoot(c)'
  BY <1>3, <1>4, RootFrom DEF Step
<1>5. KnowsRoot(c) /\ req[c].dir = 1 /\ 1 \in Live
  BY <1>1, RootParts DEF RootInv
<1>6. CASE Request(c) \/ Acquire(c) \/ GetFile(c) \/ Release(c)
  <2>1. pc'[c] \in {"acquire", "lookup", "find", "get", "put", "idle"}
    BY <1>1, <1>6 DEF Request, Acquire, GetFile, Release, Goto, TypeOK
  <2> QED
    BY <2>1 DEF KnowsRoot
<1>7. CASE Lookup(c)
  <2>1. /\ pc'[c] = "release" \/ (pc'[c] = "scan" /\ EntriesFor(Root, req[c].name) = {})
        /\ req' = req
    BY <1>1, <1>3, <1>5, <1>7 DEF Lookup, Goto, TypeOK
  <2> QED
    BY <1>3, <2>1 DEF KnowsRoot, EntriesFor
<1>8. CASE Scan(c)
  <2>1. pc[c] = "scan" /\ pc'[c] = "alloc" /\ req' = req /\ ino'[c] \notin Live
    BY <1>1, <1>8 DEF Scan, Goto, TypeOK
  <2>2. ~Named(ino'[c])
    <3> SUFFICES ASSUME NEW e \in Root, e.ino = ino'[c] PROVE FALSE
      BY DEF Named
    <3>1. PICK d \in Clients : pc[d] = "erase"
      BY <2>1 DEF RootInv, RootIsSound, Erasing
    <3> QED
      BY <1>1, <2>1, <3>1, OneAtRoot DEF AtRoot, Making, Unlinking
  <2>3. EntriesFor(Root, req[c].name) = {}
    BY <1>5, <2>1 DEF KnowsRoot
  <2> QED
    BY <1>3, <2>1, <2>2, <2>3 DEF KnowsRoot, EntriesFor, Named
<1>9. CASE Find(c)
  <2>1. pc[c] = "find" /\ req' = req
    BY <1>9 DEF Find
  <2>2. CASE pc' = [pc EXCEPT ![c] = "release"]
    BY <1>1, <2>2 DEF KnowsRoot, TypeOK
  <2>3. ASSUME pc' = [pc EXCEPT ![c] = "remove"], buf' = [buf EXCEPT ![c] = Root],
               NEW e \in EntriesFor(Root, req[c].name), ino' = [ino EXCEPT ![c] = e.ino]
        PROVE  KnowsRoot(c)'
    <3>1. pc'[c] = "remove" /\ buf'[c] = Root /\ ino'[c] = e.ino /\ req'[c] = req[c]
      BY <1>1, <2>1, <2>3 DEF TypeOK
    <3>2. e \in Root /\ e.name = req[c].name /\ e = [name |-> e.name, ino |-> e.ino]
      BY <1>1, RootParts DEF EntriesFor
    <3>3. e.ino \in Live
      <4>1. SUFFICES ~Erasing(e)
        BY <3>2 DEF RootInv, RootIsSound
      <4>2. \A d \in Clients : pc[d] # "erase"
        BY <1>1, <2>1, OneAtRoot DEF AtRoot, Making, Unlinking
      <4> QED
        BY <4>2 DEF Erasing
    <3> QED
      BY <1>3, <3>1, <3>2, <3>3 DEF KnowsRoot, EntryOf
  <2> QED
    BY <1>3, <1>5, <1>9, <2>2, <2>3 DEF Find, Goto
<1> QED
  BY <1>6, <1>7, <1>8, <1>9

\* Giving a new inode its type, and reading the root to add its entry.
LEMMA AllocRoot == ASSUME RootInv, OneDirectory, NEW c \in Clients, Alloc(c) PROVE RootInv'
<1>1. /\ pc[c] = "alloc" /\ pc'[c] = "getdir" /\ UNCHANGED <<req, buf, ino>>
      /\ \A d \in Clients \ {c} : pc'[d] = pc[d]
      /\ ino[c] \notin Live /\ ~Named(ino[c]) /\ Root' = Root /\ Live' = Live \cup {ino[c]}
  BY AllocDoes
<1>2. EntriesFor(Root, req[c].name) = {}
  BY <1>1 DEF RootInv, KnowsRoot
<1>3. RootIsSound'
  <2>1. RootIsSound
    BY DEF RootInv
  <2>2. \A e : Erasing(e) => Erasing(e)'
    BY <1>1 DEF Erasing, EntryOf
  <2> QED
    BY <1>1, <2>1, <2>2 DEF RootIsSound
<1>4. NoneForgotten'
  <2>1. NoneForgotten
    BY DEF RootInv
  <2> QED
    BY <1>1, <2>1 DEF NoneForgotten, Named
<1>5. KnowsRoot(c)'
  BY <1>1, <1>2 DEF KnowsRoot, Named, EntriesFor
<1> QED
  BY <1>1, <1>3, <1>4, <1>5, RootFrom DEF AtRoot, Making, Step

LEMMA GetDirRoot == ASSUME RootInv, OneDirectory, NEW c \in Clients, GetDir(c) PROVE RootInv'
<1>1. BaseInv /\ TypeOK
  BY DEF RootInv, BaseInv
<1>2. /\ pc[c] = "getdir" /\ pc'[c] = "putdir" /\ UNCHANGED <<req, ino, extent>>
      /\ buf'[c] = Root /\ \A d \in Clients \ {c} : pc'[d] = pc[d]
  BY <1>1, RootParts DEF GetDir, Goto, TypeOK
<1>3. KnowsRoot(c)
  BY DEF RootInv
<1>4. Root' = Root /\ Live' = Live
  BY <1>2 DEF Root, Live
<1>5. RootIsSound'
  <2>1. \A e : Erasing(e) => Erasing(e)'
    BY <1>2 DEF Erasing, EntryOf
  <2> QED
    BY <1>4, <2>1 DEF RootInv, RootIsSound
<1>6. NoneForgotten'
  BY <1>2, <1>4 DEF RootInv, NoneForgotten, Named
<1>7. KnowsRoot(c)'
  BY <1>2, <1>3, <1>4 DEF KnowsRoot, Named, EntriesFor
<1> QED
  BY <1>4, <1>5, <1>6, <1>7, RootFrom DEF Step

\* The new entry has a new name and a new inode.
LEMMA PutDirRoot == ASSUME RootInv, OneDirectory, NEW c \in Clients, PutDir(c) PROVE RootInv'
<1>1. /\ pc[c] = "putdir" /\ pc'[c] \in {"putlink", "release"} /\ UNCHANGED <<req, buf, ino>>
      /\ \A d \in Clients \ {c} : pc'[d] = pc[d]
      /\ ino[c] \in Live /\ ~Named(ino[c]) /\ EntriesFor(Root, req[c].name) = {}
      /\ Root' = Root \cup {EntryOf(c)} /\ Live' = Live
  BY PutDirDoes
<1>2. EntryOf(c)' = EntryOf(c) /\ EntryOf(c).name = req[c].name /\ EntryOf(c).ino = ino[c]
  BY <1>1 DEF EntryOf
<1>3. RootIsSound'
  <2>1. \A e : Erasing(e) => Erasing(e)'
    BY <1>1 DEF Erasing, EntryOf
  <2>2. \A e \in Root : e.name # req[c].name /\ e.ino # ino[c]
    BY <1>1 DEF Named, EntriesFor
  <2>3. RootIsSound
    BY DEF RootInv
  <2>4. \A e, g \in Root' : e.name = g.name \/ e.ino = g.ino => e = g
    BY ONLY <1>1, <1>2, <2>2, <2>3 DEF RootIsSound
  <2>5. \A e \in Root' : e.ino \in Live' \/ Erasing(e)'
    BY ONLY <1>1, <1>2, <2>1, <2>3 DEF RootIsSound
  <2> QED
    BY <2>4, <2>5 DEF RootIsSound
<1>4. NoneForgotten'
  <2> SUFFICES ASSUME NEW i \in Live' \ {1}
               PROVE  Named(i)' \/ \E d \in Clients : ino'[d] = i /\ pc'[d] \in {"getdir", "putdir"}
    BY DEF NoneForgotten
  <2>1. CASE Named(i)
    BY <1>1, <2>1 DEF Named
  <2>2. CASE i = ino[c]
    BY <1>1, <1>2, <2>2 DEF Named
  <2>3. ASSUME NEW d \in Clients, ino[d] = i, pc[d] \in {"getdir", "putdir"}, d # c
        PROVE  ino'[d] = i /\ pc'[d] \in {"getdir", "putdir"}
    BY <1>1, <2>3
  <2> QED
    BY <1>1, <2>1, <2>2, <2>3 DEF RootInv, NoneForgotten
<1>5. KnowsRoot(c)'
  BY <1>1, <1>2 DEF KnowsRoot
<1> QED
  BY <1>1, <1>3, <1>4, <1>5, RootFrom DEF AtRoot, Making, Step

\* A put to a file or to a link leaves the root and the inodes alone.
LEMMA PutDataRoot ==
  ASSUME RootInv, OneDirectory, NEW c \in Clients, PutLink(c) \/ PutFile(c) PROVE RootInv'
<1>1. BaseInv /\ TypeOK
  BY DEF RootInv, BaseInv
<1>2. pc[c] \in {"putlink", "put"} /\ pc'[c] = "release" /\ req[c] \in Requests
  BY <1>1 DEF PutLink, PutFile, Goto, TypeOK
<1>3. req[c].ino \in Inums /\ req[c].name \in Names
  BY <1>1, <1>2, DirsAreInums
     DEF Requests, NoRequest, BaseInv, ClientInv, AtItsOperation, Resting
<1>4. [clt |-> c, name |-> req[c].name] \in Marks
  BY <1>3 DEF Marks
<1>5. \E i \in Inums \ {1}, data \in SUBSET (Entries \cup Marks) : Put(i, data)
  <2>1. CASE PutLink(c)
    <3>1. ino[c] \in Inums \ {1}
      BY <1>1, <2>1 DEF PutLink, BaseInv, ClientInv, AtItsOperation, TypeOK, OneDirectory
    <3> QED
      BY <1>4, <2>1, <3>1 DEF PutLink
  <2>2. CASE PutFile(c)
    <3>1. req[c].ino # 1
      BY <1>1, <2>2 DEF PutFile, BaseInv, ClientInv, AtItsOperation, Writing, OneDirectory
    <3>2. buf[c] \in SUBSET (Entries \cup Marks)
      BY <1>1 DEF TypeOK
    <3>3. PICK data : data = IF req[c].op = "write"
                             THEN buf[c] \cup {[clt |-> c, name |-> req[c].name]} ELSE {}
      OBVIOUS
    <3>4. data \in SUBSET (Entries \cup Marks) /\ Put(req[c].ino, data)
      BY <1>4, <2>2, <3>2, <3>3 DEF PutFile
    <3> QED
      BY <1>3, <3>1, <3>4
  <2> QED
    BY <2>1, <2>2
<1>6. Root' = Root /\ Live' = Live
  BY <1>1, <1>5, PutParts, DirsAreInums DEF Root
<1>7. RootIsSound' /\ NoneForgotten'
  BY <1>2, <1>6, RootStaysSound DEF Step
<1>8. KnowsRoot(c)'
  BY <1>2 DEF KnowsRoot
<1> QED
  BY <1>6, <1>7, <1>8, RootFrom DEF Step

\* The inode goes first, its entry waits for the client that removed it.
LEMMA RemoveRoot == ASSUME RootInv, OneDirectory, NEW c \in Clients, Remove(c) PROVE RootInv'
<1>1. /\ pc[c] = "remove" /\ pc'[c] = "erase" /\ UNCHANGED <<req, buf, ino>>
      /\ \A d \in Clients \ {c} : pc'[d] = pc[d]
      /\ ino[c] \in Live /\ EntryOf(c) \in Root /\ buf[c] = Root
      /\ Root' = Root /\ Live' = Live \ {ino[c]}
  BY RemoveDoes
<1>2. EntryOf(c)' = EntryOf(c) /\ EntryOf(c).ino = ino[c]
  BY <1>1 DEF EntryOf
<1>3. RootIsSound'
  <2>1. \A e : Erasing(e) => Erasing(e)'
    BY <1>1 DEF Erasing, EntryOf
  <2>2. \A e \in Root : e.ino = ino[c] => e = EntryOf(c)
    BY <1>1, <1>2 DEF RootInv, RootIsSound
  <2>3. RootIsSound
    BY DEF RootInv
  <2> SUFFICES ASSUME NEW e \in Root PROVE e.ino \in Live' \/ Erasing(e)'
    BY <1>1, <2>3 DEF RootIsSound
  <2>4. CASE e.ino = ino[c]
    <3>1. e = EntryOf(c)
      BY <2>2, <2>4
    <3>2. PICK f : f = EntryOf(c)
      OBVIOUS
    <3>3. Erasing(f)'
      BY <1>1, <1>2, <3>2 DEF Erasing
    <3> QED
      BY <3>1, <3>2, <3>3
  <2>5. CASE e.ino # ino[c]
    BY <1>1, <2>1, <2>3, <2>5 DEF RootIsSound
  <2> QED
    BY <2>4, <2>5
<1>4. NoneForgotten'
  BY <1>1 DEF RootInv, NoneForgotten, Named
<1>5. KnowsRoot(c)'
  BY <1>1, <1>2 DEF KnowsRoot
<1> QED
  BY <1>1, <1>3, <1>4, <1>5, RootFrom DEF AtRoot, Unlinking, Step

LEMMA EraseRoot == ASSUME RootInv, OneDirectory, NEW c \in Clients, Erase(c) PROVE RootInv'
<1>1. /\ pc[c] = "erase" /\ pc'[c] = "release" /\ UNCHANGED <<req, buf, ino>>
      /\ \A d \in Clients \ {c} : pc'[d] = pc[d]
      /\ ino[c] \notin Live /\ EntryOf(c) \in Root
      /\ Root' = Root \ {EntryOf(c)} /\ Live' = Live
  BY EraseDoes
<1>2. BaseInv
  BY DEF RootInv
<1>3. RootIsSound'
  <2>1. RootIsSound
    BY DEF RootInv
  <2>2. \A e \in Root' : e.ino \in Live'
    <3> SUFFICES ASSUME NEW e \in Root, e # EntryOf(c) PROVE e.ino \in Live
      BY <1>1
    <3>1. ~Erasing(e)
      <4>1. \A d \in Clients : pc[d] = "erase" => d = c
        BY <1>1, <1>2, OneAtRoot DEF AtRoot, Unlinking
      <4> QED
        BY <4>1 DEF Erasing
    <3> QED
      BY <2>1, <3>1 DEF RootIsSound
  <2> QED
    BY <1>1, <2>1, <2>2 DEF RootIsSound
<1>4. NoneForgotten'
  <2>1. \A i \in Live : Named(i) => Named(i)'
    <3> SUFFICES ASSUME NEW i \in Live, NEW e \in Root, e.ino = i PROVE Named(i)'
      BY DEF Named
    <3>1. e # EntryOf(c)
      BY <1>1 DEF EntryOf
    <3> QED
      BY <1>1, <3>1 DEF Named
  <2>2. NoneForgotten
    BY DEF RootInv
  <2> QED
    BY <1>1, <2>1, <2>2 DEF NoneForgotten
<1>5. KnowsRoot(c)'
  BY <1>1 DEF KnowsRoot
<1> QED
  BY <1>1, <1>3, <1>4, <1>5, RootFrom DEF AtRoot, Unlinking, Step

LEMMA RootStutters == RootInv /\ UNCHANGED vars => RootInv'
<1> SUFFICES ASSUME RootInv, UNCHANGED vars PROVE RootInv'
  OBVIOUS
<1>1. BaseInv'
  BY BaseStutters DEF RootInv
<1>2. RootIsSound' /\ NoneForgotten' /\ \A c \in Clients : KnowsRoot(c)'
  BY DEF RootInv, vars, RootIsSound, NoneForgotten, KnowsRoot, Root, Live, Erasing, EntryOf, Named,
         EntriesFor
<1> QED
  BY <1>1, <1>2 DEF RootInv

LEMMA RootStep == OneDirectory /\ RootInv /\ [Next]_vars => RootInv'
<1> SUFFICES ASSUME OneDirectory, RootInv, [Next]_vars PROVE RootInv'
  OBVIOUS
<1>1. CASE UNCHANGED vars
  BY <1>1, RootStutters
<1>2. ASSUME NEW c \in Clients, Mount(c) \/ Request(c) \/ Step(c)
      PROVE  RootInv'
  BY <1>2, MountRoot, QuietRoot, AllocRoot, GetDirRoot, PutDirRoot, PutDataRoot, RemoveRoot,
     EraseRoot DEF Step
<1> QED
  BY <1>1, <1>2 DEF Next

LEMMA RootInvariance == OneDirectory => (Spec => []RootInv)
<1> SUFFICES ASSUME OneDirectory PROVE Spec => []RootInv
  OBVIOUS
<1>1. Init => RootInv
  BY RootInit
<1>2. RootInv /\ [Next]_vars => RootInv'
  BY RootStep
<1> QED
  BY <1>1, <1>2, PTL DEF Spec

\* With one directory, names and inodes fit together however the clients' RPCs interleave:
\* the lock of the root orders what they do to it.  (Yfs_two_dirs shows two directories fail.)
THEOREM NamesAndInodes == OneDirectory => (Spec => []NamesAndInodesAgree)
<1>1. ASSUME OneDirectory, RootInv PROVE NamesAndInodesAgree
  <2>1. BaseInv /\ RootIsSound
    BY <1>1 DEF RootInv
  <2>2. Get(1) = Root
    BY <1>1, <2>1, RootParts
  <2>3. InodeHasOneName
    BY <1>1, <2>1, <2>2 DEF InodeHasOneName, OneDirectory, RootIsSound
  <2>4. ASSUME owners[1] = {} PROVE \A e \in Root : e.ino \in Live
    <3>1. \A c \in Clients : pc[c] # "erase"
      <4> SUFFICES ASSUME NEW c \in Clients, pc[c] = "erase" PROVE FALSE
        OBVIOUS
      <4>1. LockOf(c) = 1
        BY <1>1, <2>1, RootParts DEF LockOf, BaseInv, ClientInv, AtItsOperation, Unlinking
      <4> QED
        BY <2>1, <2>4, <4>1 DEF BaseInv, ClientInv, HasLock, Working, Unlinking
    <3> QED
      BY <2>1, <3>1 DEF RootIsSound, Erasing
  <2>5. UnlockedDirIsSound
    BY <1>1, <2>1, <2>2, <2>4 DEF UnlockedDirIsSound, OneDirectory, RootIsSound
  <2>6. NoOrphan
    BY <1>1, <2>2 DEF NoOrphan, OneDirectory, RootInv, NoneForgotten, Named
  <2> QED
    BY <2>3, <2>5, <2>6 DEF NamesAndInodesAgree
<1> SUFFICES ASSUME OneDirectory PROVE Spec => []NamesAndInodesAgree
  OBVIOUS
<1>2. RootInv => NamesAndInodesAgree
  BY <1>1
<1>3. Spec => []RootInv
  BY RootInvariance
<1> QED
  BY <1>2, <1>3, PTL

-----------------------------------------------------------------------------
(* What is unlinked is not written: the files.                              *)

\* What c's step must leave alone of what client d knows.
KeepsFile(d) ==
  /\ pc[d] \in {"getdir", "putdir", "putlink"} => extent'[ino[d]] = extent[ino[d]]
  /\ pc[d] \notin Resting /\ IsWrite(d) =>
       /\ [name |-> req[d].name, ino |-> req[d].ino] \in Root'
       /\ req[d].ino \in Live' /\ extent'[req[d].ino].type = "file"
  /\ pc[d] = "put" => extent'[req[d].ino].data = extent[req[d].ino].data

LEMMA FilesFrom ==
  ASSUME FilesInv, OneDirectory, NEW c \in Clients, Mount(c) \/ Request(c) \/ Step(c),
         LinksHaveTargets', MarksOwn', KnowsFile(c)', \A d \in Clients \ {c} : KeepsFile(d)
  PROVE  FilesInv'
<1>1. RootInv'
  BY RootStep DEF FilesInv, Next
<1>2. ASSUME NEW d \in Clients \ {c} PROVE KnowsFile(d)'
  <2>1. Same(d)
    BY OthersStay DEF FilesInv, RootInv, BaseInv
  <2>2. KnowsFile(d) /\ KeepsFile(d)
    BY DEF FilesInv
  <2> QED
    BY <2>1, <2>2 DEF KnowsFile, KeepsFile, Same, IsWrite
<1> QED
  BY <1>1, <1>2 DEF FilesInv

LEMMA FilesInit == OneDirectory /\ Init => FilesInv
<1> SUFFICES ASSUME OneDirectory, Init PROVE FilesInv
  OBVIOUS
<1>1. RootInv
  BY RootInit
<1>2. Root = {}
  BY DirsAreInums DEF Init, OneDirectory, Root
<1>3. \A c \in Clients : pc[c] = "unmounted"
  BY DEF Init
<1> QED
  BY <1>1, <1>2, <1>3 DEF FilesInv, LinksHaveTargets, MarksOwn, KnowsFile, Resting

\* The steps that change no file.
LEMMA QuietFiles ==
  ASSUME FilesInv, OneDirectory, NEW c \in Clients,
         Mount(c) \/ Request(c) \/ Acquire(c) \/ Lookup(c) \/ Scan(c) \/ GetDir(c) \/ Find(c)
         \/ GetFile(c) \/ Release(c)
  PROVE  FilesInv'
<1>1. RootInv /\ BaseInv /\ TypeOK
  BY DEF FilesInv, RootInv, BaseInv
<1>2. extent' = extent /\ pc[c] # "putlink"
  BY <1>1, MountChangesNothing
     DEF Mount, Request, Acquire, Lookup, Scan, GetDir, Find, GetFile, Release
<1>3. Root' = Root /\ Live' = Live
  BY <1>2 DEF Root, Live
<1>4. \A d \in Clients \ {c} : Same(d)
  BY <1>1, OthersStay DEF Step
<1>5. LinksHaveTargets'
  BY <1>2, <1>3, <1>4 DEF FilesInv, LinksHaveTargets, Same
<1>6. MarksOwn'
  BY <1>2, <1>3 DEF FilesInv, MarksOwn
<1>7. \A d \in Clients \ {c} : KeepsFile(d)
  BY <1>2, <1>3 DEF FilesInv, KnowsFile, KeepsFile
<1> SUFFICES KnowsFile(c)'
  BY <1>5, <1>6, <1>7, FilesFrom DEF Step
<1>8. KnowsFile(c)
  BY DEF FilesInv
<1>9. CASE Mount(c) \/ Release(c)
  <2>1. pc'[c] = "idle"
    BY <1>1, <1>9 DEF Mount, Release, Goto, TypeOK
  <2> QED
    BY <2>1 DEF KnowsFile, Resting
<1>10. CASE Request(c)
  <2>1. PICK n \in Names, d \in Dirs, i \in Inums : \E op \in OpsOn[n] :
           /\ req' = [req EXCEPT ![c] = [op |-> op, dir |-> d, name |-> n, ino |-> i]]
           /\ [op |-> op, dir |-> d, name |-> n, ino |-> i] \in Requests
           /\ op \notin Makes =>
                /\ i \in Found(d, n) /\ i \notin Dirs
                /\ extent[i].type = "file" \/ (extent[i].type = "symlink" /\ op = "unlink")
    BY <1>1, <1>10, Requested
  <2>2. PICK op \in OpsOn[n] :
           /\ req' = [req EXCEPT ![c] = [op |-> op, dir |-> d, name |-> n, ino |-> i]]
           /\ [op |-> op, dir |-> d, name |-> n, ino |-> i] \in Requests
           /\ op \notin Makes =>
                /\ i \in Found(d, n) /\ i \notin Dirs
                /\ extent[i].type = "file" \/ (extent[i].type = "symlink" /\ op = "unlink")
    BY <2>1
  <2>3. req'[c] = [op |-> op, dir |-> d, name |-> n, ino |-> i] /\ pc'[c] = "acquire"
    BY <1>1, <1>10, <2>2 DEF Request, TypeOK
  <2>4. ASSUME op \in {"write", "setattr"}
        PROVE  [name |-> n, ino |-> i] \in Root /\ i \in Live /\ extent[i].type = "file"
    <3>1. i \in Found(1, n) /\ extent[i].type = "file"
      BY <2>2, <2>4 DEF Makes, OneDirectory
    <3>2. PICK e \in Root : e.name = n /\ e.ino = i
      BY <1>1, <3>1, RootParts DEF Found, EntriesFor
    <3> QED
      BY <1>1, <3>1, <3>2, RootParts DEF Found
  <2> QED
    BY <1>2, <1>3, <2>3, <2>4 DEF KnowsFile, IsWrite
<1>11. CASE Acquire(c) \/ Lookup(c) \/ Scan(c) \/ Find(c)
  <2>1. pc'[c] \notin {"getdir", "putdir", "putlink", "put"} /\ req' = req /\ pc[c] \notin Resting
    BY <1>1, <1>11 DEF Acquire, Lookup, Scan, Find, Goto, TypeOK, Resting
  <2> QED
    BY <1>2, <1>3, <1>8, <2>1 DEF KnowsFile, IsWrite
<1>12. CASE GetDir(c)
  <2>1. pc[c] = "getdir" /\ pc'[c] = "putdir" /\ req' = req /\ ino' = ino
    BY <1>1, <1>12 DEF GetDir, Goto, TypeOK
  <2> QED
    BY <1>2, <1>3, <1>8, <2>1 DEF KnowsFile, IsWrite, Resting
<1>13. CASE GetFile(c)
  <2>1. pc[c] = "get" /\ pc'[c] = "put" /\ req' = req /\ buf'[c] = Get(req[c].ino)
    BY <1>1, <1>13 DEF GetFile, Goto, TypeOK
  <2>2. IsWrite(c) /\ req[c].ino \in Live
    BY <1>1, <1>8, <2>1 DEF BaseInv, ClientInv, AtItsOperation, Writing, KnowsFile, Resting
  <2> QED
    BY <1>2, <1>3, <1>8, <2>1, <2>2 DEF KnowsFile, IsWrite, Resting, Get
<1> QED
  BY <1>9, <1>10, <1>11, <1>12, <1>13

LEMMA PutFileDoes ==
  ASSUME FilesInv, OneDirectory, NEW c \in Clients, PutFile(c)
  PROVE  /\ pc[c] = "put" /\ pc'[c] = "release" /\ res'[c] = "OK"
         /\ UNCHANGED <<req, buf, ino>> /\ \A d \in Clients \ {c} : pc'[d] = pc[d]
         /\ IsWrite(c) /\ req[c].ino \in Live \ {1} /\ extent[req[c].ino].type = "file"
         /\ [name |-> req[c].name, ino |-> req[c].ino] \in Root
         /\ [clt |-> c, name |-> req[c].name] \in Marks
         /\ Root' = Root /\ Live' = Live
         /\ extent'[req[c].ino].type = extent[req[c].ino].type
         /\ extent'[req[c].ino].data =
              IF req[c].op = "write"
              THEN extent[req[c].ino].data \cup {[clt |-> c, name |-> req[c].name]} ELSE {}
         /\ \A j \in Inums \ {req[c].ino} : extent'[j] = extent[j]
<1>1. RootInv /\ BaseInv /\ TypeOK
  BY DEF FilesInv, RootInv, BaseInv
<1> PICK data : data = IF req[c].op = "write"
                       THEN buf[c] \cup {[clt |-> c, name |-> req[c].name]} ELSE {}
  OBVIOUS
<1>2. /\ pc[c] = "put" /\ pc'[c] = "release" /\ res'[c] = "OK"
      /\ UNCHANGED <<req, buf, ino>> /\ \A d \in Clients \ {c} : pc'[d] = pc[d]
      /\ Put(req[c].ino, data)
  BY <1>1 DEF PutFile, Goto, TypeOK
<1>3. IsWrite(c) /\ req[c].name \in Names /\ req[c].ino # 1
  BY <1>1, <1>2 DEF BaseInv, ClientInv, AtItsOperation, Writing, Resting, OneDirectory
<1>4. /\ [name |-> req[c].name, ino |-> req[c].ino] \in Root
      /\ req[c].ino \in Live \ {1} /\ extent[req[c].ino].type = "file"
      /\ buf[c] = extent[req[c].ino].data
  BY <1>2, <1>3 DEF FilesInv, KnowsFile, Resting
<1>5. [clt |-> c, name |-> req[c].name] \in Marks
  BY <1>3 DEF Marks
<1>6. data \in SUBSET (Entries \cup Marks)
  BY <1>1, <1>5 DEF TypeOK
<1>7. /\ Root' = Root /\ Live' = Live
      /\ extent'[req[c].ino].type = extent[req[c].ino].type
      /\ extent'[req[c].ino].data = data
      /\ \A j \in Inums \ {req[c].ino} : extent'[j] = extent[j]
  BY <1>1, <1>2, <1>4, <1>6, PutDataDoes
<1> QED
  BY <1>2, <1>3, <1>4, <1>5, <1>7

\* What the clients that make, and those that write, depend on: at most one makes, in an inode
\* of its own that is no file in use, and nobody but the one that has its lock writes a file.
LEMMA WhoUsesWhat ==
  ASSUME FilesInv, OneDirectory, NEW d \in Clients
  PROVE  /\ pc[d] \in {"getdir", "putdir", "putlink"} => ino[d] \in Live \ {1} /\ pc[d] \in AtRoot
         /\ pc[d] \notin Resting /\ IsWrite(d) =>
              /\ req[d].ino \in Live \ {1} /\ extent[req[d].ino].type = "file"
              /\ [name |-> req[d].name, ino |-> req[d].ino] \in Root
              /\ req[d].op \in OpsOn[req[d].name] /\ req[d].name \in Names
         /\ pc[d] = "put" => IsWrite(d) /\ pc[d] \notin Resting /\ owners[req[d].ino] = {d}
<1>1. RootInv /\ BaseInv /\ KnowsFile(d) /\ KnowsRoot(d) /\ AtItsOperation(d) /\ HasLock(d)
  BY DEF FilesInv, RootInv, BaseInv, ClientInv
<1>2. pc[d] \in {"getdir", "putdir", "putlink"} => ino[d] \in Live \ {1} /\ pc[d] \in AtRoot
  BY <1>1 DEF KnowsRoot, AtItsOperation, OneDirectory, AtRoot, Making
<1>3. pc[d] \notin Resting /\ IsWrite(d) =>
        /\ req[d].ino \in Live \ {1} /\ extent[req[d].ino].type = "file"
        /\ [name |-> req[d].name, ino |-> req[d].ino] \in Root
        /\ req[d].op \in OpsOn[req[d].name] /\ req[d].name \in Names
  BY <1>1 DEF KnowsFile, AtItsOperation, OneDirectory
<1>4. pc[d] = "put" => IsWrite(d) /\ pc[d] \notin Resting /\ owners[req[d].ino] = {d}
  BY <1>1 DEF AtItsOperation, HasLock, LockOf, IsWrite, Working, Writing, Resting
<1> QED
  BY <1>2, <1>3, <1>4

LEMMA AllocFiles == ASSUME FilesInv, OneDirectory, NEW c \in Clients, Alloc(c) PROVE FilesInv'
<1>1. RootInv /\ BaseInv
  BY DEF FilesInv, RootInv
<1>2. /\ pc[c] = "alloc" /\ pc'[c] = "getdir" /\ UNCHANGED <<req, buf, ino, res>>
      /\ \A d \in Clients \ {c} : pc'[d] = pc[d]
      /\ ino[c] \in Inums \ {1} /\ ino[c] \notin Live /\ ~Named(ino[c])
      /\ Root' = Root /\ Live' = Live \cup {ino[c]}
      /\ extent'[ino[c]] = [type |-> TypeOf(req[c].op), data |-> {}]
      /\ \A j \in Inums \ {ino[c]} : extent'[j] = extent[j]
  BY <1>1, AllocDoes
<1>3. \A i \in Live : extent'[i] = extent[i]
  BY <1>2 DEF Live
<1>4. \A e \in Root : e.ino \in Live' => e.ino \in Live
  BY <1>2 DEF Named
<1>5. LinksHaveTargets'
  <2>1. \A d \in Clients : pc[d] = "putlink" => pc'[d] = "putlink"
    BY <1>2
  <2> QED
    BY <1>2, <1>3, <1>4, <2>1 DEF FilesInv, LinksHaveTargets
<1>6. MarksOwn'
  BY <1>2, <1>3, <1>4 DEF FilesInv, MarksOwn
<1>7. \A d \in Clients \ {c} : KeepsFile(d)
  BY <1>2, <1>3, WhoUsesWhat DEF KeepsFile
<1>8. KnowsFile(c)'
  <2>1. ~IsWrite(c)
    BY <1>1, <1>2 DEF BaseInv, ClientInv, AtItsOperation, IsWrite, Making, Makes
  <2> QED
    BY <1>2, <2>1 DEF KnowsFile, IsWrite
<1> QED
  BY <1>5, <1>6, <1>7, <1>8, FilesFrom DEF Step

LEMMA PutDirFiles == ASSUME FilesInv, OneDirectory, NEW c \in Clients, PutDir(c) PROVE FilesInv'
<1>1. RootInv /\ BaseInv
  BY DEF FilesInv, RootInv
<1>2. /\ pc[c] = "putdir" /\ pc'[c] = IF req[c].op = "symlink" THEN "putlink" ELSE "release"
      /\ UNCHANGED <<req, buf, ino>> /\ \A d \in Clients \ {c} : pc'[d] = pc[d]
      /\ ino[c] \in Live \ {1} /\ ~Named(ino[c])
      /\ Root' = Root \cup {EntryOf(c)} /\ Live' = Live
      /\ \A j \in Inums \ {1} : extent'[j] = extent[j]
  BY <1>1, PutDirDoes
<1>3. \A i \in Live \ {1} : extent'[i] = extent[i]
  BY <1>2 DEF Live
<1>4. extent[ino[c]] = [type |-> TypeOf(req[c].op), data |-> {}]
  BY <1>2 DEF FilesInv, KnowsFile
<1>5. extent'[ino[c]].type = TypeOf(req[c].op) /\ extent'[ino[c]].data = {}
  BY <1>2, <1>3, <1>4
<1>6. \A e \in Root : e.ino # 1
  BY <1>1, RootParts
<1>7. EntryOf(c).ino = ino[c]
  BY DEF EntryOf
<1>8. LinksHaveTargets'
  <2> SUFFICES ASSUME NEW e \in Root', e.ino \in Live', extent'[e.ino].type = "symlink",
                      extent'[e.ino].data = {}
               PROVE  \E d \in Clients : pc'[d] = "putlink" /\ ino'[d] = e.ino
    BY DEF LinksHaveTargets
  <2>1. CASE e \in Root
    <3>1. PICK d \in Clients : pc[d] = "putlink" /\ ino[d] = e.ino
      BY <1>2, <1>3, <1>6, <2>1 DEF FilesInv, LinksHaveTargets
    <3> QED
      BY <1>2, <3>1
  <2>2. CASE e = EntryOf(c)
    <3>1. req[c].op = "symlink"
      BY <1>5, <1>7, <2>2 DEF TypeOf
    <3> QED
      BY <1>2, <1>7, <2>2, <3>1
  <2> QED
    BY <1>2, <2>1, <2>2
<1>9. MarksOwn'
  BY <1>2, <1>3, <1>5, <1>6, <1>7 DEF FilesInv, MarksOwn
<1>10. \A d \in Clients \ {c} : KeepsFile(d)
  BY <1>2, <1>3, WhoUsesWhat DEF KeepsFile
<1>11. KnowsFile(c)'
  <2>1. ~IsWrite(c)
    BY <1>1, <1>2 DEF BaseInv, ClientInv, AtItsOperation, IsWrite, Making, Makes
  <2> QED
    BY <1>2, <1>3, <1>4, <2>1 DEF KnowsFile, IsWrite
<1> QED
  BY <1>8, <1>9, <1>10, <1>11, FilesFrom DEF Step

LEMMA NewLink ==
  ASSUME FilesInv, NEW c \in Clients, pc[c] = "putlink"
  PROVE  req[c].op = "symlink" /\ extent[ino[c]].type = "symlink" /\ extent[ino[c]].data = {}
<1>1. req[c].op = "symlink"
  BY DEF FilesInv, RootInv, BaseInv, ClientInv, AtItsOperation
<1>2. TypeOf("symlink") = "symlink"
  BY DEF TypeOf
<1>3. extent[ino[c]] = [type |-> TypeOf(req[c].op), data |-> {}]
  BY DEF FilesInv, KnowsFile
<1> QED
  BY <1>1, <1>2, <1>3

LEMMA PutLinkFiles == ASSUME FilesInv, OneDirectory, NEW c \in Clients, PutLink(c) PROVE FilesInv'
<1>1. RootInv /\ BaseInv
  BY DEF FilesInv, RootInv
<1>2. /\ pc[c] = "putlink" /\ pc'[c] = "release" /\ UNCHANGED <<req, buf, ino>>
      /\ \A d \in Clients \ {c} : pc'[d] = pc[d]
      /\ ino[c] \in Live \ {1} /\ EntryOf(c) \in Root
      /\ [clt |-> c, name |-> req[c].name] \in Marks
      /\ Root' = Root /\ Live' = Live
      /\ extent'[ino[c]].type = extent[ino[c]].type
      /\ extent'[ino[c]].data = {[clt |-> c, name |-> req[c].name]}
      /\ \A j \in Inums \ {ino[c]} : extent'[j] = extent[j]
  BY <1>1, PutLinkDoes
<1>3. \A i \in Live \ {ino[c]} : extent'[i] = extent[i]
  BY <1>2 DEF Live
<1>4. req[c].op = "symlink" /\ ~IsWrite(c)
  BY <1>1, <1>2 DEF BaseInv, ClientInv, AtItsOperation, IsWrite
<1>5. extent[ino[c]].type = "symlink"
  BY <1>2, NewLink
<1>6. \A e \in Root : e.ino = ino[c] => e.name = req[c].name
  BY <1>1, <1>2 DEF RootInv, RootIsSound, EntryOf
<1>7. LinksHaveTargets'
  <2> SUFFICES ASSUME NEW e \in Root, e.ino \in Live, extent'[e.ino].type = "symlink",
                      extent'[e.ino].data = {}
               PROVE  \E d \in Clients : pc'[d] = "putlink" /\ ino'[d] = e.ino
    BY <1>2 DEF LinksHaveTargets
  <2>1. e.ino # ino[c]
    BY <1>2
  <2>2. PICK d \in Clients : pc[d] = "putlink" /\ ino[d] = e.ino
    BY <1>3, <2>1 DEF FilesInv, LinksHaveTargets
  <2> QED
    BY <1>2, <2>1, <2>2
<1>8. MarksOwn'
  <2> SUFFICES ASSUME NEW e \in Root, e.ino \in Live, NEW m \in extent'[e.ino].data
               PROVE  m \in Marks /\ m.name = e.name
    BY <1>2 DEF MarksOwn
  <2>1. CASE e.ino = ino[c]
    BY <1>2, <1>6, <2>1
  <2>2. CASE e.ino # ino[c]
    BY <1>3, <2>2 DEF FilesInv, MarksOwn
  <2> QED
    BY <2>1, <2>2
<1>9. \A d \in Clients \ {c} : KeepsFile(d)
  <2> SUFFICES ASSUME NEW d \in Clients \ {c} PROVE KeepsFile(d)
    OBVIOUS
  <2>1. pc[d] \notin {"getdir", "putdir", "putlink"}
    BY <1>1, <1>2, OneAtRoot DEF AtRoot, Making
  <2>2. pc[d] \notin Resting /\ IsWrite(d) => req[d].ino # ino[c]
    BY <1>5, WhoUsesWhat
  <2> QED
    BY <1>2, <1>3, <2>1, <2>2, WhoUsesWhat DEF KeepsFile
<1>10. KnowsFile(c)'
  BY <1>2, <1>4 DEF KnowsFile, IsWrite
<1> QED
  BY <1>7, <1>8, <1>9, <1>10, FilesFrom DEF Step

\* The inode that goes is no file in use: its name is not one that is written.
LEMMA RemoveFiles ==
  ASSUME FilesInv, OneDirectory, NamesApart, NEW c \in Clients, Remove(c)
  PROVE  FilesInv'
<1>1. RootInv /\ BaseInv
  BY DEF FilesInv, RootInv
<1>2. /\ pc[c] = "remove" /\ pc'[c] = "erase" /\ UNCHANGED <<req, buf, ino>>
      /\ \A d \in Clients \ {c} : pc'[d] = pc[d]
      /\ ino[c] \in Live \ {1} /\ EntryOf(c) \in Root
      /\ Root' = Root /\ Live' = Live \ {ino[c]}
      /\ \A j \in Inums \ {ino[c]} : extent'[j] = extent[j]
  BY <1>1, RemoveDoes
<1>3. \A i \in Live \ {ino[c]} : extent'[i] = extent[i]
  BY <1>2 DEF Live
<1>4. req[c].op = "unlink" /\ req[c].name \in Names /\ req[c].op \in OpsOn[req[c].name]
  BY <1>1, <1>2 DEF BaseInv, ClientInv, AtItsOperation, Unlinking, Resting
<1>5. LinksHaveTargets'
  <2> SUFFICES ASSUME NEW e \in Root, e.ino \in Live \ {ino[c]}, extent'[e.ino].type = "symlink",
                      extent'[e.ino].data = {}
               PROVE  \E d \in Clients : pc'[d] = "putlink" /\ ino'[d] = e.ino
    BY <1>2 DEF LinksHaveTargets
  <2>1. PICK d \in Clients : pc[d] = "putlink" /\ ino[d] = e.ino
    BY <1>3 DEF FilesInv, LinksHaveTargets
  <2> QED
    BY <1>2, <2>1
<1>6. MarksOwn'
  BY <1>2, <1>3 DEF FilesInv, MarksOwn
<1>7. \A d \in Clients \ {c} : KeepsFile(d)
  <2> SUFFICES ASSUME NEW d \in Clients \ {c} PROVE KeepsFile(d)
    OBVIOUS
  <2>1. pc[d] \notin {"getdir", "putdir", "putlink"}
    BY <1>1, <1>2, OneAtRoot DEF AtRoot, Making, Unlinking
  <2>2. ASSUME pc[d] \notin Resting, IsWrite(d) PROVE req[d].ino # ino[c]
    <3> SUFFICES ASSUME req[d].ino = ino[c] PROVE FALSE
      OBVIOUS
    <3>1. /\ [name |-> req[d].name, ino |-> req[d].ino] \in Root
          /\ req[d].op \in OpsOn[req[d].name] /\ req[d].name \in Names
      BY <2>2, WhoUsesWhat
    <3>2. req[d].name = req[c].name
      BY <1>1, <1>2, <3>1 DEF RootInv, RootIsSound, EntryOf
    <3> QED
      BY <1>4, <2>2, <3>1, <3>2 DEF NamesApart, IsWrite
  <2> QED
    BY <1>2, <1>3, <2>1, <2>2, WhoUsesWhat DEF KeepsFile
<1>8. KnowsFile(c)'
  BY <1>2, <1>4 DEF KnowsFile, IsWrite
<1> QED
  BY <1>5, <1>6, <1>7, <1>8, FilesFrom DEF Step

LEMMA EraseFiles == ASSUME FilesInv, OneDirectory, NEW c \in Clients, Erase(c) PROVE FilesInv'
<1>1. RootInv /\ BaseInv
  BY DEF FilesInv, RootInv
<1>2. /\ pc[c] = "erase" /\ pc'[c] = "release" /\ UNCHANGED <<req, buf, ino>>
      /\ \A d \in Clients \ {c} : pc'[d] = pc[d]
      /\ ino[c] \notin Live /\ EntryOf(c) \in Root
      /\ Root' = Root \ {EntryOf(c)} /\ Live' = Live
      /\ \A j \in Inums \ {1} : extent'[j] = extent[j]
  BY <1>1, EraseDoes
<1>3. \A i \in Live \ {1} : extent'[i] = extent[i]
  BY <1>2 DEF Live
<1>4. req[c].op = "unlink" /\ ~IsWrite(c)
  BY <1>1, <1>2 DEF BaseInv, ClientInv, AtItsOperation, Unlinking, IsWrite
<1>5. \A e \in Root' : e \in Root /\ e.ino # 1
  BY <1>1, <1>2, RootParts
<1>6. LinksHaveTargets'
  <2>1. \A d \in Clients : pc[d] = "putlink" => pc'[d] = "putlink"
    BY <1>2
  <2> QED
    BY <1>2, <1>3, <1>5, <2>1 DEF FilesInv, LinksHaveTargets
<1>7. MarksOwn'
  BY <1>2, <1>3, <1>5 DEF FilesInv, MarksOwn
<1>8. \A d \in Clients \ {c} : KeepsFile(d)
  <2> SUFFICES ASSUME NEW d \in Clients \ {c} PROVE KeepsFile(d)
    OBVIOUS
  <2>1. pc[d] \notin Resting /\ IsWrite(d) =>
          [name |-> req[d].name, ino |-> req[d].ino] \in Root'
    BY <1>2, WhoUsesWhat DEF EntryOf
  <2> QED
    BY <1>2, <1>3, <2>1, WhoUsesWhat DEF KeepsFile
<1>9. KnowsFile(c)'
  BY <1>2, <1>4 DEF KnowsFile, IsWrite
<1> QED
  BY <1>6, <1>7, <1>8, <1>9, FilesFrom DEF Step

LEMMA PutFileFiles == ASSUME FilesInv, OneDirectory, NEW c \in Clients, PutFile(c) PROVE FilesInv'
<1>1. RootInv /\ BaseInv
  BY DEF FilesInv, RootInv
<1> DEFINE i == req[c].ino
<1>2. /\ pc[c] = "put" /\ pc'[c] = "release" /\ UNCHANGED <<req, buf, ino>>
      /\ \A d \in Clients \ {c} : pc'[d] = pc[d]
      /\ IsWrite(c) /\ i \in Live \ {1} /\ extent[i].type = "file"
      /\ [name |-> req[c].name, ino |-> i] \in Root
      /\ [clt |-> c, name |-> req[c].name] \in Marks
      /\ Root' = Root /\ Live' = Live /\ extent'[i].type = extent[i].type
      /\ extent'[i].data = IF req[c].op = "write"
                           THEN extent[i].data \cup {[clt |-> c, name |-> req[c].name]} ELSE {}
      /\ \A j \in Inums \ {i} : extent'[j] = extent[j]
  BY PutFileDoes
<1>3. \A m \in extent'[i].data :
        m \in extent[i].data \/ m = [clt |-> c, name |-> req[c].name]
  BY <1>2
<1>4. \A j \in Live \ {i} : extent'[j] = extent[j]
  BY <1>2 DEF Live
<1>5. \A e \in Root : e.ino = i => e.name = req[c].name
  BY <1>1, <1>2 DEF RootInv, RootIsSound
<1>6. LinksHaveTargets'
  <2> SUFFICES ASSUME NEW e \in Root, e.ino \in Live, extent'[e.ino].type = "symlink",
                      extent'[e.ino].data = {}
               PROVE  \E d \in Clients : pc'[d] = "putlink" /\ ino'[d] = e.ino
    BY <1>2 DEF LinksHaveTargets
  <2>1. e.ino # i
    BY <1>2
  <2>2. PICK d \in Clients : pc[d] = "putlink" /\ ino[d] = e.ino
    BY <1>4, <2>1 DEF FilesInv, LinksHaveTargets
  <2> QED
    BY <1>2, <2>2
<1>7. MarksOwn'
  <2> SUFFICES ASSUME NEW e \in Root, e.ino \in Live, NEW m \in extent'[e.ino].data
               PROVE  m \in Marks /\ m.name = e.name
    BY <1>2 DEF MarksOwn
  <2>1. CASE e.ino = i
    BY <1>2, <1>3, <1>5, <2>1 DEF FilesInv, MarksOwn
  <2>2. CASE e.ino # i
    BY <1>4, <2>2 DEF FilesInv, MarksOwn
  <2> QED
    BY <2>1, <2>2
<1>8. \A d \in Clients \ {c} : KeepsFile(d)
  <2> SUFFICES ASSUME NEW d \in Clients \ {c} PROVE KeepsFile(d)
    OBVIOUS
  <2>1. pc[d] \in {"getdir", "putdir", "putlink"} => ino[d] # i
    <3> SUFFICES ASSUME pc[d] \in {"getdir", "putdir", "putlink"}, ino[d] = i PROVE FALSE
      OBVIOUS
    <3>1. Named(i) /\ extent[i].type = "file"
      BY <1>2 DEF Named
    <3>2. pc[d] = "putlink"
      BY <1>1, <3>1 DEF RootInv, KnowsRoot
    <3> QED
      BY <3>1, <3>2, NewLink
  <2>2. pc[d] = "put" => req[d].ino # i
    BY <1>2, WhoUsesWhat
  <2> QED
    BY <1>2, <1>4, <2>1, <2>2, WhoUsesWhat DEF KeepsFile
<1>9. KnowsFile(c)'
  BY <1>2 DEF KnowsFile, IsWrite
<1> QED
  BY <1>6, <1>7, <1>8, <1>9, FilesFrom DEF Step

LEMMA FilesStutters == FilesInv /\ UNCHANGED vars => FilesInv'
<1> SUFFICES ASSUME FilesInv, UNCHANGED vars PROVE FilesInv'
  OBVIOUS
<1>1. RootInv'
  BY RootStutters DEF FilesInv
<1>2. LinksHaveTargets' /\ MarksOwn' /\ \A c \in Clients : KnowsFile(c)'
  BY DEF FilesInv, vars, LinksHaveTargets, MarksOwn, KnowsFile, Root, Live, IsWrite
<1> QED
  BY <1>1, <1>2 DEF FilesInv

LEMMA FilesStep == OneDirectory /\ NamesApart /\ FilesInv /\ [Next]_vars => FilesInv'
<1> SUFFICES ASSUME OneDirectory, NamesApart, FilesInv, [Next]_vars PROVE FilesInv'
  OBVIOUS
<1>1. CASE UNCHANGED vars
  BY <1>1, FilesStutters
<1>2. ASSUME NEW c \in Clients, Mount(c) \/ Request(c) \/ Step(c)
      PROVE  FilesInv'
  BY <1>2, QuietFiles, AllocFiles, PutDirFiles, PutLinkFiles, RemoveFiles, EraseFiles,
     PutFileFiles DEF Step
<1> QED
  BY <1>1, <1>2 DEF Next

LEMMA FilesInvariance == OneDirectory /\ NamesApart => (Spec => []FilesInv)
<1> SUFFICES ASSUME OneDirectory, NamesApart PROVE Spec => []FilesInv
  OBVIOUS
<1>1. Init => FilesInv
  BY FilesInit
<1>2. FilesInv /\ [Next]_vars => FilesInv'
  BY FilesStep
<1> QED
  BY <1>1, <1>2, PTL DEF Spec

\* A file holds only what was written through its own name, and a link its own target: the
\* inode of a write is not another name's by the time of its put.  (Yfs_unlink_write shows
\* that this fails for names that are unlinked and written.)
THEOREM WritesStay == OneDirectory /\ NamesApart => (Spec => []WritesStayInTheirFile)
<1> SUFFICES ASSUME OneDirectory, NamesApart PROVE Spec => []WritesStayInTheirFile
  OBVIOUS
<1>1. FilesInv => WritesStayInTheirFile
  <2> SUFFICES ASSUME FilesInv PROVE WritesStayInTheirFile
    OBVIOUS
  <2>1. Get(1) = Root
    BY RootParts DEF FilesInv, RootInv
  <2> QED
    BY <2>1 DEF WritesStayInTheirFile, OneDirectory, FilesInv, MarksOwn
<1>2. Spec => []FilesInv
  BY FilesInvariance
<1> QED
  BY <1>1, <1>2, PTL

-----------------------------------------------------------------------------
(* The refinement: the tree that the entries and the inodes show.           *)

Shown(i) ==
  IF extent[i].type # "symlink" \/ extent[i].data # {} THEN extent[i].data ELSE Absent

TreeAt(n) == Tree[<<1, n>>]
CallOf(c) == Calls[c]
Idle == [op |-> "none"]

LEMMA TreeIs ==
  ASSUME RootInv, OneDirectory
  PROVE  /\ Tree = [p \in {1} \X Names |-> TreeAt(p[2])]
         /\ \A e \in Root : e.ino \in Live => TreeAt(e.name) = Shown(e.ino)
         /\ \A n \in Names : (\A e \in Root : e.name = n => e.ino \notin Live) => TreeAt(n) = Absent
<1>1. BaseInv /\ RootIsSound
  BY DEF RootInv
<1>2. Get(1) = Root /\ Root \subseteq Entries
  BY <1>1, RootParts
<1>3. \A n \in Names :
        TreeAt(n) = LET is == Found(1, n)
                    IN  IF \E i \in is : extent[i].type # "symlink" \/ extent[i].data # {}
                        THEN extent[CHOOSE i \in is : TRUE].data ELSE Absent
  BY SMTT(30) DEF TreeAt, Tree, OneDirectory
<1>4. ASSUME NEW e \in Root, e.ino \in Live PROVE TreeAt(e.name) = Shown(e.ino)
  <2>1. Found(1, e.name) = {e.ino}
    BY <1>1, <1>2, <1>4 DEF Found, EntriesFor, RootIsSound
  <2>2. e.name \in Names
    BY <1>2 DEF Entries
  <2>3. (CHOOSE i \in {e.ino} : TRUE) = e.ino
    OBVIOUS
  <2> QED
    BY <1>3, <2>1, <2>2, <2>3 DEF Shown
<1>5. ASSUME NEW n \in Names, \A e \in Root : e.name = n => e.ino \notin Live
      PROVE  TreeAt(n) = Absent
  <2>1. Found(1, n) = {}
    BY <1>2, <1>5 DEF Found, EntriesFor
  <2> QED
    BY <1>3, <2>1
<1>6. Tree = [p \in {1} \X Names |-> TreeAt(p[2])]
  <2>1. \A p \in {1} \X Names : p = <<1, p[2]>>
    OBVIOUS
  <2>2. Tree = [p \in {1} \X Names |-> Tree[p]]
    BY DEF Tree, OneDirectory
  <2>3. \A p \in {1} \X Names : Tree[p] = TreeAt(p[2])
    BY <2>1 DEF TreeAt
  <2> QED
    BY <2>2, <2>3
<1> QED
  BY <1>4, <1>5, <1>6

\* What a file shows is never mistaken for its absence.
LEMMA ShownIsThere ==
  ASSUME FilesInv, OneDirectory, NEW e \in Root, e.ino \in Live
  PROVE  /\ extent[e.ino].data \in SUBSET Marks /\ extent[e.ino].data # Absent
         /\ Shown(e.ino) # Absent <=> extent[e.ino].type # "symlink" \/ extent[e.ino].data # {}
<1>1. extent[e.ino].data \in SUBSET Marks
  BY DEF FilesInv, MarksOwn
<1> QED
  BY <1>1, YfsAssumption DEF Shown

TreeShows ==
  /\ Tree = [p \in {1} \X Names |-> TreeAt(p[2])]
  /\ \A e \in Root : e.ino \in Live => TreeAt(e.name) = Shown(e.ino)
  /\ \A n \in Names : (\A e \in Root : e.name = n => e.ino \notin Live) => TreeAt(n) = Absent

LEMMA TreeShowsNext == OneDirectory /\ RootInv' => TreeShows'
<1>1. OneDirectory /\ RootInv => TreeShows
  BY TreeIs DEF TreeShows
<1>2. OneDirectory' <=> OneDirectory
  BY DEF OneDirectory
<1> QED
  BY <1>1, <1>2, PTL

\* A name whose entry and file stay shows the same.
LEMMA NameStays ==
  ASSUME RootInv, RootInv', OneDirectory, NEW n \in Names,
         \A e \in Root : e.name = n /\ e.ino \in Live =>
            e \in Root' /\ e.ino \in Live' /\ extent'[e.ino] = extent[e.ino],
         \A e \in Root' : e.name = n /\ e.ino \in Live' => e \in Root /\ e.ino \in Live
  PROVE  TreeAt(n)' = TreeAt(n)
<1>1. TreeShows /\ TreeShows'
  BY TreeIs, TreeShowsNext DEF TreeShows
<1>2. ASSUME NEW e \in Root, e.name = n, e.ino \in Live PROVE TreeAt(n)' = TreeAt(n)
  <2>1. e \in Root' /\ e.ino \in Live' /\ extent'[e.ino] = extent[e.ino]
    BY <1>2
  <2>2. TreeAt(n) = Shown(e.ino) /\ TreeAt(n)' = Shown(e.ino)'
    BY <1>1, <1>2, <2>1 DEF TreeShows
  <2>3. Shown(e.ino)' = Shown(e.ino)
    BY <2>1 DEF Shown
  <2> QED
    BY <2>2, <2>3
<1>3. ASSUME \A e \in Root : e.name = n => e.ino \notin Live PROVE TreeAt(n)' = TreeAt(n)
  <2>1. \A e \in Root' : e.name = n => e.ino \notin Live'
    BY <1>3
  <2>2. TreeAt(n) = Absent /\ TreeAt(n)' = Absent
    BY <1>1, <1>3, <2>1 DEF TreeShows
  <2> QED
    BY <2>2
<1> QED
  BY <1>2, <1>3

LEMMA TreeStays ==
  ASSUME RootInv, RootInv', OneDirectory, \A n \in Names : TreeAt(n)' = TreeAt(n)
  PROVE  Tree' = Tree
<1>1. TreeShows /\ TreeShows'
  BY TreeIs, TreeShowsNext DEF TreeShows
<1>2. Tree' = [p \in {1} \X Names |-> TreeAt(p[2])'] /\ Tree = [p \in {1} \X Names |-> TreeAt(p[2])]
  BY <1>1 DEF TreeShows
<1>3. \A p \in {1} \X Names : TreeAt(p[2])' = TreeAt(p[2])
  OBVIOUS
<1> QED
  BY <1>2, <1>3

\* The other clients' calls stay.
LEMMA OtherCalls ==
  ASSUME TypeOK, NEW c \in Clients, Mount(c) \/ Request(c) \/ Step(c)
  PROVE  \A d \in Clients \ {c} : CallOf(d)' = CallOf(d)
<1>1. \A d \in Clients \ {c} : Same(d)
  BY OthersStay
<1> QED
  BY <1>1 DEF CallOf, Calls, Same

LEMMA CallsAre == Calls = [c \in Clients |-> CallOf(c)] /\ Calls' = [c \in Clients |-> CallOf(c)']
BY DEF CallOf, Calls

\* A step that shows nothing.
LEMMA Unseen ==
  ASSUME RootInv, RootInv', OneDirectory, NEW c \in Clients, Mount(c) \/ Request(c) \/ Step(c),
         CallOf(c)' = CallOf(c), \A n \in Names : TreeAt(n)' = TreeAt(n)
  PROVE  UNCHANGED <<Tree, Calls>>
<1>1. \A d \in Clients : CallOf(d)' = CallOf(d)
  BY OtherCalls DEF RootInv, BaseInv
<1>2. Calls' = Calls
  BY <1>1, CallsAre
<1> QED
  BY <1>2, TreeStays

\* What a client at work shows of its call.
LEMMA CallAtWork ==
  ASSUME BaseInv, OneDirectory, NEW c \in Clients, pc[c] \notin Resting
  PROVE  /\ CallOf(c) = [op |-> req[c].op, dir |-> 1, name |-> req[c].name,
                         res |-> IF pc[c] = "erase" THEN "OK" ELSE res[c]]
         /\ pc[c] # "release" => res[c] = "none"
         /\ pc[c] = "release" => res[c] # "none"
         /\ req[c].name \in Names /\ req[c].op \in OpsOn[req[c].name]
         /\ req[c].op \in {"create", "mkdir", "symlink", "unlink", "write", "setattr"}
         /\ CallOf(c) # Idle
<1>1. AtItsOperation(c) /\ TypeOK
  BY DEF BaseInv, ClientInv
<1>2. CallOf(c) = [op |-> req[c].op, dir |-> 1, name |-> req[c].name,
                   res |-> IF pc[c] = "erase" THEN "OK" ELSE res[c]]
  BY RootParts DEF CallOf, Calls, Resting
<1>3. req[c].name \in Names /\ req[c].op \in OpsOn[req[c].name]
  BY <1>1 DEF AtItsOperation
<1>4. req[c].op \in {"create", "mkdir", "symlink", "unlink", "write", "setattr"}
  BY <1>3, YfsAssumption
<1>5. CallOf(c).op # Idle.op
  BY <1>2, <1>4 DEF Idle
<1> QED
  BY <1>1, <1>2, <1>3, <1>4, <1>5 DEF AtItsOperation, TypeOK

\* A step in which a call takes effect.
LEMMA Performs ==
  ASSUME RootInv, RootInv', OneDirectory, NEW c \in Clients, Step(c), NEW o, NEW n \in Names, NEW r,
         CallOf(c) = [op |-> o, dir |-> 1, name |-> n, res |-> "none"], CallOf(c) # Idle,
         CallOf(c)' = [op |-> o, dir |-> 1, name |-> n, res |-> r],
         r = Service!Result(o, TreeAt(n)),
         TreeAt(n)' = Service!Effect(c, o, n, TreeAt(n)),
         \A m \in Names \ {n} : TreeAt(m)' = TreeAt(m)
  PROVE  Service!Perform(c)
<1>1. TreeShows /\ TreeShows'
  BY TreeIs, TreeShowsNext DEF TreeShows
<1>2. Tree' = [p \in {1} \X Names |-> TreeAt(p[2])'] /\ Tree = [p \in {1} \X Names |-> TreeAt(p[2])]
  BY <1>1 DEF TreeShows
<1> PICK v : v = Service!Effect(c, o, n, TreeAt(n))
  OBVIOUS
<1>3. Tree' = [Tree EXCEPT ![<<1, n>>] = v]
  <2>1. \A p \in {1} \X Names : TreeAt(p[2])' = IF p = <<1, n>> THEN v ELSE TreeAt(p[2])
    <3> SUFFICES ASSUME NEW p \in {1} \X Names
                 PROVE  TreeAt(p[2])' = IF p = <<1, n>> THEN v ELSE TreeAt(p[2])
      OBVIOUS
    <3>1. p = <<1, n>> <=> p[2] = n
      OBVIOUS
    <3>2. p[2] \in Names
      OBVIOUS
    <3> QED
      BY <3>1, <3>2
  <2>2. Tree' = [p \in {1} \X Names |-> IF p = <<1, n>> THEN v ELSE TreeAt(p[2])]
    BY <1>2, <2>1
  <2> QED
    BY <1>2, <2>2
<1>4. \A d \in Clients \ {c} : CallOf(d)' = CallOf(d)
  BY OtherCalls DEF RootInv, BaseInv
<1>5. Calls' = [Calls EXCEPT ![c] = [op |-> o, dir |-> 1, name |-> n, res |-> r]]
  BY <1>4, CallsAre
<1>6. Calls[c] = [op |-> o, dir |-> 1, name |-> n, res |-> "none"] /\ Calls[c] # Idle
  BY DEF CallOf
<1>7. Calls' = [Calls EXCEPT ![c].res = r]
  <2>1. [[op |-> o, dir |-> 1, name |-> n, res |-> "none"] EXCEPT !.res = r]
        = [op |-> o, dir |-> 1, name |-> n, res |-> r]
    OBVIOUS
  <2> QED
    BY ONLY <1>5, <1>6, <2>1
<1>8. Tree[<<1, n>>] = TreeAt(n)
  BY DEF TreeAt
<1>9. /\ <<Calls[c].dir, Calls[c].name>> = <<1, n>>
      /\ Calls[c].op = o /\ Calls[c].name = n /\ Calls[c].res = "none"
  BY <1>6
<1>10. /\ Tree' = [Tree EXCEPT ![<<1, n>>] = Service!Effect(c, o, n, Tree[<<1, n>>])]
       /\ Calls' = [Calls EXCEPT ![c].res = Service!Result(o, Tree[<<1, n>>])]
  BY <1>3, <1>7, <1>8
<1> QED
  BY ONLY <1>6, <1>9, <1>10 DEF Service!Perform, Service!Idle, Idle

-----------------------------------------------------------------------------
(* Every step is a step of the service, or shows nothing.                   *)

LEMMA SameFilesShow ==
  ASSUME RootInv, RootInv', OneDirectory, extent' = extent
  PROVE  \A n \in Names : TreeAt(n)' = TreeAt(n)
<1>1. Root' = Root /\ Live' = Live
  BY DEF Root, Live
<1> QED
  BY <1>1, NameStays

LEMMA MountSeen ==
  ASSUME RootInv, RootInv', OneDirectory, NEW c \in Clients, Mount(c)
  PROVE  UNCHANGED <<Tree, Calls>>
<1>1. extent' = extent
  BY MountChangesNothing
<1>2. pc[c] = "unmounted" /\ pc'[c] = "idle"
  BY DEF Mount, RootInv, BaseInv, TypeOK
<1>3. CallOf(c)' = CallOf(c)
  BY <1>2 DEF CallOf, Calls
<1> QED
  BY <1>1, <1>3, SameFilesShow, Unseen

LEMMA RequestSeen ==
  ASSUME RootInv, RootInv', OneDirectory, NEW c \in Clients, Request(c)
  PROVE  Service!Invoke(c)
<1>1. pc[c] = "idle" /\ pc'[c] = "acquire" /\ extent' = extent /\ res' = res
  BY DEF Request, RootInv, BaseInv, TypeOK
<1>2. CallOf(c) = Idle
  BY <1>1 DEF CallOf, Calls, Idle
<1>3. BaseInv' /\ BaseInv
  BY DEF RootInv
<1>4. AtItsOperation(c) /\ AtItsOperation(c)'
  BY <1>3 DEF BaseInv, ClientInv
<1>5. req'[c].name \in Names /\ req'[c].op \in OpsOn[req'[c].name]
  BY <1>1, <1>4 DEF AtItsOperation, Resting
<1>6. req'[c].op \in {"create", "mkdir", "symlink", "unlink", "write", "setattr"}
  BY <1>5, YfsAssumption
<1>7. res'[c] = "none"
  BY <1>1, <1>3, <1>4 DEF AtItsOperation, BaseInv, TypeOK
<1>8. req'[c].dir \in Dirs
  <2>1. req'[c] \in Requests
    BY <1>3 DEF BaseInv, TypeOK
  <2> QED
    BY <2>1, DirsAreInums DEF Requests, NoRequest
<1>9. CallOf(c)' = [op |-> req'[c].op, dir |-> req'[c].dir, name |-> req'[c].name, res |-> "none"]
  BY <1>1, <1>7 DEF CallOf, Calls
<1>10. \A d \in Clients \ {c} : CallOf(d)' = CallOf(d)
  BY <1>3, OtherCalls DEF BaseInv
<1> PICK op, d, n : op = req'[c].op /\ d = req'[c].dir /\ n = req'[c].name
  OBVIOUS
<1>11. Calls' = [Calls EXCEPT ![c] = [op |-> op, dir |-> d, name |-> n, res |-> "none"]]
  BY <1>9, <1>10, CallsAre
<1>12. Tree' = Tree
  BY <1>1, SameFilesShow, TreeStays
<1>13. Calls[c] = Service!Idle
  BY <1>2 DEF CallOf, Idle, Service!Idle
<1> QED
  BY <1>5, <1>6, <1>8, <1>11, <1>12, <1>13 DEF Service!Invoke

LEMMA ReleaseSeen ==
  ASSUME RootInv, RootInv', OneDirectory, NEW c \in Clients, Release(c)
  PROVE  Service!Return(c)
<1>1. BaseInv /\ BaseInv' /\ TypeOK
  BY DEF RootInv, BaseInv
<1>2. pc[c] = "release" /\ pc'[c] = "idle" /\ extent' = extent
  BY <1>1 DEF Release, Goto, TypeOK
<1>3. CallOf(c) # Idle /\ CallOf(c).res # "none"
  BY <1>1, <1>2, CallAtWork DEF Resting
<1>4. CallOf(c)' = Idle
  BY <1>2 DEF CallOf, Calls, Idle
<1>5. \A d \in Clients \ {c} : CallOf(d)' = CallOf(d)
  BY <1>1, OtherCalls DEF Step
<1>6. Calls' = [Calls EXCEPT ![c] = Idle]
  BY <1>4, <1>5, CallsAre
<1>7. Tree' = Tree
  BY <1>2, SameFilesShow, TreeStays
<1> QED
  BY <1>3, <1>6, <1>7 DEF Service!Return, Service!Idle, Idle, CallOf

\* The steps that only take the client further.
LEMMA GoesOn ==
  ASSUME RootInv, RootInv', OneDirectory, NEW c \in Clients, Step(c),
         pc[c] \notin Resting, pc'[c] \notin Resting, req' = req,
         (IF pc'[c] = "erase" THEN "OK" ELSE res'[c]) = (IF pc[c] = "erase" THEN "OK" ELSE res[c]),
         \A n \in Names : TreeAt(n)' = TreeAt(n)
  PROVE  UNCHANGED <<Tree, Calls>>
<1>1. CallOf(c)' = CallOf(c)
  BY DEF CallOf, Calls, Resting
<1> QED
  BY <1>1, Unseen

LEMMA ReadSeen ==
  ASSUME RootInv, RootInv', OneDirectory, NEW c \in Clients,
         Acquire(c) \/ Scan(c) \/ GetDir(c) \/ GetFile(c)
  PROVE  UNCHANGED <<Tree, Calls>>
<1>1. TypeOK
  BY DEF RootInv, BaseInv
<1>2. /\ extent' = extent /\ req' = req /\ res' = res
      /\ pc[c] \in {"acquire", "scan", "getdir", "get"}
      /\ pc'[c] \in {"lookup", "find", "get", "alloc", "putdir", "put"}
  BY <1>1 DEF Acquire, Scan, GetDir, GetFile, Goto, TypeOK
<1> QED
  BY <1>2, SameFilesShow, GoesOn DEF Step, Resting

LEMMA AllocSeen ==
  ASSUME RootInv, RootInv', OneDirectory, NEW c \in Clients, Alloc(c)
  PROVE  UNCHANGED <<Tree, Calls>>
<1>1. /\ pc[c] = "alloc" /\ pc'[c] = "getdir" /\ UNCHANGED <<req, buf, ino, res>>
      /\ ino[c] \in Inums \ {1} /\ ino[c] \notin Live /\ ~Named(ino[c])
      /\ Root' = Root /\ Live' = Live \cup {ino[c]}
      /\ \A j \in Inums \ {ino[c]} : extent'[j] = extent[j]
  BY AllocDoes
<1>2. \A e \in Root : e.ino # ino[c]
  BY <1>1 DEF Named
<1>3. ASSUME NEW n \in Names PROVE TreeAt(n)' = TreeAt(n)
  BY <1>1, <1>2, NameStays DEF Live
<1> QED
  BY <1>1, <1>3, GoesOn DEF Step, Resting

\* The entry that goes shows nothing any more: its inode went before.
LEMMA EraseSeen ==
  ASSUME RootInv, RootInv', OneDirectory, NEW c \in Clients, Erase(c)
  PROVE  UNCHANGED <<Tree, Calls>>
<1>1. /\ pc[c] = "erase" /\ pc'[c] = "release" /\ res'[c] = "OK" /\ UNCHANGED <<req, buf, ino>>
      /\ ino[c] \notin Live /\ EntryOf(c) \in Root
      /\ Root' = Root \ {EntryOf(c)} /\ Live' = Live
      /\ \A j \in Inums \ {1} : extent'[j] = extent[j]
  BY EraseDoes
<1>2. \A e \in Root : e.ino # 1
  BY RootParts DEF RootInv
<1>3. EntryOf(c).ino = ino[c]
  BY DEF EntryOf
<1>4. ASSUME NEW n \in Names PROVE TreeAt(n)' = TreeAt(n)
  BY <1>1, <1>2, <1>3, NameStays DEF Live
<1> QED
  BY <1>1, <1>4, GoesOn DEF Step, Resting

\* What Performs needs to know of a call that is about to take effect.
LEMMA TakesEffect ==
  ASSUME RootInv, RootInv', OneDirectory, NEW c \in Clients, Step(c),
         pc[c] \notin Resting \cup {"erase", "release"}, pc'[c] \in {"erase", "release"},
         req' = req, NEW r, (IF pc'[c] = "erase" THEN "OK" ELSE res'[c]) = r,
         r = Service!Result(req[c].op, TreeAt(req[c].name)),
         TreeAt(req[c].name)'
           = Service!Effect(c, req[c].op, req[c].name, TreeAt(req[c].name)),
         \A m \in Names \ {req[c].name} : TreeAt(m)' = TreeAt(m)
  PROVE  Service!Perform(c)
<1>1. BaseInv
  BY DEF RootInv
<1> PICK o, n : o = req[c].op /\ n = req[c].name
  OBVIOUS
<1>2. /\ CallOf(c) = [op |-> o, dir |-> 1, name |-> n, res |-> "none"]
      /\ CallOf(c) # Idle /\ n \in Names
  BY <1>1, CallAtWork
<1>3. CallOf(c)' = [op |-> o, dir |-> 1, name |-> n, res |-> r]
  BY <1>1, RootParts DEF CallOf, Calls
<1>4. /\ r = Service!Result(o, TreeAt(n))
      /\ TreeAt(n)' = Service!Effect(c, o, n, TreeAt(n))
      /\ \A m \in Names \ {n} : TreeAt(m)' = TreeAt(m)
  <2>1. TreeAt(n)' = TreeAt(req[c].name)'
    BY DEF TreeAt
  <2>2. TreeAt(n) = TreeAt(req[c].name)
    BY DEF TreeAt
  <2> QED
    BY <2>1, <2>2
<1> QED
  BY <1>2, <1>3, <1>4, Performs

\* A name that is taken: what it shows is no absence, since no link is being made but by the
\* client that has the root's lock.
LEMMA LookupSeen ==
  ASSUME FilesInv, FilesInv', OneDirectory, NEW c \in Clients, Lookup(c)
  PROVE  Service!Perform(c) \/ UNCHANGED <<Tree, Calls>>
<1>1. RootInv /\ RootInv' /\ BaseInv /\ TypeOK
  BY DEF FilesInv, RootInv, BaseInv
<1>2. pc[c] = "lookup" /\ extent' = extent /\ req' = req
  BY DEF Lookup
<1>3. \A n \in Names : TreeAt(n)' = TreeAt(n)
  BY <1>1, <1>2, SameFilesShow
<1>4. CASE pc'[c] = "scan" /\ res' = res
  BY <1>1, <1>2, <1>3, <1>4, GoesOn DEF Step, Resting
<1>5. CASE pc'[c] = "release" /\ res'[c] = "EXIST" /\ EntriesFor(Root, req[c].name) # {}
  <2>1. PICK e \in Root : e.name = req[c].name
    BY <1>5 DEF EntriesFor
  <2>2. \A d \in Clients : pc[d] \notin {"erase", "putlink"}
    BY <1>1, <1>2, OneAtRoot DEF AtRoot, Making, Unlinking
  <2>3. e.ino \in Live
    BY <1>1, <2>2 DEF RootInv, RootIsSound, Erasing
  <2>4. ~(extent[e.ino].type = "symlink" /\ extent[e.ino].data = {})
    BY <2>2, <2>3 DEF FilesInv, LinksHaveTargets
  <2>5. TreeAt(req[c].name) # Absent
    <3>1. TreeAt(e.name) = Shown(e.ino)
      BY <1>1, <2>3, TreeIs
    <3>2. Shown(e.ino) # Absent
      BY <2>3, <2>4, ShownIsThere
    <3> QED
      BY <2>1, <3>1, <3>2
  <2>6. req[c].op \in Makes /\ req[c].name \in Names
    BY <1>1, <1>2 DEF BaseInv, ClientInv, AtItsOperation, Making, Resting
  <2>7. Service!Result(req[c].op, TreeAt(req[c].name)) = "EXIST"
    BY <2>5, <2>6 DEF Service!Result, Makes
  <2>8. Service!Effect(c, req[c].op, req[c].name, TreeAt(req[c].name)) = TreeAt(req[c].name)
    BY <2>5, <2>6 DEF Service!Effect, Makes
  <2>9. TreeAt(req[c].name)' = TreeAt(req[c].name)
    <3> PICK n \in Names : n = req[c].name
      BY <2>6
    <3>1. TreeAt(n)' = TreeAt(n)
      BY <1>3
    <3> QED
      BY <1>2, <3>1 DEF TreeAt
  <2> QED
    BY <1>1, <1>2, <1>3, <1>5, <2>7, <2>8, <2>9, TakesEffect DEF Step, Resting
<1> QED
  BY <1>1, <1>4, <1>5, RootParts DEF Lookup, Goto, TypeOK

\* An unlink of a name that is not there takes effect when it is looked for.
LEMMA FindSeen ==
  ASSUME FilesInv, FilesInv', OneDirectory, NEW c \in Clients, Find(c)
  PROVE  Service!Perform(c) \/ UNCHANGED <<Tree, Calls>>
<1>1. RootInv /\ RootInv' /\ BaseInv /\ TypeOK
  BY DEF FilesInv, RootInv, BaseInv
<1>2. pc[c] = "find" /\ extent' = extent /\ req' = req
  BY DEF Find
<1>3. \A n \in Names : TreeAt(n)' = TreeAt(n)
  BY <1>1, <1>2, SameFilesShow
<1>4. CASE pc'[c] = "remove" /\ res' = res
  BY <1>1, <1>2, <1>3, <1>4, GoesOn DEF Step, Resting
<1>5. CASE pc'[c] = "release" /\ res'[c] = "OK" /\ EntriesFor(Root, req[c].name) = {}
  <2>1. req[c].op = "unlink" /\ req[c].name \in Names
    BY <1>1, <1>2 DEF BaseInv, ClientInv, AtItsOperation, Unlinking, Resting
  <2>2. TreeAt(req[c].name) = Absent
    BY <1>1, <1>5, <2>1, TreeIs DEF EntriesFor
  <2>3. Service!Result(req[c].op, TreeAt(req[c].name)) = "OK"
    BY <2>2, <2>1 DEF Service!Result
  <2>4. Service!Effect(c, req[c].op, req[c].name, TreeAt(req[c].name)) = TreeAt(req[c].name)
    BY <2>2, <2>1 DEF Service!Effect
  <2>5. TreeAt(req[c].name)' = TreeAt(req[c].name)
    <3> PICK n \in Names : n = req[c].name
      BY <2>1
    <3>1. TreeAt(n)' = TreeAt(n)
      BY <1>3
    <3> QED
      BY <1>2, <3>1 DEF TreeAt
  <2> QED
    BY <1>1, <1>2, <1>3, <1>5, <2>3, <2>4, <2>5, TakesEffect DEF Step, Resting
<1> QED
  BY <1>1, <1>4, <1>5, RootParts DEF Find, Goto, TypeOK

LEMMA EntryShows ==
  ASSUME RootInv', OneDirectory, NEW n, NEW i, [name |-> n, ino |-> i] \in Root', i \in Live'
  PROVE  TreeAt(n)' = IF extent'[i].type # "symlink" \/ extent'[i].data # {}
                      THEN extent'[i].data ELSE Absent
<1>1. TreeShows'
  BY TreeShowsNext
<1> PICK e : e = [name |-> n, ino |-> i]
  OBVIOUS
<1>2. TreeAt(e.name)' = Shown(e.ino)'
  BY <1>1 DEF TreeShows
<1>3. TreeAt(e.name)' = TreeAt(n)' /\ Shown(e.ino)' = Shown(i)'
  BY DEF TreeAt, Shown
<1> QED
  BY <1>2, <1>3 DEF Shown

LEMMA PutDirSeen ==
  ASSUME FilesInv, FilesInv', OneDirectory, NEW c \in Clients, PutDir(c)
  PROVE  Service!Perform(c) \/ UNCHANGED <<Tree, Calls>>
<1>1. RootInv /\ RootInv' /\ BaseInv /\ TypeOK
  BY DEF FilesInv, RootInv, BaseInv
<1>2. /\ pc[c] = "putdir" /\ pc'[c] = IF req[c].op = "symlink" THEN "putlink" ELSE "release"
      /\ res'[c] = IF req[c].op = "symlink" THEN res[c] ELSE "OK"
      /\ UNCHANGED <<req, buf, ino>>
      /\ ino[c] \in Live \ {1} /\ ~Named(ino[c]) /\ EntriesFor(Root, req[c].name) = {}
      /\ Root' = Root \cup {EntryOf(c)} /\ Live' = Live
      /\ \A j \in Inums \ {1} : extent'[j] = extent[j]
  BY <1>1, PutDirDoes
<1>3. \A e \in Root : e.ino # 1
  BY <1>1, RootParts
<1>4. EntryOf(c).name = req[c].name /\ EntryOf(c).ino = ino[c]
  BY DEF EntryOf
<1>5. req[c].op \in Makes /\ req[c].name \in Names
  BY <1>1, <1>2 DEF BaseInv, ClientInv, AtItsOperation, Making, Resting
<1>6. \A m \in Names \ {req[c].name} : TreeAt(m)' = TreeAt(m)
  BY <1>1, <1>2, <1>3, <1>4, NameStays DEF Live
<1>7. TreeAt(req[c].name) = Absent
  BY <1>1, <1>2, <1>5, TreeIs DEF EntriesFor
<1>8. extent'[ino[c]].type = TypeOf(req[c].op) /\ extent'[ino[c]].data = {}
  <2>1. extent[ino[c]] = [type |-> TypeOf(req[c].op), data |-> {}]
    BY <1>2 DEF FilesInv, KnowsFile
  <2>2. extent'[ino[c]] = extent[ino[c]]
    BY <1>2 DEF Live
  <2> QED
    BY <2>1, <2>2
<1>9. TreeAt(req[c].name)' = IF TypeOf(req[c].op) # "symlink" THEN {} ELSE Absent
  <2>1. PICK n : n = req[c].name
    OBVIOUS
  <2>2. [name |-> n, ino |-> ino[c]] \in Root' /\ ino[c] \in Live'
    BY <1>2, <2>1 DEF EntryOf
  <2>3. PICK i : i = ino[c]
    OBVIOUS
  <2>4. TreeAt(n)' = IF extent'[i].type # "symlink" \/ extent'[i].data # {}
                     THEN extent'[i].data ELSE Absent
    BY <1>1, <2>2, <2>3, EntryShows
  <2>5. TreeAt(n)' = TreeAt(req[c].name)'
    BY <1>2, <2>1 DEF TreeAt
  <2> QED
    BY <1>8, <2>3, <2>4, <2>5
<1>10. CASE req[c].op = "symlink"
  <2>1. TreeAt(req[c].name)' = Absent
    BY <1>9, <1>10 DEF TypeOf
  <2>2. \A m \in Names : TreeAt(m)' = TreeAt(m)
    <3> SUFFICES ASSUME NEW m \in Names, m = req[c].name PROVE TreeAt(m)' = TreeAt(m)
      BY <1>6
    <3>1. TreeAt(m)' = TreeAt(req[c].name)' /\ TreeAt(m) = TreeAt(req[c].name)
      BY <1>2 DEF TreeAt
    <3> QED
      BY <1>7, <2>1, <3>1
  <2> QED
    BY <1>1, <1>2, <1>10, <2>2, GoesOn DEF Step, Resting
<1>11. CASE req[c].op # "symlink"
  <2>1. TypeOf(req[c].op) # "symlink"
    BY <1>11 DEF TypeOf
  <2>2. TreeAt(req[c].name)' = {}
    BY <1>9, <2>1
  <2>3. Service!Result(req[c].op, TreeAt(req[c].name)) = "OK"
    BY <1>7 DEF Service!Result
  <2>4. Service!Effect(c, req[c].op, req[c].name, TreeAt(req[c].name)) = {}
    BY <1>5, <1>7, <1>11 DEF Service!Effect, Makes
  <2> QED
    BY <1>1, <1>2, <1>6, <1>11, <2>2, <2>3, <2>4, TakesEffect DEF Step, Resting
<1> QED
  BY <1>10, <1>11

LEMMA PutLinkSeen ==
  ASSUME FilesInv, FilesInv', OneDirectory, NEW c \in Clients, PutLink(c)
  PROVE  Service!Perform(c)
<1>1. RootInv /\ RootInv' /\ BaseInv /\ TypeOK
  BY DEF FilesInv, RootInv, BaseInv
<1>2. /\ pc[c] = "putlink" /\ pc'[c] = "release" /\ res'[c] = "OK" /\ UNCHANGED <<req, buf, ino>>
      /\ ino[c] \in Live \ {1} /\ EntryOf(c) \in Root
      /\ Root' = Root /\ Live' = Live
      /\ extent'[ino[c]].data = {[clt |-> c, name |-> req[c].name]}
      /\ \A j \in Inums \ {ino[c]} : extent'[j] = extent[j]
  BY <1>1, PutLinkDoes
<1>3. req[c].op = "symlink" /\ extent[ino[c]].type = "symlink" /\ extent[ino[c]].data = {}
  BY <1>2, NewLink
<1>4. \A e \in Root : e.ino = ino[c] => e.name = req[c].name
  BY <1>1, <1>2 DEF RootInv, RootIsSound, EntryOf
<1>5. \A m \in Names \ {req[c].name} : TreeAt(m)' = TreeAt(m)
  BY <1>1, <1>2, <1>4, NameStays DEF Live
<1>6. TreeAt(req[c].name) = Absent
  <2>1. EntryOf(c).name = req[c].name /\ EntryOf(c).ino = ino[c]
    BY DEF EntryOf
  <2>2. TreeAt(EntryOf(c).name) = Shown(ino[c])
    BY <1>1, <1>2, <2>1, TreeIs
  <2> QED
    BY <1>3, <2>1, <2>2 DEF Shown
<1>7. TreeAt(req[c].name)' = {[clt |-> c, name |-> req[c].name]}
  <2>1. PICK n, i : n = req[c].name /\ i = ino[c]
    OBVIOUS
  <2>2. [name |-> n, ino |-> i] \in Root' /\ i \in Live'
    BY <1>2, <2>1 DEF EntryOf
  <2>3. TreeAt(n)' = IF extent'[i].type # "symlink" \/ extent'[i].data # {}
                     THEN extent'[i].data ELSE Absent
    BY <1>1, <2>2, EntryShows
  <2>4. TreeAt(n)' = TreeAt(req[c].name)'
    BY <1>2, <2>1 DEF TreeAt
  <2> QED
    BY <1>2, <2>1, <2>3, <2>4
<1>8. Service!Result(req[c].op, TreeAt(req[c].name)) = "OK"
  BY <1>6 DEF Service!Result
<1>9. Service!Effect(c, req[c].op, req[c].name, TreeAt(req[c].name))
        = {[clt |-> c, name |-> req[c].name]}
  BY <1>3, <1>6 DEF Service!Effect
<1> QED
  BY <1>1, <1>2, <1>5, <1>7, <1>8, <1>9, TakesEffect DEF Step, Resting

LEMMA RemoveSeen ==
  ASSUME FilesInv, FilesInv', OneDirectory, NEW c \in Clients, Remove(c)
  PROVE  Service!Perform(c)
<1>1. RootInv /\ RootInv' /\ BaseInv /\ TypeOK
  BY DEF FilesInv, RootInv, BaseInv
<1>2. /\ pc[c] = "remove" /\ pc'[c] = "erase" /\ UNCHANGED <<req, buf, ino, res>>
      /\ ino[c] \in Live \ {1} /\ EntryOf(c) \in Root
      /\ Root' = Root /\ Live' = Live \ {ino[c]}
      /\ \A j \in Inums \ {ino[c]} : extent'[j] = extent[j]
  BY <1>1, RemoveDoes
<1>3. req[c].op = "unlink" /\ req[c].name \in Names
  BY <1>1, <1>2 DEF BaseInv, ClientInv, AtItsOperation, Unlinking, Resting
<1>4. EntryOf(c).name = req[c].name /\ EntryOf(c).ino = ino[c]
  BY DEF EntryOf
<1>5. \A e \in Root : (e.name = req[c].name <=> e = EntryOf(c)) /\ (e.ino = ino[c] <=> e = EntryOf(c))
  BY <1>1, <1>2, <1>4 DEF RootInv, RootIsSound
<1>6. \A m \in Names \ {req[c].name} : TreeAt(m)' = TreeAt(m)
  BY <1>1, <1>2, <1>5, NameStays DEF Live
<1>7. TreeAt(req[c].name)' = Absent
  <2>1. PICK n \in Names : n = req[c].name
    BY <1>3
  <2>2. TreeShows'
    BY <1>1, TreeShowsNext
  <2>3. \A e \in Root' : e.name = n => e.ino \notin Live'
    BY <1>2, <1>5, <2>1
  <2>4. TreeAt(n)' = Absent
    BY <2>2, <2>3 DEF TreeShows
  <2> QED
    BY <1>2, <2>1, <2>4 DEF TreeAt
<1>8. Service!Result(req[c].op, TreeAt(req[c].name)) = "OK"
  BY <1>3 DEF Service!Result
<1>9. Service!Effect(c, req[c].op, req[c].name, TreeAt(req[c].name)) = Absent
  BY <1>3 DEF Service!Effect
<1> QED
  BY <1>1, <1>2, <1>6, <1>7, <1>8, <1>9, TakesEffect DEF Step, Resting

LEMMA PutFileSeen ==
  ASSUME FilesInv, FilesInv', OneDirectory, NEW c \in Clients, PutFile(c)
  PROVE  Service!Perform(c)
<1>1. RootInv /\ RootInv' /\ BaseInv /\ TypeOK
  BY DEF FilesInv, RootInv, BaseInv
<1> DEFINE i == req[c].ino
<1>2. /\ pc[c] = "put" /\ pc'[c] = "release" /\ res'[c] = "OK" /\ UNCHANGED <<req, buf, ino>>
      /\ IsWrite(c) /\ i \in Live \ {1} /\ extent[i].type = "file"
      /\ [name |-> req[c].name, ino |-> i] \in Root
      /\ Root' = Root /\ Live' = Live /\ extent'[i].type = extent[i].type
      /\ extent'[i].data = IF req[c].op = "write"
                           THEN extent[i].data \cup {[clt |-> c, name |-> req[c].name]} ELSE {}
      /\ \A j \in Inums \ {i} : extent'[j] = extent[j]
  BY PutFileDoes
<1>3. \A e \in Root : e.ino = i => e.name = req[c].name
  BY <1>1, <1>2 DEF RootInv, RootIsSound
<1>4. \A m \in Names \ {req[c].name} : TreeAt(m)' = TreeAt(m)
  BY <1>1, <1>2, <1>3, NameStays DEF Live
<1>5. PICK e : e = [name |-> req[c].name, ino |-> i]
  OBVIOUS
<1>6. TreeAt(req[c].name) = extent[i].data /\ extent[i].data # Absent
  <2>1. e \in Root /\ e.ino \in Live /\ e.name = req[c].name /\ e.ino = i
    BY <1>2, <1>5
  <2>2. TreeAt(e.name) = Shown(e.ino) /\ extent[e.ino].data # Absent
    BY <1>1, <2>1, TreeIs, ShownIsThere
  <2> QED
    BY <1>2, <2>1, <2>2 DEF Shown
<1>7. TreeAt(req[c].name)' = extent'[i].data
  <2>1. PICK n, j : n = req[c].name /\ j = i
    OBVIOUS
  <2>2. [name |-> n, ino |-> j] \in Root' /\ j \in Live'
    BY <1>2, <2>1
  <2>3. TreeAt(n)' = IF extent'[j].type # "symlink" \/ extent'[j].data # {}
                     THEN extent'[j].data ELSE Absent
    BY <1>1, <2>2, EntryShows
  <2>4. TreeAt(n)' = TreeAt(req[c].name)'
    BY <1>2, <2>1 DEF TreeAt
  <2> QED
    BY <1>2, <2>1, <2>3, <2>4
<1>8. Service!Result(req[c].op, TreeAt(req[c].name)) = "OK"
  BY <1>2 DEF Service!Result, IsWrite
<1>9. Service!Effect(c, req[c].op, req[c].name, TreeAt(req[c].name)) = extent'[i].data
  BY <1>2, <1>6 DEF Service!Effect, IsWrite
<1> QED
  BY <1>1, <1>2, <1>4, <1>7, <1>8, <1>9, TakesEffect DEF Step, Resting

LEMMA InitSeen == OneDirectory /\ Init => Service!Init
<1> SUFFICES ASSUME OneDirectory, Init PROVE Service!Init
  OBVIOUS
<1>1. RootInv
  BY RootInit
<1>2. Root = {}
  BY DirsAreInums DEF Init, OneDirectory, Root
<1>3. \A n \in Names : TreeAt(n) = Absent
  BY <1>1, <1>2, TreeIs
<1>4. Tree = [p \in {1} \X Names |-> Absent]
  <2>1. \A p \in {1} \X Names : TreeAt(p[2]) = Absent
    BY <1>3
  <2> QED
    BY <1>1, <2>1, TreeIs
<1>5. \A c \in Clients : CallOf(c) = [op |-> "none"]
  BY DEF Init, CallOf, Calls
<1>6. Calls = [c \in Clients |-> [op |-> "none"]]
  BY <1>5, CallsAre
<1> QED
  BY <1>4, <1>6 DEF Service!Init, Service!Idle, OneDirectory

LEMMA StepSeen ==
  ASSUME OneDirectory, NamesApart, FilesInv, FilesInv', [Next]_vars
  PROVE  [Service!Next]_<<Tree, Calls>>
<1>1. CASE UNCHANGED vars
  <2>1. Tree' = Tree
    BY <1>1 DEF vars, Tree, Found, EntriesFor, Get, Live
  <2>2. Calls' = Calls
    BY <1>1 DEF vars, Calls
  <2> QED
    BY <2>1, <2>2
<1>2. ASSUME NEW c \in Clients, Mount(c) \/ Request(c) \/ Step(c)
      PROVE  Service!Next \/ UNCHANGED <<Tree, Calls>>
  <2>1. RootInv /\ RootInv'
    BY DEF FilesInv
  <2>2. Service!Invoke(c) \/ Service!Perform(c) \/ Service!Return(c) \/ UNCHANGED <<Tree, Calls>>
    BY <1>2, <2>1, MountSeen, RequestSeen, ReadSeen, LookupSeen, AllocSeen, PutDirSeen, PutLinkSeen,
       FindSeen, RemoveSeen, EraseSeen, PutFileSeen, ReleaseSeen DEF Step
  <2> QED
    BY <2>2 DEF Service!Next
<1> QED
  BY <1>1, <1>2 DEF Next

\* With one directory and names that are not both unlinked and written, what the clients'
\* requests return and leave is what some sequential order of them returns and leaves.
THEOREM Refinement == OneDirectory /\ NamesApart => (Spec => ImplementsYfsService)
<1> SUFFICES ASSUME OneDirectory, NamesApart PROVE Spec => ImplementsYfsService
  OBVIOUS
<1>1. Init => Service!Init
  BY InitSeen
<1>2. FilesInv /\ FilesInv' /\ [Next]_vars => [Service!Next]_<<Tree, Calls>>
  BY StepSeen
<1>3. Spec => []FilesInv
  BY FilesInvariance
<1> QED
  BY <1>1, <1>2, <1>3, PTL DEF Spec, ImplementsYfsService, Service!Spec
=============================================================================
