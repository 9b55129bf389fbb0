----------------------------- MODULE YfsClient ------------------------------
(***************************************************************************)
(* The distributed YFS (CSE/cselab2backup): yfs_client processes that share *)
(* one extent server and one lock server.  A client serves one FUSE request *)
(* at a time (fuse_session_loop); each extent RPC is one step, except that  *)
(* create looks for a free inode and takes it in two, since the handlers of *)
(* extent_server run on a thread pool without a mutex.  The locks are the   *)
(* abstract LockService, which LockServer implements.                       *)
(***************************************************************************)
EXTENDS Naturals, FiniteSets

CONSTANTS
  Clients,    \* yfs_client processes
  Names,      \* file names
  MaxInum,    \* bound: inodes 1..MaxInum, more than the calls can use up
  Dirs,       \* the directories that requests name; 1 is the root
  OpsOn,      \* OpsOn[n]: the operations requested of files called n
  NoFile,     \* a free inode
  Absent      \* a name that is not there

\* What a directory holds, and what a file or a link holds.
Entries == [name : Names, ino : 1..MaxInum]
Marks == [clt : Clients, name : Names]
Files == [type : {"dir", "file", "symlink"}, data : SUBSET (Entries \cup Marks)]

ASSUME YfsAssumption ==
  /\ MaxInum \in Nat /\ Dirs \subseteq 1..MaxInum /\ 1 \in Dirs
  /\ OpsOn \in [Names -> SUBSET {"create", "mkdir", "symlink", "unlink", "write", "setattr"}]
  /\ NoFile \notin Files /\ \A data \in SUBSET Marks : Absent # data

VARIABLES
  extent,   \* extent[i]: what the extent server has for inode i
  owners,   \* owners[i]: the client that holds lock i, as a set (LockService)
  pc,       \* pc[c]: where client c is in its request
  req,      \* req[c]: the request: operation, directory, name, inode
  buf,      \* buf[c]: the local std::string buf: a directory or a file
  ino,      \* ino[c]: the inode found or created
  res       \* res[c]: the status so far, "none" before it is decided

vars == <<extent, owners, pc, req, buf, ino, res>>

Inums == 1..MaxInum
Lock == INSTANCE LockService WITH Locks <- Inums

Makes == {"create", "mkdir", "symlink"}   \* operations that add an entry
TypeOf(op) == CASE op = "mkdir" -> "dir" [] op = "symlink" -> "symlink" [] OTHER -> "file"

NoRequest == [op |-> "none", dir |-> 1, name |-> CHOOSE n \in Names : TRUE, ino |-> 1]
Requests == [op : UNION {OpsOn[n] : n \in Names}, dir : Dirs, name : Names, ino : Inums] \cup {NoRequest}
Labels == {"unmounted", "idle", "acquire", "lookup", "scan", "alloc", "getdir", "putdir",
           "putlink", "find", "remove", "erase", "get", "put", "release"}

\* A directory holds entries; a file the marks of those who wrote to it, each
\* with the name the writer opened; a link its target.
TypeOK ==
  /\ extent \in [Inums -> {NoFile} \cup Files]
  /\ owners \in [Inums -> SUBSET Clients]
  /\ pc \in [Clients -> Labels]
  /\ req \in [Clients -> Requests]
  /\ buf \in [Clients -> SUBSET (Entries \cup Marks)]
  /\ ino \in [Clients -> Inums]
  /\ res \in [Clients -> {"none", "OK", "EXIST"}]

-----------------------------------------------------------------------------
(* The extent server.                                                      *)

Live == {i \in Inums : extent[i] # NoFile}

\* extent_server::get: a missing inode reads as "" and the status is OK.
Get(i) == IF i \in Live THEN extent[i].data ELSE {}

\* extent_server::put: a put to a missing inode is dropped, the status is OK.
Put(i, data) == extent' = IF i \in Live THEN [extent EXCEPT ![i].data = data] ELSE extent

EntriesFor(entries, n) == {e \in entries : e.name = n}

-----------------------------------------------------------------------------
(* Starting up, and requests.                                              *)

\* The directories that requests name are there (made before, by mkdir).
Init ==
  /\ extent = [i \in Inums |-> IF i \in Dirs THEN [type |-> "dir", data |-> {}] ELSE NoFile]
  /\ owners = [i \in Inums |-> {}]
  /\ pc = [c \in Clients |-> "unmounted"]
  /\ req = [c \in Clients |-> NoRequest]
  /\ buf = [c \in Clients |-> {}]
  /\ ino = [c \in Clients |-> 1]
  /\ res = [c \in Clients |-> "none"]

\* yfs_client's constructor: ec->put(1, ""), "init root dir", without the
\* root's lock: clients are started before there are files (a later start would
\* empty the root directory).
Mount(c) ==
  /\ pc[c] = "unmounted"
  /\ \A d \in Clients : pc[d] \in {"unmounted", "idle"}
  /\ Live = Dirs
  /\ Put(1, {})
  /\ pc' = [pc EXCEPT ![c] = "idle"]
  /\ UNCHANGED <<owners, req, buf, ino, res>>

\* The inode the kernel's own lookup finds for a name, fresh for each request
\* (entry_timeout is 0).
Found(d, n) == {e.ino : e \in EntriesFor(Get(d), n)} \cap Live

\* A FUSE request arrives.  The kernel asks to make a name it did not find,
\* and to unlink or write one it found, if that is no directory.
Request(c) ==
  /\ pc[c] = "idle"
  /\ \A d \in Clients : pc[d] # "unmounted"
  /\ \E n \in Names, d \in Dirs : \E op \in OpsOn[n] :
       \/ /\ op \in Makes
          /\ Found(d, n) = {}
          /\ req' = [req EXCEPT ![c] = [op |-> op, dir |-> d, name |-> n, ino |-> 1]]
       \/ /\ op \notin Makes
          /\ \E i \in Found(d, n) :
               /\ extent[i].type = "file" \/ (extent[i].type = "symlink" /\ op = "unlink")
               /\ req' = [req EXCEPT ![c] = [op |-> op, dir |-> d, name |-> n, ino |-> i]]
  /\ pc' = [pc EXCEPT ![c] = "acquire"]
  /\ UNCHANGED <<extent, owners, buf, ino, res>>

-----------------------------------------------------------------------------
(* yfs_client's operations.                                                *)

\* The lock an operation takes: the directory's, or the written file's.
LockOf(c) == IF req[c].op \in {"write", "setattr"} THEN req[c].ino ELSE req[c].dir

Goto(c, label) == pc' = [pc EXCEPT ![c] = label]

\* lc->acquire
Acquire(c) ==
  /\ pc[c] = "acquire"
  /\ Lock!Grant(c, LockOf(c))
  /\ Goto(c, IF req[c].op \in Makes THEN "lookup"
             ELSE IF req[c].op = "unlink" THEN "find" ELSE "get")
  /\ UNCHANGED <<extent, req, buf, ino, res>>

\* lookup(parent, name, found, ino_out): EXIST if the name is taken.
Lookup(c) ==
  /\ pc[c] = "lookup"
  /\ IF EntriesFor(Get(req[c].dir), req[c].name) # {}
     THEN Goto(c, "release") /\ res' = [res EXCEPT ![c] = "EXIST"]
     ELSE Goto(c, "scan") /\ UNCHANGED res
  /\ UNCHANGED <<extent, owners, req, buf, ino>>

\* Faulty variant: an inode without data counts as free.
ScanEmpty(c) ==
  /\ pc[c] = "scan"
  /\ ino' = [ino EXCEPT ![c] = CHOOSE i \in Inums \ Dirs : Get(i) = {}]
  /\ Goto(c, "alloc")
  /\ UNCHANGED <<extent, owners, req, buf, res>>

\* ec->create, inode_manager::alloc_inode: the first inode found free ...
Scan(c) ==
  /\ pc[c] = "scan"
  /\ \E i \in Inums \ Live :
       /\ \A j \in 1..(i - 1) : j \in Live
       /\ ino' = [ino EXCEPT ![c] = i]
  /\ Goto(c, "alloc")
  /\ UNCHANGED <<extent, owners, req, buf, res>>

\* Faulty variant: the operation is stored for the type.
AllocOperation(c) ==
  /\ pc[c] = "alloc"
  /\ extent' = [extent EXCEPT ![ino[c]] = [type |-> req[c].op, data |-> {}]]
  /\ Goto(c, "getdir")
  /\ UNCHANGED <<owners, req, buf, ino, res>>

\* ... is written as an empty inode of the type asked for.
Alloc(c) ==
  /\ pc[c] = "alloc"
  /\ extent' = [extent EXCEPT ![ino[c]] = [type |-> TypeOf(req[c].op), data |-> {}]]
  /\ Goto(c, "getdir")
  /\ UNCHANGED <<owners, req, buf, ino, res>>

\* ec->get(parent, buf)
GetDir(c) ==
  /\ pc[c] = "getdir"
  /\ buf' = [buf EXCEPT ![c] = Get(req[c].dir)]
  /\ Goto(c, "putdir")
  /\ UNCHANGED <<extent, owners, req, ino, res>>

\* The new entry goes to the end of buf; ec->put(parent, buf).
PutDir(c) ==
  /\ pc[c] = "putdir"
  /\ Put(req[c].dir, buf[c] \cup {[name |-> req[c].name, ino |-> ino[c]]})
  /\ IF req[c].op = "symlink"
     THEN Goto(c, "putlink") /\ UNCHANGED res
     ELSE Goto(c, "release") /\ res' = [res EXCEPT ![c] = "OK"]
  /\ UNCHANGED <<owners, req, buf, ino>>

\* symlink: ec->put(ino_out, link), after the entry is there to be seen.
PutLink(c) ==
  /\ pc[c] = "putlink"
  /\ Put(ino[c], {[clt |-> c, name |-> req[c].name]})
  /\ Goto(c, "release")
  /\ res' = [res EXCEPT ![c] = "OK"]
  /\ UNCHANGED <<owners, req, buf, ino>>

\* unlink: ec->get(parent, buf) and the search; a name not found is OK too.
Find(c) ==
  /\ pc[c] = "find"
  /\ buf' = [buf EXCEPT ![c] = Get(req[c].dir)]
  /\ IF EntriesFor(Get(req[c].dir), req[c].name) = {}
     THEN /\ Goto(c, "release")
          /\ res' = [res EXCEPT ![c] = "OK"]
          /\ UNCHANGED ino
     ELSE /\ Goto(c, "remove")
          /\ \E e \in EntriesFor(Get(req[c].dir), req[c].name) :
               ino' = [ino EXCEPT ![c] = e.ino]
          /\ UNCHANGED res
  /\ UNCHANGED <<extent, owners, req>>

\* ec->remove(ino), under the directory's lock only.
Remove(c) ==
  /\ pc[c] = "remove"
  /\ extent' = [extent EXCEPT ![ino[c]] = NoFile]
  /\ Goto(c, "erase")
  /\ UNCHANGED <<owners, req, buf, ino, res>>

\* buf.erase of the entry; ec->put(parent, buf).
Erase(c) ==
  /\ pc[c] = "erase"
  /\ Put(req[c].dir, buf[c] \ {[name |-> req[c].name, ino |-> ino[c]]})
  /\ Goto(c, "release")
  /\ res' = [res EXCEPT ![c] = "OK"]
  /\ UNCHANGED <<owners, req, buf, ino>>

\* Faulty variant: a buffer shared by all files, appended to and never cleared.
GetShared(c) ==
  /\ pc[c] = "get"
  /\ buf' = [buf EXCEPT ![c] = UNION {Get(i) : i \in Inums \ Dirs}]
  /\ Goto(c, "put")
  /\ UNCHANGED <<extent, owners, req, ino, res>>

\* write and setattr: ec->get(ino, buf)
GetFile(c) ==
  /\ pc[c] = "get"
  /\ buf' = [buf EXCEPT ![c] = Get(req[c].ino)]
  /\ Goto(c, "put")
  /\ UNCHANGED <<extent, owners, req, ino, res>>

\* Faulty variant: what the file held is lost.
PutOwn(c) ==
  /\ pc[c] = "put"
  /\ Put(req[c].ino, IF req[c].op = "write" THEN {[clt |-> c, name |-> req[c].name]} ELSE {})
  /\ Goto(c, "release")
  /\ res' = [res EXCEPT ![c] = "OK"]
  /\ UNCHANGED <<owners, req, buf, ino>>

\* buf.replace of the part written, or buf cut to size 0; ec->put(ino, buf).
PutFile(c) ==
  /\ pc[c] = "put"
  /\ Put(req[c].ino, IF req[c].op = "write" THEN buf[c] \cup {[clt |-> c, name |-> req[c].name]} ELSE {})
  /\ Goto(c, "release")
  /\ res' = [res EXCEPT ![c] = "OK"]
  /\ UNCHANGED <<owners, req, buf, ino>>

\* Faulty variant: the error path returns without a release.
ReleaseUnlessExist(c) ==
  /\ pc[c] = "release"
  /\ IF res[c] = "EXIST" THEN UNCHANGED owners ELSE Lock!GiveBack(c, LockOf(c))
  /\ Goto(c, "idle")
  /\ req' = [req EXCEPT ![c] = NoRequest]
  /\ buf' = [buf EXCEPT ![c] = {}]
  /\ ino' = [ino EXCEPT ![c] = 1]
  /\ res' = [res EXCEPT ![c] = "none"]
  /\ UNCHANGED extent

\* lc->release and the reply to the kernel; the locals go out of scope.
Release(c) ==
  /\ pc[c] = "release"
  /\ Lock!GiveBack(c, LockOf(c))
  /\ Goto(c, "idle")
  /\ req' = [req EXCEPT ![c] = NoRequest]
  /\ buf' = [buf EXCEPT ![c] = {}]
  /\ ino' = [ino EXCEPT ![c] = 1]
  /\ res' = [res EXCEPT ![c] = "none"]
  /\ UNCHANGED extent

Step(c) ==
  \/ Acquire(c) \/ Lookup(c) \/ Scan(c) \/ Alloc(c) \/ GetDir(c) \/ PutDir(c) \/ PutLink(c)
  \/ Find(c) \/ Remove(c) \/ Erase(c) \/ GetFile(c) \/ PutFile(c) \/ Release(c)

Next == \E c \in Clients : Mount(c) \/ Request(c) \/ Step(c)

Spec == Init /\ [][Next]_vars

\* RPCs are answered, so a client at work goes on; nothing makes requests come.
FairSpec == Spec /\ \A c \in Clients : WF_vars(Step(c))

-----------------------------------------------------------------------------
(* Properties.                                                             *)

\* Two entries never name one inode, in one directory or in two: concurrent
\* creates get different inodes ("CREATEs in different directories" are the
\* concurrency that "would have been okay", Lab-2.html).
InodeHasOneName ==
  \A d, f \in Dirs : \A e \in Get(d), g \in Get(f) :
    e.ino = g.ino => d = f /\ e = g

\* A directory whose lock is free is in order: no name is there twice and
\* every entry leads to an inode that exists.
UnlockedDirIsSound ==
  \A d \in Dirs : owners[d] = {} =>
    /\ \A e, g \in Get(d) : e.name = g.name => e = g
    /\ \A e \in Get(d) : e.ino \in Live

\* No inode is forgotten: one that is live without a name was just created,
\* by a client that is about to enter it.
NoOrphan ==
  \A i \in Live \ Dirs :
    \/ \E d \in Dirs : \E e \in Get(d) : e.ino = i
    \/ \E c \in Clients : ino[c] = i /\ pc[c] \in {"getdir", "putdir"}

\* Directories and inodes fit together: each inode has one name, each name an inode, and
\* nothing is lost while requests of several clients interleave.
NamesAndInodesAgree == InodeHasOneName /\ UnlockedDirIsSound /\ NoOrphan

\* A file holds only what was written through its own name, and a link only
\* its own target.
WritesStayInTheirFile ==
  \A d \in Dirs : \A e \in Get(d) :
    e.ino \in Live /\ extent[e.ino].type # "dir" =>
      \A m \in extent[e.ino].data : m.name = e.name

\* Concurrent operations are consistent with the operations executing in some
\* sequential order.  A make takes effect when the entry is written (a link's
\* when its target is), an unlink when the inode goes, a write with its put.
Tree ==
  [p \in Dirs \X Names |->
     LET is == Found(p[1], p[2])
     IN  IF \E i \in is : extent[i].type # "symlink" \/ extent[i].data # {}
         THEN extent[CHOOSE i \in is : TRUE].data ELSE Absent]

Calls ==
  [c \in Clients |->
     IF pc[c] \in {"unmounted", "idle"} THEN [op |-> "none"]
     ELSE [op |-> req[c].op, dir |-> req[c].dir, name |-> req[c].name,
           res |-> IF pc[c] = "erase" THEN "OK" ELSE res[c]]]

Service == INSTANCE YfsService WITH tree <- Tree, call <- Calls
ImplementsYfsService == Service!Spec

\* Every lock taken is given back, on the paths that fail too.
LocksComeBack == \A i \in Inums : owners[i] # {} ~> owners[i] = {}

=============================================================================
