------------------------------- MODULE Drive ---------------------------------
(***************************************************************************)
(* The Drive of one owner (services/files/service.go, store.go and the     *)
(* byte mover of internal/storage/grant.go): an index of files and folders *)
(* in SQLite and, in a bucket, one object per file under the key that its  *)
(* path gives.  No lock covers a request: each statement and each call to  *)
(* the bucket is a step, and requests, the purge of old tombstones and a   *)
(* crash interleave.                                                       *)
(*                                                                         *)
(* An object is the id of the node whose upload wrote it, so that "the     *)
(* file has its bytes" can be said.  A key is a path: driveKey is one to   *)
(* one for one owner.  Folders are at the root only (Move's recursion over *)
(* a subtree is one level deep).  Roles and sharing are left out: the one  *)
(* user has every role.                                                    *)
(***************************************************************************)
EXTENDS Integers, FiniteSets, Sequences

CONSTANTS
  MaxNodes,    \* bound: rows ever inserted
  Names,       \* names of files and folders
  StartFolders, \* a folder and the sequence of its files, to start from
  Requests,    \* bound: slots for requests under way
  MaxRequests, \* bound: uploads and moves ever begun
  DriveFaults  \* the failures of a run: "bucket", "crash"

ASSUME DriveConstants ==
  /\ MaxNodes \in Nat /\ MaxRequests \in Nat
  /\ \A c \in StartFolders :
       /\ c.folder \in Names /\ c.files \in Seq(Names)
       /\ \A a, b \in DOMAIN c.files : c.files[a] = c.files[b] => a = b

Ids   == 1..MaxNodes
Root  == 0
Paths == {<<n>> : n \in Names} \cup {<<m, n>> : m \in Names, n \in Names}

VARIABLES
  node,    \* files_nodes, with files_versions
  objects, \* the bucket
  req,     \* requests under way
  begun,   \* how many have begun
  purging, \* the tombstone whose bytes PurgeTombstones has removed, or 0
  atRisk   \* history: rows that have shared a key with another row, or whose
           \* requests a move has crossed or been broken off in

driveVars == <<node, objects, req, begun, purging, atRisk>>

NoNode == [state |-> "none", dir |-> FALSE, parent |-> Root, name |-> "",
           path |-> <<>>, versions |-> {}]

\* A request: the node it is about, the row as it was read, and for a move the
\* rows it plans to write and the objects it has relocated.
NoReq == [pc |-> "idle", id |-> 0, row |-> NoNode, plan |-> <<>>, moved |-> {}]

\* Drives to start from: an empty one, or a folder of committed files.
RowOfFile(f, n) ==
  [NoNode EXCEPT !.state = "live", !.parent = 1, !.name = n, !.path = <<f, n>>,
                 !.versions = {<<f, n>>}]
Loaded(f, names) ==
  [i \in Ids |->
     CASE i = 1 -> [NoNode EXCEPT !.state = "live", !.dir = TRUE, !.name = f, !.path = <<f>>]
       [] i > 1 /\ i <= Len(names) + 1 -> RowOfFile(f, names[i - 1])
       [] OTHER -> NoNode]

DriveInit ==
  /\ node \in {[i \in Ids |-> NoNode]} \cup {Loaded(c.folder, c.files) : c \in StartFolders}
  /\ objects = [k \in Paths |->
       IF \E i \in Ids : k \in node[i].versions
       THEN CHOOSE i \in Ids : k \in node[i].versions ELSE 0]
  /\ req = [t \in Requests |-> NoReq]
  /\ begun = 0
  /\ purging = 0
  /\ atRisk = {}
-----------------------------------------------------------------------------
(* Lookups                                                                 *)

Live(i)       == node[i].state = "live"
LiveFile(i)   == Live(i) /\ ~node[i].dir
Children(p)   == {i \in Ids : Live(i) /\ node[i].parent = p}
Named(p, n)   == {i \in Children(p) : node[i].name = n}   \* childByName
Fresh         == {i \in Ids : node[i].state = "none" /\ \A j \in 1..(i - 1) : node[j].state # "none"}

\* resolveParent, for parents that may hold files.
PathOf(p)     == IF p = Root THEN <<>> ELSE node[p].path
Folders       == {Root} \cup {i \in Ids : Live(i) /\ node[i].dir}

Moving(t, i)  == req[t].pc \in {"bytes", "revert"} /\ i \in DOMAIN req[t].plan
Writing(t, i) == req[t].pc \in {"putting", "touch"} /\ req[t].id = i

\* The keys a row knows: those of its versions and its own.
KeysOf(i) ==
  IF node[i].dir \/ node[i].state \notin {"live", "dead"} THEN {}
  ELSE node[i].versions \cup {node[i].path}

\* Row i gets a key: with it, the other rows that have it or whose requests use it.
Sharing(i, k) ==
  LET others == {j \in Ids \ {i} :
                   \/ k \in KeysOf(j)
                   \/ \E t \in Requests :
                        \/ Moving(t, j) /\ k \in {req[t].plan[j].from, req[t].plan[j].row.path}
                        \/ Writing(t, j) /\ k = req[t].row.path}
  IN  IF others = {} THEN {} ELSE others \cup {i}

Begin(t, r) ==
  /\ req[t].pc = "idle"
  /\ begun < MaxRequests
  /\ begun' = begun + 1
  /\ req' = [req EXCEPT ![t] = r]

Put(t, r) == req' = [req EXCEPT ![t] = r] /\ UNCHANGED begun
End(t)    == Put(t, NoReq)
-----------------------------------------------------------------------------
(* CreateFolder and StoreContent (UploadGrant, PutContent, Commit)         *)

NewRow(p, n, isDir) ==
  [state |-> "live", dir |-> isDir, parent |-> p, name |-> n,
   path |-> PathOf(p) \o <<n>>, versions |-> {}]

CreateFolder(n) ==
  /\ Named(Root, n) = {}
  /\ \E i \in Fresh : node' = [node EXCEPT ![i] = NewRow(Root, n, TRUE)]
  /\ UNCHANGED <<objects, req, begun, purging, atRisk>>

\* childByName: an existing file is used, a missing one inserted next.
StoreLocate(t, p, n) ==
  /\ p \in Folders
  /\ IF Named(p, n) = {}
     THEN Begin(t, [NoReq EXCEPT !.pc = "insert", !.row = NewRow(p, n, FALSE)])
     ELSE \E i \in Named(p, n) :
            ~node[i].dir /\ Begin(t, [NoReq EXCEPT !.pc = "put", !.id = i])
  /\ UNCHANGED <<node, objects, purging, atRisk>>

StoreInsert(t) ==
  /\ req[t].pc = "insert"
  /\ \E i \in Fresh :
       /\ node' = [node EXCEPT ![i] = req[t].row]
       /\ atRisk' = atRisk \cup Sharing(i, req[t].row.path)
       /\ Put(t, [NoReq EXCEPT !.pc = "put", !.id = i])
  /\ UNCHANGED <<objects, purging>>

\* A request reads row i while a move of it is under way, or the reverse.
Crossed(t, S, isMove) ==
  {i \in S : \E u \in Requests \ {t} : Moving(u, i) \/ (isMove /\ Writing(u, i))}

\* PutContent reads the row and streams to the key it found.
StorePutRead(t) ==
  /\ req[t].pc = "put"
  /\ IF Live(req[t].id)
     THEN Put(t, [req[t] EXCEPT !.pc = "putting", !.row = node[req[t].id]])
     ELSE End(t)
  /\ atRisk' = atRisk \cup Crossed(t, {req[t].id}, FALSE)
  /\ UNCHANGED <<node, objects, purging>>

StorePut(t) ==
  /\ req[t].pc = "putting"
  /\ objects' = [objects EXCEPT ![req[t].row.path] = req[t].id]
  /\ Put(t, [req[t] EXCEPT !.pc = "commit", !.row = NoNode])
  /\ UNCHANGED <<node, purging, atRisk>>

\* Commit: the row is read again and a version under its key inserted.
CommitRead(t) ==
  LET i == req[t].id IN
  /\ req[t].pc = "commit"
  /\ IF Live(i)
     THEN /\ node' = [node EXCEPT ![i].versions = @ \cup {node[i].path}]
          /\ Put(t, [req[t] EXCEPT !.pc = "touch", !.row = node'[i]])
          /\ atRisk' = atRisk \cup Crossed(t, {i}, FALSE)
     ELSE End(t) /\ UNCHANGED <<node, atRisk>>
  /\ UNCHANGED <<objects, purging>>

\* touchNode writes every column of the row as it was read.
CommitTouch(t) ==
  LET i == req[t].id IN
  /\ req[t].pc = "touch"
  /\ node' = [node EXCEPT ![i].name = req[t].row.name, ![i].parent = req[t].row.parent,
                          ![i].path = req[t].row.path]
  /\ End(t)
  /\ UNCHANGED <<objects, purging, atRisk>>

\* The bucket refuses the put; the request ends with an error.
StorePutFails(t) ==
  /\ "bucket" \in DriveFaults
  /\ req[t].pc = "putting"
  /\ End(t)
  /\ UNCHANGED <<node, objects, purging, atRisk>>
-----------------------------------------------------------------------------
(* Move: bytes first, then the index in one transaction                    *)

\* planMoves: for i and, when it is a folder, its children, the key the row had
\* and the row to write.
PlanFor(i, p, n) ==
  LET to   == PathOf(p) \o <<n>>
      kids == IF node[i].dir THEN Children(i) ELSE {}
  IN  [j \in {i} \cup kids |->
         [from |-> node[j].path,
          row |-> IF j = i THEN [node[i] EXCEPT !.parent = p, !.name = n, !.path = to]
                  ELSE [node[j] EXCEPT !.path = to \o <<node[j].name>>]]]

\* Files of a plan that go to one key: rows of one name in a folder.
Colliding(plan) ==
  {j \in DOMAIN plan : ~plan[j].row.dir /\ \E k \in DOMAIN plan \ {j} :
     ~plan[k].row.dir /\ plan[k].row.path = plan[j].row.path}

MovePlan(t, i, p, n) ==
  LET plan == PlanFor(i, p, n) IN
  /\ Live(i)
  /\ p \in Folders
  /\ node[i].dir => p = Root                   \* bound: folders stay at the root
  /\ <<p, n>> # <<node[i].parent, node[i].name>>
  /\ Named(p, n) \subseteq {i}
  /\ Begin(t, [NoReq EXCEPT !.pc = "bytes", !.id = i, !.plan = plan])
  /\ atRisk' = atRisk \cup Crossed(t, DOMAIN plan, TRUE) \cup Colliding(plan) \cup
       UNION {Sharing(j, plan[j].row.path) : j \in {k \in DOMAIN plan : ~plan[k].row.dir}}
  /\ UNCHANGED <<node, objects, purging>>

\* Files whose bytes are still to be relocated.
Pending(t) == {j \in DOMAIN req[t].plan : ~req[t].plan[j].row.dir} \ req[t].moved

\* MoveObject: copy and remove; nothing when there is no object.
MovedObjects(from, to) ==
  IF from = to \/ objects[from] = 0 THEN objects
  ELSE [objects EXCEPT ![to] = objects[from], ![from] = 0]

RelocateOne(t, j) ==
  /\ req[t].pc = "bytes"
  /\ j \in Pending(t)
  /\ objects' = MovedObjects(req[t].plan[j].from, req[t].plan[j].row.path)
  /\ Put(t, [req[t] EXCEPT !.moved = @ \cup {j}])
  /\ UNCHANGED <<node, purging, atRisk>>

\* The bucket refuses to relocate one: what is done is moved back.
RelocateFails(t) ==
  /\ "bucket" \in DriveFaults
  /\ req[t].pc = "bytes"
  /\ Pending(t) # {}
  /\ Put(t, [req[t] EXCEPT !.pc = "revert"])
  /\ UNCHANGED <<node, objects, purging, atRisk>>

\* The source is removed but the answer is lost: MoveObject takes the removal
\* for failed and removes the copy too.
RelocateAnswerLost(t, j) ==
  LET from == req[t].plan[j].from  to == req[t].plan[j].row.path IN
  /\ "bucket" \in DriveFaults
  /\ req[t].pc = "bytes"
  /\ j \in Pending(t)
  /\ objects[from] # 0
  /\ objects' = [objects EXCEPT ![from] = 0, ![to] = 0]
  /\ Put(t, [req[t] EXCEPT !.pc = "revert"])
  /\ atRisk' = atRisk \cup {j}
  /\ UNCHANGED <<node, purging>>

\* commitMovePlan: name, parent and path of every row of the plan.
MoveCommit(t) ==
  LET plan == req[t].plan IN
  /\ req[t].pc = "bytes"
  /\ Pending(t) = {}
  /\ node' = [j \in Ids |->
       IF j \in DOMAIN plan /\ node[j].state # "none"
       THEN [node[j] EXCEPT !.name = plan[j].row.name, !.parent = plan[j].row.parent,
                            !.path = plan[j].row.path]
       ELSE node[j]]
  /\ End(t)
  /\ UNCHANGED <<objects, purging, atRisk>>

MoveCommitFails(t) ==
  /\ "bucket" \in DriveFaults
  /\ req[t].pc = "bytes"
  /\ Pending(t) = {}
  /\ Put(t, [req[t] EXCEPT !.pc = "revert"])
  /\ UNCHANGED <<node, objects, purging, atRisk>>

\* Fault: a failed move leaves the bytes where they are.
Reverted_NotMovedBack(t, j) == objects

\* What one step of revertBytes leaves in the bucket.
Reverted(t, j) == MovedObjects(req[t].plan[j].row.path, req[t].plan[j].from)

\* revertBytes, one object at a time; a failure is only logged.
RevertOne(t, j) ==
  /\ req[t].pc = "revert"
  /\ j \in req[t].moved
  /\ objects' = Reverted(t, j)
  /\ Put(t, [req[t] EXCEPT !.moved = @ \ {j}])
  /\ UNCHANGED <<node, purging, atRisk>>

RevertFails(t, j) ==
  /\ "bucket" \in DriveFaults
  /\ req[t].pc = "revert"
  /\ j \in req[t].moved
  /\ Put(t, [req[t] EXCEPT !.moved = @ \ {j}])
  /\ atRisk' = atRisk \cup {j}
  /\ UNCHANGED <<node, objects, purging>>

RevertDone(t) ==
  /\ req[t].pc = "revert"
  /\ req[t].moved = {}
  /\ End(t)
  /\ UNCHANGED <<node, objects, purging, atRisk>>
-----------------------------------------------------------------------------
(* Delete, PurgeTombstones and the crash                                   *)

\* softDelete: the row of a folder alone, whatever is in it.
DeleteNode(i) ==
  /\ Live(i)
  /\ node' = [node EXCEPT ![i].state = "dead"]
  /\ UNCHANGED <<objects, req, begun, purging, atRisk>>

\* No request outlives the retention time of thirty days.
Stale(i) ==
  /\ node[i].state = "dead"
  /\ \A t \in Requests : req[t].id # i /\ ~Moving(t, i)

\* purgeBytes removes the object and the object of every version.
PurgedKeys(i) == KeysOf(i)

PurgeBytes(i) ==
  /\ purging = 0
  /\ Stale(i)
  /\ objects' = [k \in Paths |-> IF k \in PurgedKeys(i) THEN 0 ELSE objects[k]]
  /\ purging' = i
  /\ UNCHANGED <<node, req, begun, atRisk>>

\* Some of the keys cannot be removed: the row stays for the next sweep.
PurgeBytesFails(i, k) ==
  /\ "bucket" \in DriveFaults
  /\ purging = 0
  /\ Stale(i)
  /\ k \in PurgedKeys(i)
  /\ objects' = [m \in Paths |-> IF m \in PurgedKeys(i) \ {k} THEN 0 ELSE objects[m]]
  /\ objects' # objects
  /\ UNCHANGED <<node, req, begun, purging, atRisk>>

HardDelete ==
  /\ purging # 0
  /\ node' = [node EXCEPT ![purging] = [NoNode EXCEPT !.state = "gone"]]
  /\ purging' = 0
  /\ UNCHANGED <<objects, req, begun, atRisk>>

\* The process dies with its requests.
DriveCrash ==
  /\ "crash" \in DriveFaults
  /\ (\E t \in Requests : req[t] # NoReq) \/ purging # 0
  /\ req' = [t \in Requests |-> NoReq]
  /\ purging' = 0
  /\ atRisk' = atRisk \cup {i \in Ids : \E t \in Requests : Moving(t, i)}
  /\ UNCHANGED <<node, objects, begun>>

DriveNext ==
  \/ \E n \in Names : CreateFolder(n)
  \/ \E i \in Ids : DeleteNode(i) \/ PurgeBytes(i)
  \/ \E i \in Ids, k \in Paths : PurgeBytesFails(i, k)
  \/ HardDelete
  \/ DriveCrash
  \/ \E t \in Requests :
       \/ \E p \in {Root} \cup Ids, n \in Names :
            \/ StoreLocate(t, p, n)
            \/ \E i \in Ids : MovePlan(t, i, p, n)
       \/ StoreInsert(t)
       \/ StorePutRead(t)
       \/ StorePut(t)
       \/ StorePutFails(t)
       \/ CommitRead(t)
       \/ CommitTouch(t)
       \/ \E j \in Ids :
            \/ RelocateOne(t, j)
            \/ RelocateAnswerLost(t, j)
            \/ RevertOne(t, j)
            \/ RevertFails(t, j)
       \/ RelocateFails(t)
       \/ MoveCommit(t)
       \/ MoveCommitFails(t)
       \/ RevertDone(t)

DriveSpec == DriveInit /\ [][DriveNext]_driveVars
-----------------------------------------------------------------------------
\* Types; the key of a file is a path of at most one folder.
DriveTypeOK ==
  /\ \A i \in Ids :
       /\ node[i].state \in {"none", "live", "dead", "gone"}
       /\ node[i].parent \in {Root} \cup Ids
       /\ node[i].path \in Paths \cup {<<>>}
       /\ node[i].versions \subseteq Paths
  /\ objects \in [Paths -> {0} \cup Ids]
  /\ begun \in 0..MaxRequests
  /\ purging \in {0} \cup Ids
  /\ atRisk \subseteq Ids

\* A file that has been committed and is not being moved at the moment.
Settled(i) ==
  /\ LiveFile(i)
  /\ node[i].versions # {}
  /\ \A t \in Requests : ~Moving(t, i)

\* The whole of a move lands or nothing changes, a purge frees what was deleted
\* and nothing else: a committed file has its bytes, written for it, under the
\* key in its row.  This is so while no other row names its key and its
\* requests have neither been crossed by a move nor broken off in one.
KeepsItsBytes ==
  \A i \in Ids :
    Settled(i) /\ i \notin atRisk => objects[node[i].path] = i

\* No object is out of reach of the purge: its key is that of a row or of a
\* version of one, or it is being written or moved.
NoLeakedObjects ==
  \A k \in Paths :
    \/ objects[k] = 0
    \/ objects[k] \in atRisk
    \/ \E i \in Ids : k \in KeysOf(i)
    \/ \E t \in Requests :
         \/ req[t].pc \in {"commit", "touch"}
         \/ \E j \in Ids : Moving(t, j) /\ req[t].plan[j].row.path = k

\* service.go: the purge may run "concurrently with normal Service use - it
\* never touches an undeleted row"; what it removes is not the object of one.
PurgeSparesLiveFiles ==
  [][\A i \in Ids :
       purging' # purging /\ Settled(i) /\ objects[node[i].path] = i =>
         objects'[node[i].path] = i]_driveVars
=============================================================================
