---------------------------- MODULE StorageProofs ----------------------------
(***************************************************************************)
(* Three stores of the box: the Drive, resumable uploads and the relay.    *)
(*                                                                         *)
(* The Drive: a committed file has its bytes under the key in its row      *)
(* (KeepsItsBytes), for any number of rows, names and requests, with       *)
(* bucket failures and crashes at any time.                                *)
(* The index alone does not give it: between the statements of a request   *)
(* the bytes are where a move has put them and the row says otherwise.     *)
(* DriveInv is about every key a row knows or a request about it uses:     *)
(* Exclusive, that a file not at risk shares none of them, so that no      *)
(* upload, move or purge of another row touches its bytes; Calm, that one  *)
(* move at most is under way and none beside an upload, and that requests  *)
(* know the key the row has; Held, where the bytes are at every step.      *)
(*                                                                         *)
(* Uploads: one request at a time works on an upload, for any number of    *)
(* uploads, requests and failures.  The mutex alone does not give it:      *)
(* Delete takes none and drops an id's mutex from the map while a request  *)
(* holds it, so that the next one locks another.  What saves the code is   *)
(* the order in deleteInternal: the row goes before the mutex, so whoever  *)
(* locks a new mutex finds no open row, and ids never come back.  LockInv  *)
(* says this.  On top of it: PromiseInv, by which a hashed upload arrives  *)
(* whole and before it is complete, and StagingInv, by which no staged     *)
(* bytes are left without the row the sweeper finds them by.               *)
(*                                                                         *)
(* The relay stores a signed deposit once while its nonce is remembered,   *)
(* and keeps what it has accepted until it is read or expires: for any     *)
(* number of deposits, replays and depositors, any capacities, and         *)
(* restarts at any time.  Nothing in the store itself tells a replay: what *)
(* is stored, what is on its way and what is remembered have to be taken   *)
(* together (OnceInv).  The files have no lock, and the reaper and Ack go  *)
(* by blob id: what they are about to remove has been read or has expired  *)
(* unless the id was used again (KeptInv).  And what deposits that look    *)
(* at the caps together can exceed them by is bounded (CapInv).            *)
(***************************************************************************)
EXTENDS Drive, Uploads, RelayStore, FiniteSetTheorems, TLAPS
-----------------------------------------------------------------------------
(* The Drive                                                               *)

Present     == {"live", "dead"}
FolderPaths == {<<n>> : n \in Names}
NodeRows    == [state : Present \cup {"none", "gone"}, dir : BOOLEAN, parent : {Root} \cup Ids,
                name : Names \cup {""}, path : Paths \cup {<<>>}, versions : SUBSET Paths]

\* A row that is there: it has a name and a key, and a folder is at the root.
Proper(r) ==
  /\ r \in NodeRows
  /\ r.name \in Names /\ r.path \in Paths
  /\ r.dir => r.parent = Root /\ r.path \in FolderPaths

\* The files among the rows of a plan.
FilesOf(plan) == {j \in DOMAIN plan : ~plan[j].row.dir}

\* A request is about rows that are there; an upload about a file.
ReqOK(q, rows) ==
  /\ q \in [pc : {"idle", "insert", "put", "putting", "commit", "touch", "bytes", "revert"},
            id : {0} \cup Ids, row : NodeRows, plan : {q.plan}, moved : {q.moved}]
  /\ q.pc = "insert" => /\ Proper(q.row) /\ ~q.row.dir
                        /\ q.row.state = "live" /\ q.row.versions = {}
  /\ q.pc \in {"put", "putting", "commit", "touch"} =>
       q.id \in Ids /\ rows[q.id].state \in Present /\ ~rows[q.id].dir
  /\ q.pc \in {"putting", "touch"} => Proper(q.row)
  /\ q.pc \in {"bytes", "revert"} =>
       /\ DOMAIN q.plan \subseteq Ids
       /\ \A j \in DOMAIN q.plan :
            /\ rows[j].state \in Present /\ q.plan[j].row.dir = rows[j].dir
            /\ q.plan[j].from \in Paths /\ Proper(q.plan[j].row)
       /\ q.moved \subseteq FilesOf(q.plan)

DriveTypes ==
  /\ node \in [Ids -> NodeRows]
  /\ \A i \in Ids : node[i].state \in Present => Proper(node[i])
  /\ objects \in [Paths -> {0} \cup Ids]
  /\ req = [t \in Requests |-> req[t]]
  /\ \A t \in Requests : ReqOK(req[t], node)
  /\ purging \in {0} \cup Ids
  /\ purging # 0 => Stale(purging)

\* The keys of row i: those it knows, and those of the requests about it.
MovesKey(t, i, k) ==
  Moving(t, i) /\ ~req[t].plan[i].row.dir /\ k \in {req[t].plan[i].from, req[t].plan[i].row.path}
WritesKey(t, i, k) == Writing(t, i) /\ k = req[t].row.path
Uses(i, k) == k \in KeysOf(i) \/ \E t \in Requests : MovesKey(t, i, k) \/ WritesKey(t, i, k)

\* A file that is not at risk has its keys to itself,
Exclusive ==
  \A i \in Ids \ atRisk : \A j \in Ids \ {i} : \A k : ~(Uses(i, k) /\ Uses(j, k))

\* one move at a time and no upload beside it, and requests that know where it is,
Calm(i) ==
  /\ \A t, u \in Requests : Moving(t, i) /\ Moving(u, i) => t = u
  /\ \A t, u \in Requests : ~(Moving(t, i) /\ Writing(u, i))
  /\ \A t \in Requests : Moving(t, i) => req[t].plan[i].from = node[i].path
  /\ \A t \in Requests : Writing(t, i) => req[t].row.path = node[i].path

\* and, once its bytes are stored, has them where it is or where a move has put them.
HasBytes(i) ==
  /\ LiveFile(i)
  /\ node[i].versions # {} \/ \E t \in Requests : req[t].pc = "commit" /\ req[t].id = i
Placed(t, i) == IF i \in req[t].moved THEN req[t].plan[i].row.path ELSE req[t].plan[i].from
Held(i) ==
  HasBytes(i) =>
    /\ \A t \in Requests : Moving(t, i) => objects[Placed(t, i)] = i
    /\ (\A t \in Requests : ~Moving(t, i)) => objects[node[i].path] = i

DriveInv ==
  /\ DriveTypes
  /\ Exclusive
  /\ \A i \in Ids \ atRisk : Calm(i) /\ Held(i)
-----------------------------------------------------------------------------
(* What a step may leave as it is.                                         *)

\* Who gains no key keeps its keys to itself.
LEMMA ExclusiveKept ==
  ASSUME Exclusive, atRisk \subseteq atRisk',
         \A i \in Ids : \A k : Uses(i, k)' => Uses(i, k)
  PROVE  Exclusive'
BY DEF Exclusive

\* Requests about a file end, or go on as they were.
LEMMA CalmKept ==
  ASSUME NEW i \in Ids, Calm(i),
         \A t \in Requests : Moving(t, i)' => Moving(t, i) /\ req'[t].plan = req[t].plan,
         \A t \in Requests : Writing(t, i)' => Writing(t, i) /\ req'[t].row = req[t].row,
         (\E t \in Requests : Moving(t, i)' \/ Writing(t, i)') => node'[i].path = node[i].path
  PROVE  Calm(i)'
BY DEF Calm

\* Where a file's bytes are is a key it uses.
LEMMA PlacedIsUsed ==
  ASSUME DriveTypes, NEW i \in Ids, LiveFile(i)
  PROVE  /\ Uses(i, node[i].path) /\ node[i].path \in Paths
         /\ \A t \in Requests : Moving(t, i) =>
              /\ ~req[t].plan[i].row.dir
              /\ Uses(i, Placed(t, i)) /\ Placed(t, i) \in Paths
<1>1. node[i].path \in KeysOf(i) /\ node[i].path \in Paths
  BY DEF DriveTypes, LiveFile, Live, KeysOf, Present, Proper
<1>2. ASSUME NEW t \in Requests, Moving(t, i)
      PROVE  ~req[t].plan[i].row.dir /\ Uses(i, Placed(t, i)) /\ Placed(t, i) \in Paths
  <2>1. /\ req[t].plan[i].row.dir = node[i].dir
        /\ req[t].plan[i].from \in Paths /\ req[t].plan[i].row.path \in Paths
    BY <1>2 DEF DriveTypes, ReqOK, Moving, Proper
  <2>2. MovesKey(t, i, Placed(t, i))
    BY <1>2, <2>1 DEF MovesKey, Placed, LiveFile
  <2> QED
    BY <2>1, <2>2 DEF Placed, LiveFile, Uses
<1> QED
  BY <1>1, <1>2 DEF Uses

\* A file of which nothing changes, nor of the objects under its keys.
LEMMA HeldKept ==
  ASSUME DriveTypes, NEW i \in Ids, Held(i),
         HasBytes(i)' => HasBytes(i) /\ node'[i].path = node[i].path,
         \A t \in Requests :
           /\ Moving(t, i)' <=> Moving(t, i)
           /\ Moving(t, i) => req'[t].plan = req[t].plan /\ (i \in req'[t].moved <=> i \in req[t].moved),
         \A k \in Paths : Uses(i, k) => objects'[k] = objects[k]
  PROVE  Held(i)'
<1> SUFFICES ASSUME HasBytes(i)'
             PROVE  /\ \A t \in Requests : Moving(t, i)' => objects'[Placed(t, i)'] = i
                    /\ (\A t \in Requests : ~Moving(t, i)') => objects'[node'[i].path] = i
  BY DEF Held
<1>1. HasBytes(i) /\ LiveFile(i)
  BY DEF HasBytes
<1>2. ASSUME NEW t \in Requests, Moving(t, i)'
      PROVE  objects'[Placed(t, i)'] = i
  <2>1. Placed(t, i)' = Placed(t, i)
    BY <1>2 DEF Placed
  <2> QED
    BY <1>1, <1>2, <2>1, PlacedIsUsed DEF Held
<1>3. (\A t \in Requests : ~Moving(t, i)') => objects'[node'[i].path] = i
  BY <1>1, PlacedIsUsed DEF Held
<1> QED
  BY <1>2, <1>3

\* Rows that are there stay, and folders stay folders.
LEMMA ReqStays ==
  ASSUME NEW q, NEW rows, NEW rows2, ReqOK(q, rows),
         \A i \in Ids : rows[i].state \in Present =>
                          rows2[i].state \in Present /\ rows2[i].dir = rows[i].dir
  PROVE  ReqOK(q, rows2)
BY DEF ReqOK

\* One request goes on to q.
LEMMA RequestGoes ==
  ASSUME DriveTypes, NEW t \in Requests, NEW q, req' = [req EXCEPT ![t] = q]
  PROVE  /\ req' = [u \in Requests |-> req'[u]]
         /\ req'[t] = q
         /\ \A u \in Requests \ {t} : req'[u] = req[u]
BY DEF DriveTypes

\* The types, when one request goes on to q and no row is touched.
LEMMA TypesKept ==
  ASSUME DriveTypes, NEW t \in Requests, NEW q, req' = [req EXCEPT ![t] = q], node' = node,
         objects' \in [Paths -> {0} \cup Ids], purging' = purging, ReqOK(q, node),
         purging # 0 => q.id # purging
                        /\ ~(q.pc \in {"bytes", "revert"} /\ purging \in DOMAIN q.plan)
  PROVE  DriveTypes'
<1>1. /\ req' = [u \in Requests |-> req'[u]] /\ req'[t] = q
      /\ \A u \in Requests \ {t} : req'[u] = req[u]
  BY RequestGoes
<1>2. \A u \in Requests : ReqOK(req'[u], node)
  BY <1>1 DEF DriveTypes
<1>3. purging # 0 => Stale(purging)'
  BY <1>1 DEF DriveTypes, Stale, Moving
<1> QED
  BY <1>1, <1>2, <1>3 DEF DriveTypes

\* A request that is at rest or about to begin.
LEMMA NoReqOK ==
  /\ NoReq.pc = "idle" /\ NoReq.id = 0 /\ NoNode \in NodeRows
  /\ \A rows : ReqOK(NoReq, rows)
BY DEF NoReq, NoNode, NodeRows, ReqOK, Present, Root

\* Request t goes on to q, in which it neither writes nor moves anything, and had
\* moved nothing; no row is touched, and q has stored nothing new.
LEMMA Quietly ==
  ASSUME DriveInv, NEW t \in Requests, NEW q, req' = [req EXCEPT ![t] = q],
         UNCHANGED <<node, objects, purging>>, atRisk \subseteq atRisk',
         ReqOK(q, node), q.pc \in {"idle", "insert", "put"},
         req[t].pc \notin {"bytes", "revert"},
         purging # 0 => q.id # purging
  PROVE  DriveInv'
<1>1. /\ req'[t] = q
      /\ \A u \in Requests \ {t} : req'[u] = req[u]
  BY RequestGoes DEF DriveInv
<1>2. DriveTypes'
  BY TypesKept DEF DriveInv, DriveTypes
<1>3. \A i \in Ids, u \in Requests :
         /\ Moving(u, i)' <=> Moving(u, i)
         /\ Moving(u, i) => req'[u] = req[u]
         /\ Writing(u, i)' => Writing(u, i) /\ req'[u] = req[u]
  BY <1>1 DEF Moving, Writing
<1>4. \A i \in Ids : KeysOf(i)' = KeysOf(i)
  BY DEF KeysOf
<1>5. \A i \in Ids : \A k : Uses(i, k)' => Uses(i, k)
  BY <1>3, <1>4 DEF Uses, MovesKey, WritesKey
<1>6. Exclusive'
  BY <1>5, ExclusiveKept DEF DriveInv
<1>7. ASSUME NEW i \in Ids \ atRisk'
      PROVE  Calm(i)' /\ Held(i)'
  <2>1. Calm(i) /\ Held(i) /\ i \in Ids
    BY <1>7 DEF DriveInv
  <2>2. Calm(i)'
    BY <1>3, <2>1, CalmKept
  <2>3. HasBytes(i)' => HasBytes(i)
    BY <1>1 DEF HasBytes, LiveFile, Live
  <2> QED
    BY <1>3, <2>1, <2>2, <2>3, HeldKept DEF DriveInv
<1> QED
  BY <1>2, <1>6, <1>7 DEF DriveInv

\* The path of a file in a folder.
LEMMA PairOfNames ==
  ASSUME NEW m \in Names, NEW n \in Names
  PROVE  <<m>> \o <<n>> = <<m, n>>
<1> DEFINE s == <<m>> \o <<n>>
<1>1. <<m>> \in Seq(Names) /\ <<n>> \in Seq(Names) /\ Len(<<m>>) = 1 /\ Len(<<n>>) = 1
  OBVIOUS
<1>2. s \in Seq(Names) /\ Len(s) = 2 /\ s[1] = m /\ s[2] = n
  BY <1>1
<1> HIDE DEF s
<1>3. s = <<m, n>>
  BY <1>2
<1> QED
  BY <1>3 DEF s

\* A row is made as one that is there, with a key of its own.
LEMMA NewRowProper ==
  ASSUME DriveTypes, NEW p \in Folders, NEW n \in Names, NEW d \in BOOLEAN, d => p = Root
  PROVE  /\ Proper(NewRow(p, n, d))
         /\ NewRow(p, n, d).dir = d /\ NewRow(p, n, d).state = "live"
         /\ NewRow(p, n, d).versions = {}
         /\ PathOf(p) \o <<n>> \in Paths
         /\ p = Root => PathOf(p) \o <<n>> \in FolderPaths
<1>1. CASE p = Root
  <2>1. PathOf(p) \o <<n>> = <<n>>
    BY <1>1 DEF PathOf
  <2>2. <<n>> \in Paths /\ <<n>> \in FolderPaths
    BY DEF Paths, FolderPaths
  <2>3. NewRow(p, n, d) \in NodeRows
    BY <1>1, <2>1, <2>2 DEF NewRow, NodeRows, Present
  <2> HIDE DEF Paths, FolderPaths
  <2> QED
    BY <1>1, <2>1, <2>2, <2>3 DEF NewRow, Proper
<1>2. CASE p # Root
  <2>1. p \in Ids /\ Live(p) /\ node[p].dir
    BY <1>2 DEF Folders
  <2>2. PICK m \in Names : node[p].path = <<m>>
    BY <2>1 DEF DriveTypes, Live, Present, Proper, FolderPaths
  <2>3. PathOf(p) \o <<n>> = <<m, n>>
    <3>1. PathOf(p) = <<m>>
      BY <1>2, <2>2 DEF PathOf
    <3>2. <<m>> \o <<n>> = <<m, n>>
      BY PairOfNames
    <3> QED
      BY <3>1, <3>2
  <2>4. PathOf(p) \o <<n>> \in Paths
    BY <2>3 DEF Paths
  <2>5. NewRow(p, n, d) \in NodeRows
    BY <2>1, <2>4 DEF NewRow, NodeRows, Present
  <2> QED
    BY <1>2, <2>1, <2>4, <2>5 DEF NewRow, Proper
<1> QED
  BY <1>1, <1>2

\* A new row i of nobody's requests.
LEMMA FreshIsNew ==
  ASSUME DriveTypes, NEW i \in Fresh
  PROVE  /\ i \in Ids /\ node[i].state = "none" /\ i # purging /\ KeysOf(i) = {}
         /\ \A t \in Requests : /\ ~Moving(t, i) /\ ~Writing(t, i)
                                /\ ~(req[t].pc \in {"put", "commit"} /\ req[t].id = i)
<1>1. i \in Ids /\ node[i].state = "none"
  BY DEF Fresh
<1>2. i # purging /\ KeysOf(i) = {}
  BY <1>1 DEF DriveTypes, Stale, KeysOf, Ids
<1>3. ASSUME NEW t \in Requests
      PROVE  ~Moving(t, i) /\ ~Writing(t, i) /\ ~(req[t].pc \in {"put", "commit"} /\ req[t].id = i)
  <2>1. ReqOK(req[t], node)
    BY DEF DriveTypes
  <2> QED
    BY <1>1, <2>1 DEF Moving, Writing, ReqOK, Present
<1> QED
  BY <1>1, <1>2, <1>3

-----------------------------------------------------------------------------
(* CreateFolder and StoreContent                                           *)

\* CreateFolder.
LEMMA CreatesFolder ==
  ASSUME DriveInv, NEW n \in Names, CreateFolder(n)
  PROVE  DriveInv'
<1>1. PICK i \in Fresh : node' = [node EXCEPT ![i] = NewRow(Root, n, TRUE)]
  BY DEF CreateFolder
<1>2. UNCHANGED <<objects, req, purging, atRisk>>
  BY DEF CreateFolder
<1>3. DriveTypes /\ Root \in Folders
  BY DEF DriveInv, Folders
<1>4. /\ i \in Ids /\ node[i].state = "none" /\ i # purging /\ KeysOf(i) = {}
      /\ \A t \in Requests : ~Moving(t, i) /\ ~Writing(t, i)
  BY <1>3, FreshIsNew
<1>5. /\ node'[i] = NewRow(Root, n, TRUE) /\ Proper(node'[i]) /\ node'[i].dir
      /\ \A j \in Ids \ {i} : node'[j] = node[j]
      /\ node' \in [Ids -> NodeRows]
  BY <1>1, <1>3, <1>4, NewRowProper DEF DriveTypes, Proper
<1>6. \A j \in Ids : node[j].state \in Present =>
                       node'[j].state \in Present /\ node'[j].dir = node[j].dir
  BY <1>4, <1>5 DEF Present
<1>7. DriveTypes'
  <2>1. \A t \in Requests : ReqOK(req[t], node')
    BY <1>3, <1>6, ReqStays DEF DriveTypes
  <2>2. purging # 0 => Stale(purging)'
    BY <1>2, <1>3, <1>4, <1>5 DEF DriveTypes, Stale, Moving
  <2> QED
    BY <1>2, <1>3, <1>5, <2>1, <2>2 DEF DriveTypes
<1>8. \A j \in Ids, t \in Requests :
         /\ Moving(t, j)' <=> Moving(t, j)
         /\ Writing(t, j)' <=> Writing(t, j)
  BY <1>2 DEF Moving, Writing
<1>9. \A j \in Ids : KeysOf(j)' = KeysOf(j)
  BY <1>4, <1>5 DEF KeysOf
<1>10. \A j \in Ids : \A k : Uses(j, k)' => Uses(j, k)
  BY <1>2, <1>8, <1>9 DEF Uses, MovesKey, WritesKey
<1>11. Exclusive'
  BY <1>2, <1>10, ExclusiveKept DEF DriveInv
<1>12. ASSUME NEW j \in Ids \ atRisk'
       PROVE  Calm(j)' /\ Held(j)'
  <2>1. Calm(j) /\ Held(j) /\ j \in Ids
    BY <1>2, <1>12 DEF DriveInv
  <2>2. (\E t \in Requests : Moving(t, j)' \/ Writing(t, j)') => node'[j].path = node[j].path
    BY <1>4, <1>5, <1>8
  <2>3. Calm(j)'
    BY <1>2, <1>8, <2>1, <2>2, CalmKept
  <2>4. HasBytes(j)' => HasBytes(j) /\ node'[j].path = node[j].path
    BY <1>2, <1>5 DEF HasBytes, LiveFile, Live
  <2> QED
    BY <1>2, <1>3, <1>8, <2>1, <2>3, <2>4, HeldKept
<1> QED
  BY <1>7, <1>11, <1>12 DEF DriveInv

\* StoreContent looks the name up.
LEMMA Locates ==
  ASSUME DriveInv, NEW t \in Requests, NEW p \in {Root} \cup Ids, NEW n \in Names,
         StoreLocate(t, p, n)
  PROVE  DriveInv'
<1>1. DriveTypes /\ p \in Folders /\ req[t].pc = "idle" /\ UNCHANGED <<node, objects, purging, atRisk>>
  BY DEF DriveInv, StoreLocate, Begin
<1>2. CASE Named(p, n) = {}
  <2> DEFINE q == [NoReq EXCEPT !.pc = "insert", !.row = NewRow(p, n, FALSE)]
  <2>1. req' = [req EXCEPT ![t] = q]
    BY <1>2 DEF StoreLocate, Begin
  <2>2. q.pc = "insert" /\ q.id = 0 /\ q.row = NewRow(p, n, FALSE) /\ Proper(NewRow(p, n, FALSE))
    BY <1>1, NewRowProper DEF NoReq
  <2>3. ReqOK(q, node)
    BY <1>1, <2>2, NewRowProper, NoReqOK DEF ReqOK, NoReq, Proper
  <2> HIDE DEF q
  <2> QED
    BY <1>1, <2>1, <2>2, <2>3, Quietly
<1>3. CASE Named(p, n) # {}
  <2>1. PICK i \in Named(p, n) : ~node[i].dir /\ Begin(t, [NoReq EXCEPT !.pc = "put", !.id = i])
    BY <1>3 DEF StoreLocate
  <2> DEFINE q == [NoReq EXCEPT !.pc = "put", !.id = i]
  <2>2. req' = [req EXCEPT ![t] = q]
    BY <2>1 DEF Begin
  <2>3. i \in Ids /\ node[i].state = "live"
    BY <2>1 DEF Named, Children, Live
  <2>4. q.pc = "put" /\ q.id = i
    BY DEF NoReq
  <2>5. ReqOK(q, node)
    BY <2>1, <2>3, NoReqOK DEF ReqOK, NoReq, Present
  <2>6. purging # 0 => purging # i
    BY <1>1, <2>3 DEF DriveTypes, Stale
  <2> HIDE DEF q
  <2> QED
    BY <1>1, <2>2, <2>4, <2>5, <2>6, Quietly
<1> QED
  BY <1>2, <1>3

\* StoreContent inserts the row.
LEMMA Inserts ==
  ASSUME DriveInv, NEW t \in Requests, StoreInsert(t)
  PROVE  DriveInv'
<1> DEFINE r == req[t].row
<1>1. PICK i \in Fresh : /\ node' = [node EXCEPT ![i] = r]
                         /\ atRisk' = atRisk \cup Sharing(i, r.path)
                         /\ req' = [req EXCEPT ![t] = [NoReq EXCEPT !.pc = "put", !.id = i]]
  BY DEF StoreInsert, Put
<1> DEFINE q == [NoReq EXCEPT !.pc = "put", !.id = i]
<1>2. UNCHANGED <<objects, purging>> /\ req[t].pc = "insert" /\ DriveTypes
  BY DEF StoreInsert, DriveInv
<1>3. Proper(r) /\ r \in NodeRows /\ ~r.dir /\ r.state = "live" /\ r.versions = {}
  BY <1>2 DEF DriveTypes, ReqOK, Proper
<1>4. /\ i \in Ids /\ node[i].state = "none" /\ i # purging /\ KeysOf(i) = {}
      /\ \A u \in Requests : /\ ~Moving(u, i) /\ ~Writing(u, i)
                             /\ ~(req[u].pc \in {"put", "commit"} /\ req[u].id = i)
  BY <1>2, FreshIsNew
<1>5. /\ req' = [u \in Requests |-> req'[u]] /\ req'[t] = q
      /\ \A u \in Requests \ {t} : req'[u] = req[u]
  BY <1>1, <1>2, RequestGoes
<1>6. /\ node'[i] = r /\ node' \in [Ids -> NodeRows]
      /\ \A j \in Ids \ {i} : node'[j] = node[j]
  BY <1>1, <1>2, <1>3, <1>4 DEF DriveTypes
<1>7. q.pc = "put" /\ q.id = i /\ ReqOK(q, node')
  BY <1>3, <1>4, <1>6, NoReqOK DEF NoReq, ReqOK, Present
<1> HIDE DEF q, r
<1>8. \A j \in Ids : node[j].state \in Present =>
                       node'[j].state \in Present /\ node'[j].dir = node[j].dir
  BY <1>4, <1>6 DEF Present
<1>9. DriveTypes'
  <2>1. \A u \in Requests : ReqOK(req'[u], node')
    BY <1>2, <1>5, <1>7, <1>8, ReqStays DEF DriveTypes
  <2>2. purging # 0 => Stale(purging)'
    BY <1>2, <1>4, <1>5, <1>6, <1>7 DEF DriveTypes, Stale, Moving
  <2> QED
    BY <1>2, <1>3, <1>5, <1>6, <2>1, <2>2 DEF DriveTypes
<1>10. \A j \in Ids, u \in Requests :
         /\ Moving(u, j)' <=> Moving(u, j)
         /\ Moving(u, j) => req'[u] = req[u]
         /\ Writing(u, j)' => Writing(u, j) /\ req'[u] = req[u]
  BY <1>2, <1>5, <1>7 DEF Moving, Writing
<1>11. \A j \in Ids \ {i} : KeysOf(j)' = KeysOf(j)
  BY <1>6 DEF KeysOf
<1>12. \A j \in Ids \ {i} : \A k : Uses(j, k)' => Uses(j, k)
  BY <1>10, <1>11 DEF Uses, MovesKey, WritesKey
<1>13. \A k : Uses(i, k)' => k = r.path
  BY <1>3, <1>4, <1>6, <1>10 DEF Uses, MovesKey, WritesKey, KeysOf
<1>14. \A j \in Ids \ {i} : Uses(j, r.path) => {i, j} \subseteq atRisk'
  BY <1>1 DEF Sharing, Uses, MovesKey, WritesKey
<1>15. Exclusive'
  BY <1>1, <1>4, <1>12, <1>13, <1>14 DEF Exclusive, DriveInv
<1>16. ASSUME NEW j \in Ids \ atRisk'
       PROVE  Calm(j)' /\ Held(j)'
  <2>1. Calm(j) /\ Held(j) /\ j \in Ids
    BY <1>1, <1>16 DEF DriveInv
  <2>2. (\E u \in Requests : Moving(u, j)' \/ Writing(u, j)') => node'[j].path = node[j].path
    BY <1>4, <1>6, <1>10
  <2>3. Calm(j)'
    BY <1>10, <2>1, <2>2, CalmKept
  <2>4. HasBytes(j)' => HasBytes(j) /\ node'[j].path = node[j].path
    BY <1>3, <1>4, <1>5, <1>6, <1>7 DEF HasBytes, LiveFile, Live
  <2> QED
    BY <1>2, <1>10, <2>1, <2>3, <2>4, HeldKept
<1> QED
  BY <1>9, <1>15, <1>16 DEF DriveInv

\* PutContent reads the row.
LEMMA PutReads ==
  ASSUME DriveInv, NEW t \in Requests, StorePutRead(t)
  PROVE  DriveInv'
<1> DEFINE i == req[t].id
<1>1. /\ UNCHANGED <<node, objects, purging>> /\ req[t].pc = "put" /\ DriveTypes
      /\ atRisk' = atRisk \cup Crossed(t, {i}, FALSE)
  BY DEF StorePutRead, DriveInv
<1>2. i \in Ids /\ node[i].state \in Present /\ ~node[i].dir /\ ReqOK(req[t], node)
  BY <1>1 DEF DriveTypes, ReqOK
<1>3. CASE ~Live(i)
  <2>1. req' = [req EXCEPT ![t] = NoReq]
    BY <1>3 DEF StorePutRead, End, Put
  <2> QED
    BY <1>1, <2>1, NoReqOK, Quietly
<1>4. CASE Live(i)
  <2> DEFINE q == [req[t] EXCEPT !.pc = "putting", !.row = node[i]]
  <2>1. req' = [req EXCEPT ![t] = q]
    BY <1>4 DEF StorePutRead, Put
  <2>2. q.pc = "putting" /\ q.id = i /\ q.row = node[i] /\ ReqOK(q, node)
    BY <1>1, <1>2 DEF ReqOK, DriveTypes
  <2> HIDE DEF q
  <2>3. DriveTypes'
    BY <1>1, <2>1, <2>2, TypesKept DEF DriveTypes, Stale
  <2>4. req'[t] = q /\ \A u \in Requests \ {t} : req'[u] = req[u]
    BY <1>1, <2>1, RequestGoes
  <2>5. \A j \in Ids, u \in Requests :
          /\ Moving(u, j)' <=> Moving(u, j)
          /\ Moving(u, j) => req'[u] = req[u] /\ u # t
          /\ Writing(u, j)' => (u = t /\ j = i) \/ (Writing(u, j) /\ req'[u] = req[u])
    BY <1>1, <2>2, <2>4 DEF Moving, Writing
  <2>6. node[i].path \in KeysOf(i) /\ \A j \in Ids : KeysOf(j)' = KeysOf(j)
    BY <1>1, <1>2 DEF KeysOf, Present
  <2>7. \A j \in Ids : \A k : Uses(j, k)' => Uses(j, k)
    BY <2>2, <2>4, <2>5, <2>6 DEF Uses, MovesKey, WritesKey
  <2>8. Exclusive'
    BY <1>1, <2>7, ExclusiveKept DEF DriveInv
  <2>9. ASSUME NEW j \in Ids \ atRisk'
        PROVE  Calm(j)' /\ Held(j)'
    <3>1. Calm(j) /\ Held(j) /\ j \in Ids
      BY <1>1, <2>9 DEF DriveInv
    <3>2. j = i => \A u \in Requests : ~Moving(u, j)
      BY <1>1, <2>5, <2>9 DEF Crossed
    <3>3. Calm(j)'
      BY <1>1, <2>2, <2>4, <2>5, <3>1, <3>2 DEF Calm
    <3>4. HasBytes(j)' => HasBytes(j)
      BY <1>1, <2>2, <2>4 DEF HasBytes, LiveFile, Live
    <3> QED
      BY <1>1, <2>5, <3>1, <3>3, <3>4, HeldKept
  <2> QED
    BY <2>3, <2>8, <2>9 DEF DriveInv
<1> QED
  BY <1>3, <1>4

\* The bytes arrive under the key that was read.
LEMMA Puts ==
  ASSUME DriveInv, NEW t \in Requests, StorePut(t)
  PROVE  DriveInv'
<1> DEFINE i == req[t].id
           key == req[t].row.path
           q == [req[t] EXCEPT !.pc = "commit", !.row = NoNode]
<1>1. /\ UNCHANGED <<node, purging, atRisk>> /\ req[t].pc = "putting" /\ DriveTypes
      /\ objects' = [objects EXCEPT ![key] = i] /\ req' = [req EXCEPT ![t] = q]
  BY DEF StorePut, Put, DriveInv
<1>2. /\ i \in Ids /\ node[i].state \in Present /\ ~node[i].dir /\ ReqOK(req[t], node)
      /\ key \in Paths
  BY <1>1 DEF DriveTypes, ReqOK, Proper
<1>3. q.pc = "commit" /\ q.id = i /\ ReqOK(q, node)
  BY <1>2, NoReqOK DEF ReqOK
<1> HIDE DEF q
<1>4. /\ objects' \in [Paths -> {0} \cup Ids] /\ objects'[key] = i
      /\ \A k \in Paths \ {key} : objects'[k] = objects[k]
  BY <1>1, <1>2 DEF DriveTypes
<1>5. DriveTypes'
  BY <1>1, <1>3, <1>4, TypesKept DEF DriveTypes, Stale
<1>6. req'[t] = q /\ \A u \in Requests \ {t} : req'[u] = req[u]
  BY <1>1, RequestGoes
<1>7. \A j \in Ids, u \in Requests :
        /\ Moving(u, j)' <=> Moving(u, j)
        /\ Moving(u, j) => req'[u] = req[u]
        /\ Writing(u, j)' => Writing(u, j) /\ req'[u] = req[u]
  BY <1>1, <1>3, <1>6 DEF Moving, Writing
<1>8. \A j \in Ids : KeysOf(j)' = KeysOf(j)
  BY <1>1 DEF KeysOf
<1>9. \A j \in Ids : \A k : Uses(j, k)' => Uses(j, k)
  BY <1>7, <1>8 DEF Uses, MovesKey, WritesKey
<1>10. Exclusive'
  BY <1>1, <1>9, ExclusiveKept DEF DriveInv
<1>11. Writing(t, i) /\ Uses(i, key)
  BY <1>1 DEF Writing, Uses, WritesKey
<1>12. ASSUME NEW j \in Ids \ atRisk'
       PROVE  Calm(j)' /\ Held(j)'
  <2>1. Calm(j) /\ Held(j) /\ j \in Ids \ atRisk
    BY <1>1, <1>12 DEF DriveInv
  <2>2. Calm(j)'
    BY <1>1, <1>7, <2>1, CalmKept
  <2>3. CASE j = i
    <3>1. key = node[j].path /\ \A u \in Requests : ~Moving(u, j)
      BY <1>11, <2>1, <2>3 DEF Calm
    <3> QED
      BY <1>1, <1>4, <1>7, <2>2, <2>3, <3>1 DEF Held
  <2>4. CASE j # i
    <3>1. HasBytes(j)' => HasBytes(j)
      BY <1>1, <1>3, <1>6, <2>4 DEF HasBytes, LiveFile, Live
    <3>2. ~Uses(j, key)
      BY <1>2, <1>11, <2>1, <2>4 DEF Exclusive, DriveInv
    <3> QED
      BY <1>1, <1>4, <1>7, <2>1, <2>2, <3>1, <3>2, HeldKept
  <2> QED
    BY <2>3, <2>4
<1> QED
  BY <1>5, <1>10, <1>12 DEF DriveInv

\* Commit inserts the version.
LEMMA Commits ==
  ASSUME DriveInv, NEW t \in Requests, CommitRead(t)
  PROVE  DriveInv'
<1> DEFINE i == req[t].id
<1>1. UNCHANGED <<objects, purging>> /\ req[t].pc = "commit" /\ DriveTypes
  BY DEF CommitRead, DriveInv
<1>2. i \in Ids /\ node[i].state \in Present /\ ~node[i].dir /\ ReqOK(req[t], node)
  BY <1>1 DEF DriveTypes, ReqOK
<1>3. CASE ~Live(i)
  <2>1. req' = [req EXCEPT ![t] = NoReq] /\ UNCHANGED <<node, atRisk>>
    BY <1>3 DEF CommitRead, End, Put
  <2> QED
    BY <1>1, <2>1, NoReqOK, Quietly
<1>4. CASE Live(i)
  <2> DEFINE r == [node[i] EXCEPT !.versions = @ \cup {node[i].path}]
             q == [req[t] EXCEPT !.pc = "touch", !.row = r]
  <2>1. /\ node' = [node EXCEPT ![i].versions = @ \cup {node[i].path}]
        /\ req' = [req EXCEPT ![t] = [req[t] EXCEPT !.pc = "touch", !.row = node'[i]]]
        /\ atRisk' = atRisk \cup Crossed(t, {i}, FALSE)
    BY <1>4 DEF CommitRead, Put
  <2>2. /\ node' \in [Ids -> NodeRows] /\ node'[i] = r
        /\ \A j \in Ids \ {i} : node'[j] = node[j]
        /\ Proper(node[i]) /\ Proper(r) /\ r.state = node[i].state /\ r.dir = node[i].dir
        /\ r.path = node[i].path /\ r.versions = node[i].versions \cup {node[i].path}
    <3>1. Proper(node[i])
      BY <1>1, <1>2 DEF DriveTypes
    <3>2. /\ r \in NodeRows /\ r.state = node[i].state /\ r.dir = node[i].dir /\ r.path = node[i].path
          /\ r.versions = node[i].versions \cup {node[i].path}
          /\ r.name = node[i].name /\ r.parent = node[i].parent
      BY <3>1 DEF Proper, NodeRows
    <3>3. Proper(r)
      BY <3>1, <3>2 DEF Proper
    <3> QED
      BY <1>1, <1>2, <2>1, <3>1, <3>2, <3>3 DEF DriveTypes
  <2>3. q.pc = "touch" /\ q.id = i /\ q.row = r /\ req' = [req EXCEPT ![t] = q]
    BY <1>2, <2>1, <2>2 DEF ReqOK
  <2>4. ReqOK(q, node')
    BY <1>2, <2>2, <2>3 DEF ReqOK, Proper
  <2> HIDE DEF q, r
  <2>5. /\ req' = [u \in Requests |-> req'[u]] /\ req'[t] = q
        /\ \A u \in Requests \ {t} : req'[u] = req[u]
    BY <1>1, <2>3, RequestGoes
  <2>6. \A j \in Ids : /\ node'[j].state = node[j].state /\ node'[j].dir = node[j].dir
                       /\ node'[j].path = node[j].path
    BY <2>2
  <2>7. DriveTypes'
    <3>1. \A u \in Requests : ReqOK(req'[u], node')
      BY <1>1, <2>4, <2>5, <2>6, ReqStays DEF DriveTypes
    <3>2. purging # 0 => Stale(purging)'
      BY <1>1, <2>3, <2>5, <2>6 DEF DriveTypes, Stale, Moving
    <3>3. \A j \in Ids : node'[j].state \in Present => Proper(node'[j])
      BY <1>1, <2>2 DEF DriveTypes
    <3> QED
      BY <1>1, <2>2, <2>5, <3>1, <3>2, <3>3 DEF DriveTypes
  <2>8. \A j \in Ids, u \in Requests :
          /\ Moving(u, j)' <=> Moving(u, j)
          /\ Moving(u, j) => req'[u] = req[u] /\ u # t
          /\ Writing(u, j)' => (u = t /\ j = i) \/ (Writing(u, j) /\ req'[u] = req[u])
    BY <1>1, <2>3, <2>5 DEF Moving, Writing
  <2>9. node[i].path \in KeysOf(i) /\ \A j \in Ids : KeysOf(j)' = KeysOf(j)
    BY <1>2, <2>2 DEF KeysOf, Present
  <2>10. \A j \in Ids : \A k : Uses(j, k)' => Uses(j, k)
    <3>1. \A j \in Ids, u \in Requests : \A k : MovesKey(u, j, k)' => MovesKey(u, j, k)
      BY <2>8 DEF MovesKey
    <3>2. \A j \in Ids, u \in Requests : \A k :
            WritesKey(u, j, k)' => WritesKey(u, j, k) \/ k \in KeysOf(j)
      BY <2>2, <2>3, <2>5, <2>8, <2>9 DEF WritesKey
    <3> QED
      BY <2>9, <3>1, <3>2 DEF Uses
  <2>11. Exclusive'
    BY <2>1, <2>10, ExclusiveKept DEF DriveInv
  <2>12. ASSUME NEW j \in Ids \ atRisk'
         PROVE  Calm(j)' /\ Held(j)'
    <3>1. Calm(j) /\ Held(j) /\ j \in Ids
      BY <2>1, <2>12 DEF DriveInv
    <3>2. j = i => \A u \in Requests : ~Moving(u, j)
      BY <2>1, <2>8, <2>12 DEF Crossed
    <3>3. Calm(j)'
      BY <2>2, <2>3, <2>5, <2>6, <2>8, <3>1, <3>2 DEF Calm
    <3>4. HasBytes(j)' => HasBytes(j)
      BY <1>1, <2>2, <2>3, <2>5 DEF HasBytes, LiveFile, Live
    <3> QED
      BY <1>1, <2>6, <2>8, <3>1, <3>3, <3>4, HeldKept
  <2> QED
    BY <2>7, <2>11, <2>12 DEF DriveInv
<1> QED
  BY <1>3, <1>4

\* Commit writes the row back as it was read.
LEMMA Touches ==
  ASSUME DriveInv, NEW t \in Requests, CommitTouch(t)
  PROVE  DriveInv'
<1> DEFINE i == req[t].id
           w == req[t].row
           r == [node[i] EXCEPT !.name = w.name, !.parent = w.parent, !.path = w.path]
<1>1. /\ UNCHANGED <<objects, purging, atRisk>> /\ req[t].pc = "touch" /\ DriveTypes
      /\ req' = [req EXCEPT ![t] = NoReq]
      /\ node' = [node EXCEPT ![i].name = w.name, ![i].parent = w.parent, ![i].path = w.path]
  BY DEF CommitTouch, End, Put, DriveInv
<1>2. i \in Ids /\ node[i].state \in Present /\ ~node[i].dir /\ Proper(w)
  BY <1>1 DEF DriveTypes, ReqOK
<1>3. /\ r \in NodeRows /\ Proper(r) /\ r.state = node[i].state /\ r.dir = node[i].dir
      /\ r.path = w.path /\ r.versions = node[i].versions
  BY <1>1, <1>2 DEF DriveTypes, Proper, NodeRows
<1>4. node' = [node EXCEPT ![i] = r]
  BY <1>1, <1>2 DEF DriveTypes, NodeRows
<1> HIDE DEF r
<1>5. /\ node' \in [Ids -> NodeRows] /\ node'[i] = r
      /\ \A j \in Ids \ {i} : node'[j] = node[j]
  <2>1. node \in [Ids -> NodeRows]
    BY <1>1 DEF DriveTypes
  <2> QED
    BY <1>2, <1>3, <1>4, <2>1
<1>6. /\ req' = [u \in Requests |-> req'[u]] /\ req'[t] = NoReq
      /\ \A u \in Requests \ {t} : req'[u] = req[u]
  BY <1>1, RequestGoes
<1>7. \A j \in Ids : node'[j].state = node[j].state /\ node'[j].dir = node[j].dir
  BY <1>3, <1>5
<1>8. DriveTypes'
  <2>1. \A u \in Requests : ReqOK(req'[u], node')
    <3>1. \A u \in Requests : ReqOK(req[u], node)
      BY <1>1 DEF DriveTypes
    <3>2. \A u \in Requests : ReqOK(req'[u], node)
      BY <1>6, <3>1, NoReqOK
    <3> QED
      BY <1>7, <3>2, ReqStays
  <2>2. purging # 0 => Stale(purging)'
    BY <1>1, <1>6, <1>7, NoReqOK DEF DriveTypes, Stale, Moving
  <2>3. \A j \in Ids : node'[j].state \in Present => Proper(node'[j])
    BY <1>1, <1>3, <1>5 DEF DriveTypes
  <2> QED
    BY <1>1, <1>5, <1>6, <2>1, <2>2, <2>3 DEF DriveTypes
<1>9. \A j \in Ids, u \in Requests :
        /\ Moving(u, j)' <=> Moving(u, j)
        /\ Moving(u, j) => req'[u] = req[u]
        /\ Writing(u, j)' => Writing(u, j) /\ req'[u] = req[u]
  BY <1>1, <1>6, NoReqOK DEF Moving, Writing
<1>10. Writing(t, i) /\ Uses(i, w.path)
  BY <1>1 DEF Writing, Uses, WritesKey
<1>11. \A j \in Ids : \A k \in KeysOf(j)' : Uses(j, k)
  <2>1. ASSUME NEW j \in Ids, NEW k \in KeysOf(j)'
        PROVE  k \in KeysOf(j) \/ (j = i /\ k = w.path)
    BY <1>2, <1>3, <1>5, <2>1 DEF KeysOf, Present
  <2> QED
    BY <1>10, <2>1 DEF Uses
<1>12. \A j \in Ids : \A k : Uses(j, k)' => Uses(j, k)
  BY <1>9, <1>11 DEF Uses, MovesKey, WritesKey
<1>13. Exclusive'
  BY <1>1, <1>12, ExclusiveKept DEF DriveInv
<1>14. ASSUME NEW j \in Ids \ atRisk'
       PROVE  Calm(j)' /\ Held(j)'
  <2>1. Calm(j) /\ Held(j) /\ j \in Ids
    BY <1>1, <1>14 DEF DriveInv
  <2>2. node'[j].path = node[j].path /\ node'[j].versions = node[j].versions
    BY <1>3, <1>5, <1>10, <2>1 DEF Calm
  <2>3. Calm(j)'
    BY <1>9, <2>1, <2>2, CalmKept
  <2>4. HasBytes(j)' => HasBytes(j)
    BY <1>6, <1>7, <2>2, NoReqOK DEF HasBytes, LiveFile, Live
  <2> QED
    BY <1>1, <1>9, <2>1, <2>2, <2>3, <2>4, HeldKept
<1> QED
  BY <1>8, <1>13, <1>14 DEF DriveInv

-----------------------------------------------------------------------------
(* Move                                                                    *)

\* A plan is about live rows, knows where they are, and keeps them proper.
LEMMA PlanProper ==
  ASSUME DriveTypes, NEW i \in Ids, NEW p \in Folders, NEW n \in Names, Live(i),
         node[i].dir => p = Root
  PROVE  /\ DOMAIN PlanFor(i, p, n) \subseteq Ids
         /\ i \in DOMAIN PlanFor(i, p, n)
         /\ \A j \in DOMAIN PlanFor(i, p, n) :
              /\ Live(j) /\ PlanFor(i, p, n)[j].from = node[j].path
              /\ Proper(PlanFor(i, p, n)[j].row) /\ PlanFor(i, p, n)[j].row.dir = node[j].dir
<1> DEFINE to   == PathOf(p) \o <<n>>
           kids == IF node[i].dir THEN Children(i) ELSE {}
           top  == [node[i] EXCEPT !.parent = p, !.name = n, !.path = to]
           sub(j) == [node[j] EXCEPT !.path = to \o <<node[j].name>>]
           plan == [j \in {i} \cup kids |-> [from |-> node[j].path, row |-> IF j = i THEN top ELSE sub(j)]]
<1>1. PlanFor(i, p, n) = plan
  BY DEF PlanFor
<1>2. to \in Paths /\ (p = Root => to \in FolderPaths)
  BY NewRowProper
<1>3. p \in {Root} \cup Ids
  BY DEF Folders
<1>4. \A j \in kids : j \in Ids /\ Live(j) /\ node[j].parent = i /\ node[i].dir
  BY DEF Children
<1>5. \A j \in Ids : Live(j) => Proper(node[j])
  BY DEF DriveTypes, Live, Present
<1>6. Proper(top) /\ top.dir = node[i].dir
  <2>1. Proper(node[i])
    BY <1>5
  <2>2. /\ top \in NodeRows /\ top.dir = node[i].dir /\ top.parent = p /\ top.name = n
        /\ top.path = to
    <3> HIDE DEF to
    <3> QED
      BY <1>2, <1>3, <2>1 DEF Proper, NodeRows
  <2> QED
    BY <1>2, <2>2 DEF Proper
<1>7. ASSUME NEW j \in kids
      PROVE  Proper(sub(j)) /\ sub(j).dir = node[j].dir
  <2>1. Proper(node[j]) /\ ~node[j].dir
    BY <1>4, <1>5 DEF Proper, Ids, Root
  <2>2. PICK m \in Names : to = <<m>>
    BY <1>2, <1>4 DEF FolderPaths
  <2>3. to \o <<node[j].name>> \in Paths
    <3>1. to \o <<node[j].name>> = <<m, node[j].name>>
      BY <2>1, <2>2, PairOfNames DEF Proper
    <3> QED
      BY <2>1, <3>1 DEF Paths, Proper
  <2>4. /\ sub(j) \in NodeRows /\ sub(j).dir = node[j].dir /\ sub(j).name = node[j].name
        /\ sub(j).path = to \o <<node[j].name>>
    <3> DEFINE k == to \o <<node[j].name>>
    <3>1. k \in Paths
      BY <2>3
    <3> HIDE DEF k, to
    <3>2. /\ [node[j] EXCEPT !.path = k] \in NodeRows /\ [node[j] EXCEPT !.path = k].dir = node[j].dir
          /\ [node[j] EXCEPT !.path = k].name = node[j].name
          /\ [node[j] EXCEPT !.path = k].path = k
      BY <2>1, <3>1 DEF Proper, NodeRows
    <3> QED
      BY <3>2 DEF k
  <2> QED
    BY <2>1, <2>3, <2>4 DEF Proper
<1>8. DOMAIN plan = {i} \cup kids
  OBVIOUS
<1>9. \A j \in {i} \cup kids : plan[j].from = node[j].path /\ plan[j].row = IF j = i THEN top ELSE sub(j)
  OBVIOUS
<1> HIDE DEF plan, kids, top, sub
<1>10. ASSUME NEW j \in {i} \cup kids
       PROVE  /\ Live(j) /\ plan[j].from = node[j].path
              /\ Proper(plan[j].row) /\ plan[j].row.dir = node[j].dir
  <2>1. CASE j = i
    BY <1>6, <1>9, <2>1
  <2>2. CASE j # i
    BY <1>4, <1>7, <1>9, <2>2
  <2> QED
    BY <2>1, <2>2
<1> QED
  BY <1>1, <1>4, <1>8, <1>10

\* A move is planned.
LEMMA Plans ==
  ASSUME DriveInv, NEW t \in Requests, NEW i \in Ids, NEW p \in {Root} \cup Ids, NEW n \in Names,
         MovePlan(t, i, p, n)
  PROVE  DriveInv'
<1> DEFINE plan == PlanFor(i, p, n)
           q == [NoReq EXCEPT !.pc = "bytes", !.id = i, !.plan = plan]
           files == {k \in DOMAIN plan : ~plan[k].row.dir}
<1>1. /\ UNCHANGED <<node, objects, purging>> /\ req[t].pc = "idle" /\ DriveTypes
      /\ Live(i) /\ p \in Folders /\ (node[i].dir => p = Root)
      /\ req' = [req EXCEPT ![t] = q]
      /\ atRisk' = atRisk \cup Crossed(t, DOMAIN plan, TRUE) \cup Colliding(plan) \cup
                     UNION {Sharing(j, plan[j].row.path) : j \in files}
  BY DEF MovePlan, Begin, DriveInv
<1>2. /\ DOMAIN plan \subseteq Ids
      /\ \A j \in DOMAIN plan :
           /\ Live(j) /\ plan[j].from = node[j].path
           /\ Proper(plan[j].row) /\ plan[j].row.dir = node[j].dir
  BY <1>1, PlanProper
<1> HIDE DEF plan
<1>3. \A j \in DOMAIN plan : plan[j].from \in Paths /\ (~node[j].dir => plan[j].from \in KeysOf(j))
  BY <1>1, <1>2 DEF DriveTypes, Live, Present, Proper, KeysOf
<1>4. q.pc = "bytes" /\ q.id = i /\ q.plan = plan /\ q.moved = {}
  BY DEF NoReq
<1>5. ReqOK(q, node)
  <2>1. q \in [pc : {"bytes"}, id : Ids, row : NodeRows, plan : {q.plan}, moved : {q.moved}]
    BY NoReqOK DEF NoReq
  <2> HIDE DEF q
  <2> QED
    BY <1>2, <1>3, <1>4, <2>1 DEF ReqOK, Live, Present
<1> HIDE DEF q
<1>6. purging # 0 => purging # i /\ purging \notin DOMAIN plan
  BY <1>1, <1>2 DEF DriveTypes, Stale, Live
<1>7. DriveTypes'
  BY <1>1, <1>4, <1>5, <1>6, TypesKept DEF DriveTypes
<1>8. req'[t] = q /\ \A u \in Requests \ {t} : req'[u] = req[u]
  BY <1>1, RequestGoes
<1>9. \A j \in Ids, u \in Requests :
        /\ Moving(u, j)' <=> (u = t /\ j \in DOMAIN plan) \/ Moving(u, j)
        /\ Moving(u, j) => u # t /\ req'[u] = req[u]
        /\ Writing(u, j)' => Writing(u, j) /\ req'[u] = req[u]
  BY <1>1, <1>4, <1>8 DEF Moving, Writing
<1>10. \A j \in Ids : KeysOf(j)' = KeysOf(j)
  BY <1>1 DEF KeysOf
<1>11. \A j \in Ids : \A k : Uses(j, k)' => Uses(j, k) \/ (j \in files /\ k = plan[j].row.path)
  BY <1>2, <1>3, <1>4, <1>8, <1>9, <1>10 DEF Uses, MovesKey, WritesKey
<1>12. \A j \in files : \A m \in Ids \ {j} : Uses(m, plan[j].row.path) => {j, m} \subseteq atRisk'
  <2>1. ASSUME NEW j \in files, NEW m \in Ids \ {j}, Uses(m, plan[j].row.path)
        PROVE  {j, m} \subseteq Sharing(j, plan[j].row.path)
    BY <2>1 DEF Sharing, Uses, MovesKey, WritesKey
  <2> QED
    BY <1>1, <2>1
<1>13. \A j, m \in files : j # m /\ plan[j].row.path = plan[m].row.path => {j, m} \subseteq atRisk'
  BY <1>1 DEF Colliding
<1>14. Exclusive'
  <2>1. ASSUME NEW j \in Ids \ atRisk', NEW m \in Ids \ {j}, NEW k, Uses(j, k)', Uses(m, k)'
        PROVE  FALSE
    <3>1. CASE Uses(j, k) /\ Uses(m, k)
      BY <1>1, <2>1, <3>1 DEF Exclusive, DriveInv
    <3>2. CASE j \in files /\ k = plan[j].row.path
      BY <1>11, <1>12, <1>13, <2>1, <3>2
    <3>3. CASE m \in files /\ k = plan[m].row.path
      BY <1>11, <1>12, <1>13, <2>1, <3>3
    <3> QED
      BY <1>11, <2>1, <3>1, <3>2, <3>3
  <2> QED
    BY <2>1 DEF Exclusive
<1>15. ASSUME NEW j \in Ids \ atRisk'
       PROVE  Calm(j)' /\ Held(j)'
  <2>1. Calm(j) /\ Held(j) /\ j \in Ids
    BY <1>1, <1>15 DEF DriveInv
  <2>2. CASE j \in DOMAIN plan
    <3>1. \A u \in Requests : u # t => ~Moving(u, j) /\ ~Writing(u, j)
      BY <1>1, <1>15, <2>2 DEF Crossed
    <3>2. ~Writing(t, j) /\ ~Moving(t, j)
      BY <1>1 DEF Writing, Moving
    <3>3. Calm(j)'
      BY <1>1, <1>2, <1>4, <1>8, <1>9, <2>2, <3>1, <3>2 DEF Calm
    <3>4. HasBytes(j)' => HasBytes(j)
      BY <1>1, <1>4, <1>8 DEF HasBytes, LiveFile, Live
    <3>5. \A u \in Requests : Moving(u, j)' => u = t
      BY <1>9, <3>1, <3>2
    <3>6. Placed(t, j)' = node[j].path
      BY <1>2, <1>4, <1>8, <2>2 DEF Placed
    <3>7. Moving(t, j)'
      BY <1>9, <2>2
    <3> QED
      BY <1>1, <2>1, <3>1, <3>2, <3>3, <3>4, <3>5, <3>6, <3>7 DEF Held
  <2>3. CASE j \notin DOMAIN plan
    <3>1. Calm(j)'
      BY <1>1, <1>9, <2>1, <2>3, CalmKept
    <3>2. HasBytes(j)' => HasBytes(j)
      BY <1>1, <1>4, <1>8 DEF HasBytes, LiveFile, Live
    <3> QED
      BY <1>1, <1>9, <2>1, <2>3, <3>1, <3>2, HeldKept
  <2> QED
    BY <2>2, <2>3
<1> QED
  BY <1>7, <1>14, <1>15 DEF DriveInv

\* A move goes on, by its plan: what remains to be shown is where the bytes are.
GoesOn(t, x, m) ==
  /\ req[t].pc \in {"bytes", "revert"} /\ x \in {"bytes", "revert"}
  /\ m \subseteq FilesOf(req[t].plan)
  /\ req' = [req EXCEPT ![t] = [req[t] EXCEPT !.pc = x, !.moved = m]]
  /\ UNCHANGED <<node, purging>>
  /\ objects' \in [Paths -> {0} \cup Ids]
  /\ atRisk \subseteq atRisk'

GoneOn(t, m) ==
  /\ DriveTypes' /\ Exclusive'
  /\ \A i \in Ids \ atRisk' : Calm(i)'
  /\ req'[t].moved = m /\ req'[t].plan = req[t].plan
  /\ \A u \in Requests \ {t} : req'[u] = req[u]
  /\ \A i \in Ids, u \in Requests : Moving(u, i)' <=> Moving(u, i)
  /\ \A i \in Ids : HasBytes(i)' => HasBytes(i)

\* That step keeps the types, the keys and who is moving what.
LEMMA MoverGoesOn ==
  ASSUME DriveInv, NEW t \in Requests, NEW x, NEW m, GoesOn(t, x, m)
  PROVE  GoneOn(t, m)
<1> USE DEF GoesOn
<1> DEFINE q == [req[t] EXCEPT !.pc = x, !.moved = m]
<1>1. DriveTypes /\ ReqOK(req[t], node)
  BY DEF DriveInv, DriveTypes
<1>2. q.pc = x /\ q.id = req[t].id /\ q.plan = req[t].plan /\ q.moved = m /\ ReqOK(q, node)
  BY <1>1 DEF ReqOK
<1>3. req' = [req EXCEPT ![t] = q]
  OBVIOUS
<1> HIDE DEF q
<1>4. DriveTypes'
  BY <1>1, <1>2, <1>3, TypesKept DEF DriveTypes, Stale, Moving
<1>5. req'[t] = q /\ \A u \in Requests \ {t} : req'[u] = req[u]
  BY <1>1, <1>3, RequestGoes
<1>6. \A j \in Ids, u \in Requests :
        /\ Moving(u, j)' <=> Moving(u, j)
        /\ Moving(u, j) => req'[u].plan = req[u].plan
        /\ Writing(u, j)' => Writing(u, j) /\ req'[u] = req[u]
  BY <1>2, <1>5 DEF Moving, Writing
<1>7. \A j \in Ids : KeysOf(j)' = KeysOf(j)
  BY DEF KeysOf
<1>8. \A j \in Ids : \A k : Uses(j, k)' => Uses(j, k)
  BY <1>6, <1>7 DEF Uses, MovesKey, WritesKey
<1>9. Exclusive'
  BY <1>8, ExclusiveKept DEF DriveInv
<1>10. ASSUME NEW i \in Ids \ atRisk'
       PROVE  Calm(i)'
  <2>1. Calm(i) /\ i \in Ids
    BY <1>10 DEF DriveInv
  <2> QED
    BY <1>6, <2>1, CalmKept
<1>11. \A i \in Ids : HasBytes(i)' => HasBytes(i)
  BY <1>2, <1>5 DEF HasBytes, LiveFile, Live
<1> QED
  BY <1>2, <1>4, <1>5, <1>6, <1>9, <1>10, <1>11 DEF GoneOn

\* The keys between which a move carries the bytes of file j are keys of j.
LEMMA MovesOwnKeys ==
  ASSUME DriveInv, NEW t \in Requests, NEW j \in Ids, Moving(t, j), ~req[t].plan[j].row.dir
  PROVE  /\ Uses(j, req[t].plan[j].from) /\ Uses(j, req[t].plan[j].row.path)
         /\ req[t].plan[j].from \in Paths /\ req[t].plan[j].row.path \in Paths
         /\ \A i \in Ids \ atRisk : i # j => ~Uses(i, req[t].plan[j].from)
                                             /\ ~Uses(i, req[t].plan[j].row.path)
<1>1. Uses(j, req[t].plan[j].from) /\ Uses(j, req[t].plan[j].row.path)
  BY DEF Uses, MovesKey
<1>2. req[t].plan[j].from \in Paths /\ req[t].plan[j].row.path \in Paths
  BY DEF DriveInv, DriveTypes, ReqOK, Moving, Proper
<1> QED
  BY <1>1, <1>2 DEF DriveInv, Exclusive

\* The bytes of file j are carried from one key of its to the other, or they are
\* lost and j is at risk.
Carrying(t, j, x, m, from, to) ==
  /\ Moving(t, j) /\ ~req[t].plan[j].row.dir
  /\ from \in {req[t].plan[j].from, req[t].plan[j].row.path}
  /\ to \in {req[t].plan[j].from, req[t].plan[j].row.path}
  /\ x \in {"bytes", "revert"} /\ m \subseteq FilesOf(req[t].plan)
  /\ req' = [req EXCEPT ![t] = [req[t] EXCEPT !.pc = x, !.moved = m]]
  /\ UNCHANGED <<node, purging>> /\ atRisk \subseteq atRisk'
  /\ \A i \in Ids \ {j} : i \in m <=> i \in req[t].moved
  /\ \/ /\ objects' = MovedObjects(from, to)
        /\ from = Placed(t, j)
        /\ to = IF j \in m THEN req[t].plan[j].row.path ELSE req[t].plan[j].from
     \/ /\ objects' = [objects EXCEPT ![from] = 0, ![to] = 0]
        /\ j \in atRisk'

\* MoveObject and its undoing disturb no other file.
LEMMA Carries ==
  ASSUME DriveInv, NEW t \in Requests, NEW j \in Ids, NEW x, NEW m, NEW from, NEW to,
         Carrying(t, j, x, m, from, to)
  PROVE  DriveInv'
<1> USE DEF Carrying
<1>1. req[t].pc \in {"bytes", "revert"} /\ objects \in [Paths -> {0} \cup Ids] /\ DriveTypes
  BY DEF Moving, DriveInv, DriveTypes
<1>2. /\ from \in Paths /\ to \in Paths
      /\ \A i \in Ids \ atRisk : i # j => ~Uses(i, from) /\ ~Uses(i, to)
  BY MovesOwnKeys
<1>3. objects' \in [Paths -> {0} \cup Ids] /\ \A k \in Paths \ {from, to} : objects'[k] = objects[k]
  <2>1. CASE objects' = objects
    BY <1>1, <2>1
  <2>2. CASE objects' = [objects EXCEPT ![from] = 0, ![to] = 0]
    BY <1>1, <1>2, <2>2
  <2>3. CASE objects' = [objects EXCEPT ![to] = objects[from], ![from] = 0]
    BY <1>1, <1>2, <2>3
  <2> QED
    BY <2>1, <2>2, <2>3 DEF MovedObjects
<1>4. /\ DriveTypes' /\ Exclusive'
      /\ \A i \in Ids \ atRisk' : Calm(i)'
      /\ req'[t].moved = m /\ req'[t].plan = req[t].plan
      /\ \A u \in Requests \ {t} : req'[u] = req[u]
      /\ \A i \in Ids, u \in Requests : Moving(u, i)' <=> Moving(u, i)
      /\ \A i \in Ids : HasBytes(i)' => HasBytes(i)
  <2>1. GoesOn(t, x, m)
    BY <1>1, <1>3 DEF GoesOn
  <2>2. GoneOn(t, m)
    BY <2>1, MoverGoesOn
  <2> QED
    BY <2>2 DEF GoneOn
<1>5. ASSUME NEW i \in Ids \ atRisk', i # j
      PROVE  Held(i)'
  <2>1. Held(i) /\ i \in Ids \ atRisk
    BY <1>5 DEF DriveInv
  <2>2. \A k \in Paths : Uses(i, k) => objects'[k] = objects[k]
    BY <1>2, <1>3, <1>5, <2>1
  <2>3. \A u \in Requests :
           /\ Moving(u, i)' <=> Moving(u, i)
           /\ Moving(u, i) => req'[u].plan = req[u].plan /\ (i \in req'[u].moved <=> i \in req[u].moved)
    BY <1>4, <1>5
  <2> QED
    BY <1>1, <1>4, <2>1, <2>2, <2>3, HeldKept
<1>6. j \notin atRisk' => Held(j)'
  <2> SUFFICES ASSUME j \notin atRisk', HasBytes(j)
               PROVE  Held(j)'
    BY <1>4 DEF Held
  <2>1. /\ objects' = MovedObjects(from, to) /\ from = Placed(t, j)
        /\ to = IF j \in m THEN req[t].plan[j].row.path ELSE req[t].plan[j].from
    OBVIOUS
  <2>2. objects[from] = j
    BY <2>1 DEF DriveInv, Held
  <2>3. objects'[to] = j
    <3>1. objects[from] # 0
      BY <2>2 DEF Ids
    <3>2. CASE from = to
      BY <2>1, <2>2, <3>2 DEF MovedObjects
    <3>3. CASE from # to
      <4>1. objects' = [objects EXCEPT ![to] = objects[from], ![from] = 0]
        BY <2>1, <3>1, <3>3 DEF MovedObjects
      <4> QED
        BY <1>1, <1>2, <2>2, <3>3, <4>1
    <3> QED
      BY <3>2, <3>3
  <2>4. Placed(t, j)' = to
    BY <1>4, <2>1 DEF Placed
  <2>5. \A u \in Requests : Moving(u, j)' => u = t
    BY <1>4 DEF DriveInv, Calm
  <2>6. Moving(t, j)'
    BY <1>4
  <2> QED
    BY <2>3, <2>4, <2>5, <2>6 DEF Held
<1> QED
  BY <1>4, <1>5, <1>6 DEF DriveInv

\* The bytes stay where they are, and the marks of what has been moved with them,
\* but for files at risk.
LEMMA MoveWaits ==
  ASSUME DriveInv, NEW t \in Requests, NEW x, NEW m, GoesOn(t, x, m), objects' = objects,
         \A i \in Ids \ atRisk' : i \in m <=> i \in req[t].moved
  PROVE  DriveInv'
<1>1. GoneOn(t, m)
  BY MoverGoesOn
<1>2. ASSUME NEW i \in Ids \ atRisk'
      PROVE  Held(i)'
  <2>1. Held(i) /\ i \in Ids /\ DriveTypes
    BY <1>2 DEF DriveInv, GoesOn
  <2>2. \A u \in Requests :
           /\ Moving(u, i)' <=> Moving(u, i)
           /\ Moving(u, i) => req'[u].plan = req[u].plan /\ (i \in req'[u].moved <=> i \in req[u].moved)
    BY <1>1, <1>2 DEF GoneOn
  <2>3. HasBytes(i)' => HasBytes(i) /\ node'[i].path = node[i].path
    BY <1>1, <2>1 DEF GoneOn, GoesOn
  <2> QED
    BY <2>1, <2>2, <2>3, HeldKept
<1> QED
  BY <1>1, <1>2 DEF DriveInv, GoneOn

\* A request under way is a record.
LEMMA Marks ==
  ASSUME DriveInv, NEW t \in Requests, NEW x, NEW m
  PROVE  /\ req[t].pc = x => [req[t] EXCEPT !.moved = m] = [req[t] EXCEPT !.pc = x, !.moved = m]
         /\ req[t].moved = m => [req[t] EXCEPT !.pc = x] = [req[t] EXCEPT !.pc = x, !.moved = m]
<1>1. ReqOK(req[t], node)
  BY DEF DriveInv, DriveTypes
<1> QED
  BY <1>1 DEF ReqOK

\* What a move has relocated are files of its plan.
LEMMA MovedAreFiles ==
  ASSUME DriveInv, NEW t \in Requests, req[t].pc \in {"bytes", "revert"}
  PROVE  req[t].moved \subseteq FilesOf(req[t].plan)
BY DEF DriveInv, DriveTypes, ReqOK

\* A move carries the bytes of a file to the new key.
LEMMA Relocates ==
  ASSUME DriveInv, NEW t \in Requests, NEW j \in Ids, RelocateOne(t, j)
  PROVE  DriveInv'
<1> DEFINE m == req[t].moved \cup {j}
           from == req[t].plan[j].from
           to == req[t].plan[j].row.path
<1>1. /\ req[t].pc = "bytes" /\ Moving(t, j) /\ ~req[t].plan[j].row.dir /\ j \notin req[t].moved
      /\ UNCHANGED <<node, purging>> /\ atRisk \subseteq atRisk'
      /\ objects' = MovedObjects(from, to)
  BY DEF RelocateOne, Pending, Moving
<1>2. req' = [req EXCEPT ![t] = [req[t] EXCEPT !.pc = "bytes", !.moved = m]]
  <2>1. req' = [req EXCEPT ![t] = [req[t] EXCEPT !.moved = m]]
    BY DEF RelocateOne, Put
  <2> HIDE DEF m
  <2>2. [req[t] EXCEPT !.moved = m] = [req[t] EXCEPT !.pc = "bytes", !.moved = m]
    BY <1>1, Marks
  <2> QED
    BY <2>1, <2>2
<1>6. m \subseteq FilesOf(req[t].plan)
  BY <1>1, MovedAreFiles DEF FilesOf, Moving
<1>3. from = Placed(t, j) /\ to = IF j \in m THEN req[t].plan[j].row.path ELSE req[t].plan[j].from
  BY <1>1 DEF Placed
<1>4. \A i \in Ids \ {j} : i \in m <=> i \in req[t].moved
  OBVIOUS
<1>7. Carrying(t, j, "bytes", m, from, to)
  BY <1>1, <1>2, <1>3, <1>4, <1>6 DEF Carrying
<1> HIDE DEF m, from, to
<1> QED
  BY <1>7, Carries

\* The answer of the bucket is lost.
LEMMA LosesAnswer ==
  ASSUME DriveInv, NEW t \in Requests, NEW j \in Ids, RelocateAnswerLost(t, j)
  PROVE  DriveInv'
<1> DEFINE m == req[t].moved
           from == req[t].plan[j].from
           to == req[t].plan[j].row.path
<1>1. /\ req[t].pc = "bytes" /\ Moving(t, j) /\ ~req[t].plan[j].row.dir
      /\ UNCHANGED <<node, purging>> /\ atRisk \subseteq atRisk'
      /\ objects' = [objects EXCEPT ![from] = 0, ![to] = 0] /\ j \in atRisk'
  BY DEF RelocateAnswerLost, Pending, Moving
<1>2. req' = [req EXCEPT ![t] = [req[t] EXCEPT !.pc = "revert", !.moved = m]]
  BY Marks DEF RelocateAnswerLost, Put
<1>6. m \subseteq FilesOf(req[t].plan)
  BY <1>1, MovedAreFiles
<1>3. \A i \in Ids \ {j} : i \in m <=> i \in req[t].moved
  OBVIOUS
<1>7. Carrying(t, j, "revert", m, from, to)
  BY <1>1, <1>2, <1>3, <1>6 DEF Carrying
<1> HIDE DEF m, from, to
<1> QED
  BY <1>7, Carries

\* A failed move carries the bytes of a file back.
LEMMA Reverts ==
  ASSUME DriveInv, NEW t \in Requests, NEW j \in Ids, RevertOne(t, j)
  PROVE  DriveInv'
<1> DEFINE m == req[t].moved \ {j}
           from == req[t].plan[j].row.path
           to == req[t].plan[j].from
<1>1. /\ req[t].pc = "revert" /\ Moving(t, j) /\ j \in req[t].moved /\ ~req[t].plan[j].row.dir
      /\ UNCHANGED <<node, purging>> /\ atRisk \subseteq atRisk'
      /\ objects' = MovedObjects(from, to)
  BY MovedAreFiles DEF RevertOne, Moving, Reverted, FilesOf
<1>2. req' = [req EXCEPT ![t] = [req[t] EXCEPT !.pc = "revert", !.moved = m]]
  <2>1. req' = [req EXCEPT ![t] = [req[t] EXCEPT !.moved = m]]
    BY DEF RevertOne, Put
  <2> HIDE DEF m
  <2>2. [req[t] EXCEPT !.moved = m] = [req[t] EXCEPT !.pc = "revert", !.moved = m]
    BY <1>1, Marks
  <2> QED
    BY <2>1, <2>2
<1>6. m \subseteq FilesOf(req[t].plan)
  BY <1>1, MovedAreFiles
<1>3. from = Placed(t, j) /\ to = IF j \in m THEN req[t].plan[j].row.path ELSE req[t].plan[j].from
  BY <1>1 DEF Placed
<1>4. \A i \in Ids \ {j} : i \in m <=> i \in req[t].moved
  OBVIOUS
<1>7. Carrying(t, j, "revert", m, from, to)
  BY <1>1, <1>2, <1>3, <1>4, <1>6 DEF Carrying
<1> HIDE DEF m, from, to
<1> QED
  BY <1>7, Carries

\* Moving an object back fails, and is only logged.
LEMMA RevertIsLost ==
  ASSUME DriveInv, NEW t \in Requests, NEW j \in Ids, RevertFails(t, j)
  PROVE  DriveInv'
<1> DEFINE m == req[t].moved \ {j}
<1>1. /\ req[t].pc = "revert" /\ UNCHANGED <<node, objects, purging>>
      /\ atRisk \subseteq atRisk' /\ j \in atRisk'
      /\ req' = [req EXCEPT ![t] = [req[t] EXCEPT !.moved = m]]
  BY DEF RevertFails, Put
<1>2. m \subseteq FilesOf(req[t].plan)
  BY <1>1, MovedAreFiles
<1>3. \A i \in Ids \ atRisk' : i \in m <=> i \in req[t].moved
  BY <1>1
<1> HIDE DEF m
<1>4. [req[t] EXCEPT !.moved = m] = [req[t] EXCEPT !.pc = "revert", !.moved = m]
  BY <1>1, Marks
<1>5. GoesOn(t, "revert", m)
  BY <1>1, <1>2, <1>4 DEF GoesOn, DriveInv, DriveTypes
<1> QED
  BY <1>1, <1>3, <1>5, MoveWaits

\* The bucket, or the index, refuses the move: its bytes are to be moved back.
LEMMA MoveIsRefused ==
  ASSUME DriveInv, NEW t \in Requests, RelocateFails(t) \/ MoveCommitFails(t)
  PROVE  DriveInv'
<1>1. /\ req[t].pc = "bytes" /\ UNCHANGED <<node, objects, purging, atRisk>>
      /\ req' = [req EXCEPT ![t] = [req[t] EXCEPT !.pc = "revert"]]
  BY DEF RelocateFails, MoveCommitFails, Put
<1>2. PICK m : m = req[t].moved
  OBVIOUS
<1>3. [req[t] EXCEPT !.pc = "revert"] = [req[t] EXCEPT !.pc = "revert", !.moved = m]
  BY <1>2, Marks
<1>4. m \subseteq FilesOf(req[t].plan)
  BY <1>1, <1>2, MovedAreFiles
<1>5. GoesOn(t, "revert", m)
  BY <1>1, <1>3, <1>4 DEF GoesOn, DriveInv, DriveTypes
<1> QED
  BY <1>1, <1>2, <1>5, MoveWaits

\* A request ends: it neither moves nor writes any more.
LEMMA RequestEnds ==
  ASSUME DriveInv, NEW t \in Requests, req' = [req EXCEPT ![t] = NoReq]
  PROVE  /\ req'[t] = NoReq /\ \A u \in Requests \ {t} : req'[u] = req[u]
         /\ req' = [u \in Requests |-> req'[u]]
         /\ \A i \in Ids, u \in Requests :
              /\ Moving(u, i)' <=> Moving(u, i) /\ u # t
              /\ Writing(u, i)' <=> Writing(u, i) /\ u # t
              /\ u # t => req'[u] = req[u]
<1>1. /\ req' = [u \in Requests |-> req'[u]] /\ req'[t] = NoReq
      /\ \A u \in Requests \ {t} : req'[u] = req[u]
  BY RequestGoes DEF DriveInv
<1>2. NoReq.pc = "idle"
  BY NoReqOK
<1> QED
  BY <1>1, <1>2 DEF Moving, Writing

\* Everything has been moved back.
LEMMA RevertEnds ==
  ASSUME DriveInv, NEW t \in Requests, RevertDone(t)
  PROVE  DriveInv'
<1>1. /\ req[t].pc = "revert" /\ req[t].moved = {} /\ UNCHANGED <<node, objects, purging, atRisk>>
      /\ req' = [req EXCEPT ![t] = NoReq] /\ DriveTypes
  BY DEF RevertDone, End, Put, DriveInv
<1>2. /\ req'[t] = NoReq /\ \A u \in Requests \ {t} : req'[u] = req[u]
      /\ \A i \in Ids, u \in Requests :
           /\ Moving(u, i)' <=> Moving(u, i) /\ u # t
           /\ Writing(u, i)' <=> Writing(u, i) /\ u # t
           /\ u # t => req'[u] = req[u]
  BY <1>1, RequestEnds
<1>3. DriveTypes'
  BY <1>1, TypesKept, NoReqOK DEF DriveTypes
<1>4. \A i \in Ids : KeysOf(i)' = KeysOf(i)
  BY <1>1 DEF KeysOf
<1>5. \A i \in Ids : \A k : Uses(i, k)' => Uses(i, k)
  BY <1>2, <1>4 DEF Uses, MovesKey, WritesKey
<1>6. Exclusive'
  BY <1>1, <1>5, ExclusiveKept DEF DriveInv
<1>7. ASSUME NEW i \in Ids \ atRisk'
      PROVE  Calm(i)' /\ Held(i)'
  <2>1. Calm(i) /\ Held(i) /\ i \in Ids
    BY <1>1, <1>7 DEF DriveInv
  <2>2. Calm(i)'
    BY <1>1, <1>2, <2>1, CalmKept
  <2>3. HasBytes(i)' => HasBytes(i)
    BY <1>1, <1>2, NoReqOK DEF HasBytes, LiveFile, Live
  <2>4. CASE Moving(t, i)
    <3>1. \A u \in Requests : ~Moving(u, i)'
      BY <1>2, <2>1, <2>4 DEF Calm
    <3>2. Placed(t, i) = node[i].path
      BY <1>1, <2>1, <2>4 DEF Placed, Calm
    <3>3. HasBytes(i) => objects[node[i].path] = i
      BY <2>1, <2>4, <3>2 DEF Held
    <3> QED
      BY <1>1, <2>2, <2>3, <3>1, <3>3 DEF Held
  <2>5. CASE ~Moving(t, i)
    BY <1>1, <1>2, <2>1, <2>2, <2>3, <2>5, HeldKept
  <2> QED
    BY <2>4, <2>5
<1> QED
  BY <1>3, <1>6, <1>7 DEF DriveInv

\* The bytes are moved and the index follows them.
LEMMA MoveLands ==
  ASSUME DriveInv, NEW t \in Requests, MoveCommit(t)
  PROVE  DriveInv'
<1>1. PICK plan : plan = req[t].plan
  OBVIOUS
<1>2. /\ req[t].pc = "bytes" /\ UNCHANGED <<objects, purging, atRisk>> /\ DriveTypes
      /\ req' = [req EXCEPT ![t] = NoReq]
      /\ \A j \in DOMAIN plan : ~plan[j].row.dir => j \in req[t].moved
  BY <1>1 DEF MoveCommit, End, Put, DriveInv, Pending
<1>3. /\ DOMAIN plan \subseteq Ids
      /\ \A j \in DOMAIN plan :
           /\ node[j].state \in Present /\ plan[j].row.dir = node[j].dir
           /\ plan[j].from \in Paths /\ Proper(plan[j].row) /\ Moving(t, j)
  BY <1>1, <1>2 DEF DriveTypes, ReqOK, Moving
<1>4. node' = [j \in Ids |->
        IF j \in DOMAIN plan
        THEN [node[j] EXCEPT !.name = plan[j].row.name, !.parent = plan[j].row.parent,
                             !.path = plan[j].row.path]
        ELSE node[j]]
  BY <1>1, <1>3 DEF MoveCommit, Present
<1>5. ASSUME NEW j \in DOMAIN plan
      PROVE  /\ node'[j].path = plan[j].row.path /\ node'[j].dir = node[j].dir
             /\ node'[j].state = node[j].state /\ node'[j].versions = node[j].versions
             /\ Proper(node'[j])
  <2>1. node[j] \in NodeRows /\ plan[j].row \in NodeRows /\ Proper(plan[j].row)
    BY <1>2, <1>3 DEF DriveTypes, Proper
  <2>2. node'[j] = [node[j] EXCEPT !.name = plan[j].row.name, !.parent = plan[j].row.parent,
                                   !.path = plan[j].row.path]
    BY <1>3, <1>4
  <2>3. /\ node'[j] \in NodeRows
        /\ node'[j].path = plan[j].row.path /\ node'[j].dir = node[j].dir
        /\ node'[j].name = plan[j].row.name /\ node'[j].parent = plan[j].row.parent
        /\ node'[j].state = node[j].state /\ node'[j].versions = node[j].versions
    BY <2>1, <2>2 DEF NodeRows
  <2> QED
    BY <1>3, <2>1, <2>3 DEF Proper
<1>6. \A j \in Ids \ DOMAIN plan : node'[j] = node[j]
  BY <1>4
<1>7. \A j \in Ids : /\ node'[j].state = node[j].state /\ node'[j].dir = node[j].dir
                     /\ node'[j].versions = node[j].versions
  BY <1>5, <1>6
<1>8. /\ req'[t] = NoReq /\ \A u \in Requests \ {t} : req'[u] = req[u]
      /\ req' = [u \in Requests |-> req'[u]]
      /\ \A i \in Ids, u \in Requests :
           /\ Moving(u, i)' <=> Moving(u, i) /\ u # t
           /\ Writing(u, i)' <=> Writing(u, i) /\ u # t
           /\ u # t => req'[u] = req[u]
  BY <1>2, RequestEnds
<1>9. DriveTypes'
  <2>1. \A u \in Requests : ReqOK(req'[u], node')
    <3>1. \A u \in Requests : ReqOK(req'[u], node)
      BY <1>2, <1>8, NoReqOK DEF DriveTypes
    <3> QED
      BY <1>7, <3>1, ReqStays
  <2>2. purging # 0 => Stale(purging)'
    BY <1>2, <1>7, <1>8, NoReqOK DEF DriveTypes, Stale
  <2>3. \A j \in Ids : node'[j] \in NodeRows /\ (node'[j].state \in Present => Proper(node'[j]))
    BY <1>2, <1>5, <1>6 DEF DriveTypes, Proper
  <2>4. node' \in [Ids -> NodeRows]
    BY <1>4, <2>3
  <2> QED
    BY <1>2, <1>8, <2>1, <2>2, <2>3, <2>4 DEF DriveTypes
<1>10. \A j \in Ids : \A k \in KeysOf(j)' : Uses(j, k)
  <2>1. ASSUME NEW j \in Ids \ DOMAIN plan, NEW k \in KeysOf(j)'
        PROVE  Uses(j, k)
    BY <1>6 DEF Uses, KeysOf
  <2>2. ASSUME NEW j \in DOMAIN plan, NEW k \in KeysOf(j)'
        PROVE  Uses(j, k)
    <3>1. ~node[j].dir /\ (k \in node[j].versions \/ k = plan[j].row.path)
      BY <1>5, <2>2 DEF KeysOf
    <3>2. CASE k = plan[j].row.path
      BY <1>1, <1>3, <3>1, <3>2 DEF Uses, MovesKey
    <3>3. CASE k \in node[j].versions
      BY <1>3, <3>1, <3>3 DEF Uses, KeysOf, Present
    <3> QED
      BY <3>1, <3>2, <3>3
  <2> QED
    BY <2>1, <2>2
<1>11. \A i \in Ids : \A k : Uses(i, k)' => Uses(i, k)
  BY <1>8, <1>10 DEF Uses, MovesKey, WritesKey
<1>12. Exclusive'
  BY <1>2, <1>11, ExclusiveKept DEF DriveInv
<1>13. ASSUME NEW i \in Ids \ atRisk'
       PROVE  Calm(i)' /\ Held(i)'
  <2>1. Calm(i) /\ Held(i) /\ i \in Ids
    BY <1>2, <1>13 DEF DriveInv
  <2>2. HasBytes(i)' => HasBytes(i)
    BY <1>7, <1>8, NoReqOK DEF HasBytes, LiveFile, Live
  <2>3. CASE i \in DOMAIN plan
    <3>1. Moving(t, i)
      BY <1>3, <2>3
    <3>2. \A u \in Requests : ~Moving(u, i)' /\ ~Writing(u, i)'
      BY <1>8, <2>1, <3>1 DEF Calm
    <3>3. Calm(i)'
      BY <3>2 DEF Calm
    <3>4. HasBytes(i) => Placed(t, i) = node'[i].path
      BY <1>1, <1>2, <1>3, <1>5, <2>3 DEF Placed, HasBytes, LiveFile
    <3>5. HasBytes(i) => objects[node'[i].path] = i
      BY <2>1, <3>1, <3>4 DEF Held
    <3> QED
      BY <1>2, <2>2, <3>2, <3>3, <3>5 DEF Held
  <2>4. CASE i \notin DOMAIN plan
    <3>1. ~Moving(t, i) /\ node'[i] = node[i]
      BY <1>1, <1>6, <2>4 DEF Moving
    <3>2. Calm(i)'
      BY <1>8, <2>1, <3>1, CalmKept
    <3> QED
      BY <1>2, <1>8, <2>1, <2>2, <3>1, <3>2, HeldKept
  <2> QED
    BY <2>3, <2>4
<1> QED
  BY <1>9, <1>12, <1>13 DEF DriveInv

\* The bucket refuses an upload.
LEMMA PutIsRefused ==
  ASSUME DriveInv, NEW t \in Requests, StorePutFails(t)
  PROVE  DriveInv'
<1>1. /\ req[t].pc = "putting" /\ UNCHANGED <<node, objects, purging, atRisk>>
      /\ req' = [req EXCEPT ![t] = NoReq]
  BY DEF StorePutFails, End, Put
<1> QED
  BY <1>1, NoReqOK, Quietly

-----------------------------------------------------------------------------
(* Delete, the purge and the crash                                         *)

\* A row is deleted: it keeps its keys until the purge.
LEMMA Deletes ==
  ASSUME DriveInv, NEW i \in Ids, DeleteNode(i)
  PROVE  DriveInv'
<1>1. /\ node[i].state = "live" /\ node' = [node EXCEPT ![i].state = "dead"]
      /\ UNCHANGED <<objects, req, purging, atRisk>> /\ DriveTypes
  BY DEF DeleteNode, Live, DriveInv
<1>2. node[i] \in NodeRows /\ Proper(node[i])
  BY <1>1 DEF DriveTypes, Present
<1>3. /\ node'[i] = [node[i] EXCEPT !.state = "dead"] /\ node' \in [Ids -> NodeRows]
      /\ \A j \in Ids \ {i} : node'[j] = node[j]
  BY <1>1, <1>2 DEF DriveTypes, NodeRows, Present
<1>4. /\ node'[i].state = "dead" /\ node'[i].dir = node[i].dir /\ node'[i].path = node[i].path
      /\ node'[i].versions = node[i].versions /\ Proper(node'[i])
  BY <1>2, <1>3 DEF NodeRows, Proper, Present
<1>5. \A j \in Ids : node[j].state \in Present =>
                       node'[j].state \in Present /\ node'[j].dir = node[j].dir
  BY <1>3, <1>4 DEF Present
<1>6. DriveTypes'
  <2>1. \A u \in Requests : ReqOK(req[u], node')
    <3>1. \A u \in Requests : ReqOK(req[u], node)
      BY <1>1 DEF DriveTypes
    <3> QED
      BY <1>5, <3>1, ReqStays
  <2>2. purging # 0 => Stale(purging)'
    BY <1>1, <1>3 DEF DriveTypes, Stale, Moving
  <2>3. \A j \in Ids : node'[j].state \in Present => Proper(node'[j])
    BY <1>1, <1>3, <1>4 DEF DriveTypes
  <2> QED
    BY <1>1, <1>3, <2>1, <2>2, <2>3 DEF DriveTypes
<1>7. \A j \in Ids, t \in Requests :
         /\ Moving(t, j)' <=> Moving(t, j)
         /\ Writing(t, j)' <=> Writing(t, j)
  BY <1>1 DEF Moving, Writing
<1>8. \A j \in Ids : KeysOf(j)' = KeysOf(j) /\ node'[j].path = node[j].path
  BY <1>1, <1>3, <1>4 DEF KeysOf
<1>9. \A j \in Ids : \A k : Uses(j, k)' => Uses(j, k)
  BY <1>1, <1>7, <1>8 DEF Uses, MovesKey, WritesKey
<1>10. Exclusive'
  BY <1>1, <1>9, ExclusiveKept DEF DriveInv
<1>11. ASSUME NEW j \in Ids \ atRisk'
       PROVE  Calm(j)' /\ Held(j)'
  <2>1. Calm(j) /\ Held(j) /\ j \in Ids
    BY <1>1, <1>11 DEF DriveInv
  <2>2. Calm(j)'
    BY <1>1, <1>7, <1>8, <2>1, CalmKept
  <2>3. HasBytes(j)' => HasBytes(j)
    BY <1>1, <1>3, <1>4 DEF HasBytes, LiveFile, Live
  <2> QED
    BY <1>1, <1>7, <1>8, <2>1, <2>2, <2>3, HeldKept
<1> QED
  BY <1>6, <1>10, <1>11 DEF DriveInv

\* The purge removes objects under keys of a tombstone: no other file's.
Purging(i, S) ==
  /\ Stale(i) /\ S \subseteq KeysOf(i)
  /\ objects' = [k \in Paths |-> IF k \in S THEN 0 ELSE objects[k]]
  /\ purging' \in {purging, i}
  /\ UNCHANGED <<node, req, atRisk>>

\* purgeBytes, whole or in part.
LEMMA Purges ==
  ASSUME DriveInv, NEW i \in Ids, NEW S, Purging(i, S)
  PROVE  DriveInv'
<1>1. /\ Stale(i) /\ S \subseteq KeysOf(i) /\ purging' \in {purging, i}
      /\ UNCHANGED <<node, req, atRisk>> /\ DriveTypes
      /\ objects' = [k \in Paths |-> IF k \in S THEN 0 ELSE objects[k]]
  BY DEF Purging, DriveInv
<1>2. objects' \in [Paths -> {0} \cup Ids] /\ \A k \in Paths \ S : objects'[k] = objects[k]
  BY <1>1 DEF DriveTypes
<1>3. \A j \in Ids : /\ KeysOf(j)' = KeysOf(j) /\ (Stale(j)' <=> Stale(j))
                     /\ (HasBytes(j)' <=> HasBytes(j))
  BY <1>1 DEF KeysOf, Stale, HasBytes, LiveFile, Live, Moving
<1>4. \A j \in Ids, t \in Requests :
         /\ Moving(t, j)' <=> Moving(t, j)
         /\ Writing(t, j)' <=> Writing(t, j)
  BY <1>1 DEF Moving, Writing
<1>5. DriveTypes'
  <2>1. purging' \in {0} \cup Ids /\ (purging' # 0 => Stale(purging'))
    BY <1>1 DEF DriveTypes
  <2>2. purging' # 0 => Stale(purging)'
    BY <1>1, <2>1 DEF Stale, Moving
  <2> QED
    BY <1>1, <1>2, <2>1, <2>2 DEF DriveTypes
<1>6. \A j \in Ids : \A k : Uses(j, k)' => Uses(j, k)
  BY <1>1, <1>3, <1>4 DEF Uses, MovesKey, WritesKey
<1>7. Exclusive'
  BY <1>1, <1>6, ExclusiveKept DEF DriveInv
<1>8. ASSUME NEW j \in Ids \ atRisk'
      PROVE  Calm(j)' /\ Held(j)'
  <2>1. Calm(j) /\ Held(j) /\ j \in Ids
    BY <1>1, <1>8 DEF DriveInv
  <2>2. Calm(j)'
    BY <1>1, <1>4, <2>1, CalmKept
  <2>3. CASE j = i
    BY <1>1, <1>3, <2>2, <2>3 DEF Held, HasBytes, LiveFile, Live, Stale
  <2>4. CASE j # i
    <3>1. \A k \in S : Uses(i, k) /\ ~Uses(j, k)
      BY <1>1, <1>8, <2>4 DEF Uses, Exclusive, DriveInv
    <3>2. \A k \in Paths : Uses(j, k) => objects'[k] = objects[k]
      BY <1>2, <3>1
    <3> QED
      BY <1>1, <1>3, <1>4, <2>1, <2>2, <3>2, HeldKept
  <2> QED
    BY <2>3, <2>4
<1> QED
  BY <1>5, <1>7, <1>8 DEF DriveInv

\* PurgeTombstones removes bytes, and may fail in the middle.
LEMMA PurgesBytes ==
  ASSUME DriveInv, NEW i \in Ids, PurgeBytes(i) \/ \E k \in Paths : PurgeBytesFails(i, k)
  PROVE  DriveInv'
<1>1. CASE PurgeBytes(i)
  <2>1. Purging(i, KeysOf(i))
    BY <1>1 DEF PurgeBytes, Purging, PurgedKeys
  <2> QED
    BY <2>1, Purges
<1>2. ASSUME NEW k \in Paths, PurgeBytesFails(i, k)
      PROVE  DriveInv'
  <2>1. Purging(i, KeysOf(i) \ {k})
    BY <1>2 DEF PurgeBytesFails, Purging, PurgedKeys
  <2> QED
    BY <2>1, Purges
<1> QED
  BY <1>1, <1>2

\* The row of a purged tombstone goes: no request knows it.
LEMMA HardDeletes ==
  ASSUME DriveInv, HardDelete
  PROVE  DriveInv'
<1>1. PICK i : i = purging
  OBVIOUS
<1>2. /\ i \in Ids /\ Stale(i) /\ UNCHANGED <<objects, req, atRisk>> /\ DriveTypes /\ purging' = 0
      /\ node' = [node EXCEPT ![i] = [NoNode EXCEPT !.state = "gone"]]
  BY <1>1 DEF HardDelete, DriveInv, DriveTypes
<1>3. /\ node'[i] \in NodeRows /\ node'[i].state = "gone" /\ node' \in [Ids -> NodeRows]
      /\ \A j \in Ids \ {i} : node'[j] = node[j]
  BY <1>2 DEF DriveTypes, NodeRows, NoNode, Present, Root
<1>4. \A u \in Requests : ~Moving(u, i) /\ ~Writing(u, i) /\ req[u].id # i
  BY <1>2 DEF Stale, Writing
<1>5. DriveTypes'
  <2>1. ASSUME NEW u \in Requests
        PROVE  ReqOK(req[u], node')
    <3>1. ReqOK(req[u], node)
      BY <1>2 DEF DriveTypes
    <3>2. req[u].pc \in {"bytes", "revert"} => i \notin DOMAIN req[u].plan
      BY <1>4 DEF Moving
    <3> QED
      BY <1>3, <1>4, <3>1, <3>2 DEF ReqOK
  <2>2. \A j \in Ids : node'[j].state \in Present => Proper(node'[j])
    BY <1>2, <1>3 DEF DriveTypes, Present
  <2> QED
    BY <1>2, <1>3, <2>1, <2>2 DEF DriveTypes
<1>6. \A j \in Ids, t \in Requests :
         /\ Moving(t, j)' <=> Moving(t, j)
         /\ Writing(t, j)' <=> Writing(t, j)
  BY <1>2 DEF Moving, Writing
<1>7. \A j \in Ids : KeysOf(j)' \subseteq KeysOf(j)
  BY <1>3 DEF KeysOf
<1>8. \A j \in Ids : \A k : Uses(j, k)' => Uses(j, k)
  BY <1>2, <1>6, <1>7 DEF Uses, MovesKey, WritesKey
<1>9. Exclusive'
  BY <1>2, <1>8, ExclusiveKept DEF DriveInv
<1>10. ASSUME NEW j \in Ids \ atRisk'
       PROVE  Calm(j)' /\ Held(j)'
  <2>1. Calm(j) /\ Held(j) /\ j \in Ids
    BY <1>2, <1>10 DEF DriveInv
  <2>2. Calm(j)'
    BY <1>2, <1>3, <1>4, <1>6, <2>1, CalmKept
  <2>3. HasBytes(j)' => HasBytes(j) /\ node'[j].path = node[j].path
    BY <1>2, <1>3 DEF HasBytes, LiveFile, Live
  <2> QED
    BY <1>2, <1>6, <2>1, <2>2, <2>3, HeldKept
<1> QED
  BY <1>5, <1>9, <1>10 DEF DriveInv

\* A crash: the files whose move it breaks off are at risk, no other.
LEMMA Crashes ==
  ASSUME DriveInv, DriveCrash
  PROVE  DriveInv'
<1>1. /\ req' = [t \in Requests |-> NoReq] /\ purging' = 0 /\ UNCHANGED <<node, objects>>
      /\ atRisk \subseteq atRisk' /\ DriveTypes
      /\ \A i \in Ids \ atRisk' : \A t \in Requests : ~Moving(t, i)
  BY DEF DriveCrash, DriveInv
<1>2. \A t \in Requests : req'[t] = NoReq
  BY <1>1
<1>3. \A j \in Ids, t \in Requests : ~Moving(t, j)' /\ ~Writing(t, j)'
  BY <1>2, NoReqOK DEF Moving, Writing
<1>4. DriveTypes'
  BY <1>1, <1>2, NoReqOK DEF DriveTypes
<1>5. \A j \in Ids : KeysOf(j)' = KeysOf(j)
  BY <1>1 DEF KeysOf
<1>6. \A j \in Ids : \A k : Uses(j, k)' => Uses(j, k)
  BY <1>3, <1>5 DEF Uses, MovesKey, WritesKey
<1>7. Exclusive'
  BY <1>1, <1>6, ExclusiveKept DEF DriveInv
<1>8. ASSUME NEW j \in Ids \ atRisk'
      PROVE  Calm(j)' /\ Held(j)'
  <2>1. Held(j) /\ j \in Ids
    BY <1>1, <1>8 DEF DriveInv
  <2>2. Calm(j)'
    BY <1>3 DEF Calm
  <2>3. HasBytes(j)' => HasBytes(j)
    BY <1>1, <1>2, NoReqOK DEF HasBytes, LiveFile, Live
  <2> QED
    BY <1>1, <1>3, <1>8, <2>1, <2>2, <2>3 DEF Held
<1> QED
  BY <1>4, <1>7, <1>8 DEF DriveInv

\* Nothing happens.
LEMMA DriveRests ==
  ASSUME DriveInv, UNCHANGED driveVars
  PROVE  DriveInv'
<1>1. UNCHANGED <<node, objects, req, purging, atRisk>> /\ DriveTypes
  BY DEF driveVars, DriveInv
<1>2. \A j \in Ids, t \in Requests :
         /\ Moving(t, j)' <=> Moving(t, j)
         /\ Writing(t, j)' <=> Writing(t, j)
  BY <1>1 DEF Moving, Writing
<1>7. \A j \in Ids : KeysOf(j)' = KeysOf(j)
  BY <1>1 DEF KeysOf
<1>3. DriveTypes'
  BY <1>1 DEF DriveTypes, Stale, Moving
<1>4. \A j \in Ids : \A k : Uses(j, k)' => Uses(j, k)
  BY <1>1, <1>2, <1>7 DEF Uses, MovesKey, WritesKey
<1>5. Exclusive'
  BY <1>1, <1>4, ExclusiveKept DEF DriveInv
<1>6. ASSUME NEW j \in Ids \ atRisk'
      PROVE  Calm(j)' /\ Held(j)'
  <2>1. Calm(j) /\ Held(j) /\ j \in Ids
    BY <1>1, <1>6 DEF DriveInv
  <2>2. Calm(j)'
    BY <1>1, <1>2, <2>1, CalmKept
  <2>3. HasBytes(j)' => HasBytes(j)
    BY <1>1 DEF HasBytes, LiveFile, Live
  <2> QED
    BY <1>1, <1>2, <2>1, <2>2, <2>3, HeldKept
<1> QED
  BY <1>3, <1>5, <1>6 DEF DriveInv

-----------------------------------------------------------------------------
(* The theorem                                                             *)

\* The drive to start from: nothing, or a folder of files of different names.
LEMMA LoadedRows ==
  ASSUME NEW f \in Names, NEW names \in Seq(Names), NEW i \in Ids
  PROVE  /\ i = 1 => /\ Loaded(f, names)[i].dir /\ Loaded(f, names)[i].state = "live"
                     /\ Proper(Loaded(f, names)[i]) /\ Loaded(f, names)[i].versions = {}
         /\ i > 1 /\ i <= Len(names) + 1 =>
              /\ ~Loaded(f, names)[i].dir /\ Loaded(f, names)[i].state = "live"
              /\ Proper(Loaded(f, names)[i])
              /\ i - 1 \in DOMAIN names /\ names[i - 1] \in Names
              /\ Loaded(f, names)[i].path = <<f, names[i - 1]>>
              /\ Loaded(f, names)[i].versions = {<<f, names[i - 1]>>}
         /\ i > Len(names) + 1 => Loaded(f, names)[i] = NoNode
<1> USE DEF Ids
<1>1. Len(names) \in Nat /\ i \in Nat /\ DOMAIN names = 1..Len(names)
  BY DriveConstants
<1>2. CASE i = 1
  <2>1. Loaded(f, names)[i] = [NoNode EXCEPT !.state = "live", !.dir = TRUE, !.name = f, !.path = <<f>>]
    BY <1>2 DEF Loaded
  <2>2. <<f>> \in Paths /\ <<f>> \in FolderPaths
    BY DEF Paths, FolderPaths
  <2>3. PICK r : r = Loaded(f, names)[i]
    OBVIOUS
  <2>4. /\ r.state = "live" /\ r.dir = TRUE /\ r.name = f /\ r.path = <<f>> /\ r.parent = Root
        /\ r.versions = {} /\ r \in NodeRows
    BY <2>1, <2>2, <2>3 DEF NoNode, NodeRows, Present
  <2>5. Proper(r)
    BY <2>2, <2>4 DEF Proper
  <2>6. ~(i > 1) /\ ~(i > Len(names) + 1)
    BY <1>1, <1>2
  <2> QED
    BY <2>3, <2>4, <2>5, <2>6
<1>3. CASE i > 1 /\ i <= Len(names) + 1
  <2>1. Loaded(f, names)[i] = RowOfFile(f, names[i - 1])
    BY <1>1, <1>3 DEF Loaded
  <2>2. i - 1 \in DOMAIN names /\ names[i - 1] \in Names
    BY <1>1, <1>3
  <2>3. PICK n \in Names : n = names[i - 1]
    BY <2>2
  <2>4. <<f, n>> \in Paths
    BY DEF Paths
  <2>5. 1 \in Ids
    BY <1>1, <1>3, DriveConstants
  <2>6. RowOfFile(f, n) \in NodeRows /\ Proper(RowOfFile(f, n)) /\ ~RowOfFile(f, n).dir
    BY <2>4, <2>5 DEF RowOfFile, NoNode, Proper, NodeRows, Present
  <2>7. /\ RowOfFile(f, n).state = "live" /\ RowOfFile(f, n).path = <<f, n>>
        /\ RowOfFile(f, n).versions = {<<f, n>>}
    BY DEF RowOfFile, NoNode
  <2> QED
    BY <1>1, <1>3, <2>1, <2>2, <2>3, <2>6, <2>7
<1>4. CASE i > Len(names) + 1
  <2>1. Loaded(f, names)[i] = NoNode
    BY <1>1, <1>4 DEF Loaded
  <2> QED
    BY <1>1, <1>4, <2>1
<1> QED
  BY <1>1, <1>2, <1>3, <1>4

\* So every file to start from has a key of its own.
LEMMA StartsApart ==
  ASSUME DriveInit
  PROVE  /\ node \in [Ids -> NodeRows]
         /\ \A i \in Ids : /\ node[i].state \in {"live", "none"}
                           /\ node[i].state = "live" => Proper(node[i])
                           /\ ~node[i].dir /\ node[i].state = "live" => node[i].versions = {node[i].path}
                           /\ node[i].dir \/ node[i].state = "none" => node[i].versions = {}
         /\ \A i, j \in Ids : i # j => node[i].versions \cap node[j].versions = {}
<1>1. CASE node = [i \in Ids |-> NoNode]
  <2>1. \A i \in Ids : node[i] = NoNode
    BY <1>1
  <2>2. NoNode \in NodeRows /\ NoNode.versions = {} /\ NoNode.state = "none"
    BY NoReqOK DEF NoNode
  <2> QED
    BY <1>1, <2>1, <2>2
<1>2. CASE \E c \in StartFolders : node = Loaded(c.folder, c.files)
  <2>1. PICK c \in StartFolders : node = Loaded(c.folder, c.files)
    BY <1>2
  <2>2. PICK f \in Names, names \in Seq(Names) :
           node = Loaded(f, names) /\ \A a, b \in DOMAIN names : names[a] = names[b] => a = b
    BY <2>1, DriveConstants
  <2>3. ASSUME NEW i \in Ids
        PROVE  /\ node[i] \in NodeRows /\ node[i].state \in {"live", "none"}
               /\ node[i].state = "live" => Proper(node[i])
               /\ ~node[i].dir /\ node[i].state = "live" => node[i].versions = {node[i].path}
               /\ node[i].dir \/ node[i].state = "none" => node[i].versions = {}
               /\ node[i].versions = {} \/ (/\ i - 1 \in DOMAIN names
                                            /\ node[i].versions = {<<f, names[i - 1]>>})
    <3>1. i \in Nat /\ Len(names) \in Nat /\ i > 0
      BY DriveConstants DEF Ids
    <3>2. NoNode \in NodeRows /\ NoNode.versions = {} /\ NoNode.state = "none"
      BY NoReqOK DEF NoNode
    <3>3. CASE i = 1
      BY <2>2, <3>3, LoadedRows DEF Proper
    <3>4. CASE i > 1 /\ i <= Len(names) + 1
      <4>1. /\ ~node[i].dir /\ node[i].state = "live" /\ Proper(node[i]) /\ i - 1 \in DOMAIN names
            /\ node[i].path = <<f, names[i - 1]>> /\ node[i].versions = {<<f, names[i - 1]>>}
        BY <2>2, <3>4, LoadedRows
      <4> QED
        BY <4>1 DEF Proper
    <3>5. CASE i > Len(names) + 1
      BY <2>2, <3>1, <3>2, <3>5, LoadedRows
    <3> QED
      BY <3>1, <3>3, <3>4, <3>5
  <2>4. ASSUME NEW i \in Ids, NEW j \in Ids, i # j, NEW k \in node[i].versions, k \in node[j].versions
        PROVE  FALSE
    <3>1. /\ i - 1 \in DOMAIN names /\ j - 1 \in DOMAIN names
          /\ <<f, names[i - 1]>> = <<f, names[j - 1]>>
      BY <2>3, <2>4
    <3>2. names[i - 1] = names[j - 1]
      BY <3>1
    <3>3. i - 1 = j - 1
      BY <2>2, <3>1, <3>2
    <3> QED
      BY <2>4, <3>3, DriveConstants DEF Ids
  <2>5. node = [i \in Ids |-> node[i]]
    BY <2>2 DEF Loaded
  <2> QED
    BY <2>3, <2>4, <2>5
<1> QED
  BY <1>1, <1>2 DEF DriveInit

\* The invariant holds to start with.
LEMMA DriveStarts ==
  ASSUME DriveInit
  PROVE  DriveInv
<1>1. /\ node \in [Ids -> NodeRows]
      /\ \A i \in Ids : /\ node[i].state \in {"live", "none"}
                        /\ node[i].state = "live" => Proper(node[i])
                        /\ ~node[i].dir /\ node[i].state = "live" => node[i].versions = {node[i].path}
                        /\ node[i].dir \/ node[i].state = "none" => node[i].versions = {}
      /\ \A i, j \in Ids : i # j => node[i].versions \cap node[j].versions = {}
  BY StartsApart
<1>2. /\ req = [t \in Requests |-> NoReq] /\ purging = 0 /\ atRisk = {}
      /\ \A t \in Requests : req[t] = NoReq
  BY DEF DriveInit
<1>3. objects = [k \in Paths |->
         IF \E i \in Ids : k \in node[i].versions
         THEN CHOOSE i \in Ids : k \in node[i].versions ELSE 0]
  BY DEF DriveInit
<1>4. \A k \in Paths, i \in Ids : k \in node[i].versions => objects[k] = i
  <2>1. ASSUME NEW k \in Paths, NEW i \in Ids, k \in node[i].versions
        PROVE  objects[k] = i
    <3>1. objects[k] = CHOOSE j \in Ids : k \in node[j].versions
      BY <1>3, <2>1
    <3>2. objects[k] \in Ids /\ k \in node[objects[k]].versions
      BY <2>1, <3>1
    <3> QED
      BY <1>1, <2>1, <3>2
  <2> QED
    BY <2>1
<1>5. objects \in [Paths -> {0} \cup Ids]
  BY <1>3
<1>6. \A i \in Ids, t \in Requests : ~Moving(t, i) /\ ~Writing(t, i)
  BY <1>2, NoReqOK DEF Moving, Writing
<1>7. DriveTypes
  BY <1>1, <1>2, <1>5, NoReqOK DEF DriveTypes, Present
<1>8. \A i \in Ids : KeysOf(i) = node[i].versions
  BY <1>1 DEF KeysOf
<1>9. Exclusive
  BY <1>1, <1>6, <1>8 DEF Exclusive, Uses, MovesKey, WritesKey
<1>10. ASSUME NEW i \in Ids
       PROVE  Calm(i) /\ Held(i)
  <2>1. Calm(i)
    BY <1>6 DEF Calm
  <2>2. HasBytes(i) => node[i].path \in node[i].versions /\ node[i].path \in Paths
    BY <1>1 DEF HasBytes, LiveFile, Live, Proper
  <2> QED
    BY <1>4, <1>6, <2>1, <2>2 DEF Held
<1> QED
  BY <1>7, <1>9, <1>10 DEF DriveInv

\* One step of the Drive.
LEMMA DriveStep ==
  ASSUME DriveInv, DriveNext
  PROVE  DriveInv'
<1>1. ASSUME NEW n \in Names, CreateFolder(n) PROVE DriveInv'
  BY <1>1, CreatesFolder
<1>2. ASSUME NEW i \in Ids, DeleteNode(i) PROVE DriveInv'
  BY <1>2, Deletes
<1>3. ASSUME NEW i \in Ids, PurgeBytes(i) PROVE DriveInv'
  BY <1>3, PurgesBytes
<1>4. ASSUME NEW i \in Ids, NEW k \in Paths, PurgeBytesFails(i, k) PROVE DriveInv'
  BY <1>4, PurgesBytes
<1>5. CASE HardDelete
  BY <1>5, HardDeletes
<1>6. CASE DriveCrash
  BY <1>6, Crashes
<1>7. ASSUME NEW t \in Requests, NEW p \in {Root} \cup Ids, NEW n \in Names, StoreLocate(t, p, n)
      PROVE  DriveInv'
  BY <1>7, Locates
<1>8. ASSUME NEW t \in Requests, NEW p \in {Root} \cup Ids, NEW n \in Names, NEW i \in Ids,
             MovePlan(t, i, p, n)
      PROVE  DriveInv'
  BY <1>8, Plans
<1>9. ASSUME NEW t \in Requests, StoreInsert(t) \/ StorePutRead(t) \/ StorePut(t) \/ StorePutFails(t)
      PROVE  DriveInv'
  BY <1>9, Inserts, PutReads, Puts, PutIsRefused
<1>10. ASSUME NEW t \in Requests, CommitRead(t) \/ CommitTouch(t)
       PROVE  DriveInv'
  BY <1>10, Commits, Touches
<1>11. ASSUME NEW t \in Requests, NEW j \in Ids,
              \/ RelocateOne(t, j) \/ RelocateAnswerLost(t, j)
              \/ RevertOne(t, j) \/ RevertFails(t, j)
       PROVE  DriveInv'
  BY <1>11, Relocates, LosesAnswer, Reverts, RevertIsLost
<1>12. ASSUME NEW t \in Requests,
              RelocateFails(t) \/ MoveCommit(t) \/ MoveCommitFails(t) \/ RevertDone(t)
       PROVE  DriveInv'
  BY <1>12, MoveIsRefused, MoveLands, RevertEnds
<1> QED
  BY <1>1, <1>2, <1>3, <1>4, <1>5, <1>6, <1>7, <1>8, <1>9, <1>10, <1>11, <1>12 DEF DriveNext

\* The inductive invariant of the Drive.
THEOREM DriveInvariant == DriveSpec => []DriveInv
<1>1. DriveInit => DriveInv
  BY DriveStarts
<1>2. DriveInv /\ [DriveNext]_driveVars => DriveInv'
  BY DriveStep, DriveRests
<1> QED
  BY <1>1, <1>2, PTL DEF DriveSpec

\* A committed file that no other row's key or crossing move has put at risk has
\* its bytes, written for it, under the key in its row, whatever uploads, moves,
\* purges, bucket failures and crashes there are (service.go Move, StoreContent,
\* PurgeTombstones; grant.go MoveObject).
THEOREM FilesKeepTheirBytes == DriveSpec => []KeepsItsBytes
<1>1. DriveInv => KeepsItsBytes
  BY DEF DriveInv, KeepsItsBytes, Settled, Held, HasBytes
<1> QED
  BY <1>1, DriveInvariant, PTL
-----------------------------------------------------------------------------
(* Resumable uploads, then the relay                                       *)

Holding    == Inside \cup {"recheck", "expire"}
Works   == (Inside \ {"get"}) \cup {"expire"}
Creates == {"create", "insert"}

\* A request or the sweeper: a record with the fields of Resting.
Shape(r) == r \in [pc : {r.pc}, up : {r.up}, gen : {r.gen}, offset : {r.offset}, open : {r.open}]

\* What r relies on: the row is yet to come, or was there and its mutex is the
\* one in the map unless the row is gone.
Sound(r, rows, gens) ==
  /\ Shape(r)
  /\ r.pc # "idle" => r.up \in Uploads
  /\ r.pc \in Creates => rows[r.up].state = "none"
  /\ r.pc \in Holding \cup {"lock", "delete", "unmap"} => rows[r.up].state # "none"
  /\ r.pc = "unmap" => rows[r.up].state = "gone"
  /\ r.pc \in Holding \cup {"lock"} => r.gen = gens[r.up] \/ rows[r.up].state = "gone"

\* Two of them do not hold one mutex, work on one upload or create one id.
Apart(r, s) ==
  /\ r.pc \in Holding /\ s.pc \in Holding /\ r.up = s.up => r.gen # s.gen
  /\ r.pc \in Works /\ s.pc \in Works => r.up # s.up
  /\ r.pc \in Creates /\ s.pc \in Creates => r.up # s.up

Tables(rows, gens) ==
  /\ rows = [u \in Uploads |-> rows[u]]
  /\ \A u \in Uploads : rows[u] \in [state : {rows[u].state}, offset : {rows[u].offset}]
  /\ gens = [u \in Uploads |-> gens[u]]

LockInv ==
  /\ Tables(row, lockGen)
  /\ client = [c \in Clients |-> client[c]]
  /\ \A c \in Clients : Sound(client[c], row, lockGen)
  /\ Sound(sweep, row, lockGen)
  /\ sweep.pc \in {"idle", "lock", "recheck", "expire"}
  /\ \A c, d \in Clients : c # d => Apart(client[c], client[d])
  /\ \A c \in Clients : Apart(client[c], sweep)

-----------------------------------------------------------------------------
\* Rows stay unborn, born or gone, and a mutex is replaced only when its row is
\* gone: what every action but CreateRow does to the tables.
Kept ==
  /\ Tables(row', lockGen')
  /\ \A u \in Uploads :
       /\ row'[u].state = "none" <=> row[u].state = "none"
       /\ row[u].state = "gone" => row'[u].state = "gone"
       /\ lockGen'[u] = lockGen[u] \/ row'[u].state = "gone"

\* A request at rest relies on nothing,
LEMMA RestingSound == \A rows, gens : Sound(Resting, rows, gens)
BY DEF Sound, Shape, Resting, Holding, Inside, Creates

\* and what a request relies on outlives a step that keeps rows and mutexes.
LEMMA KeptSound ==
  ASSUME Kept, NEW r, Sound(r, row, lockGen)
  PROVE  Sound(r, row', lockGen')
BY DEF Kept, Sound, Holding, Inside, Creates

\* Being apart goes both ways, holds of a request at rest, and lasts while the
\* request goes on with the same upload and mutex.
LEMMA ApartFacts ==
  ASSUME NEW r, NEW s
  PROVE  /\ Apart(r, s) => Apart(s, r)
         /\ r.pc \notin Holding \cup Creates => Apart(r, s)
         /\ \A q : /\ Apart(r, s) /\ q.up = r.up /\ q.gen = r.gen
                   /\ q.pc \in Holding => r.pc \in Holding
                   /\ q.pc \in Works => r.pc \in Works
                   /\ q.pc \in Creates => r.pc \in Creates
                   => Apart(q, s)
BY DEF Apart, Holding, Works, Inside, Creates

\* A request at rest is in nobody's way.
LEMMA RestingApart == \A s : Apart(Resting, s)
BY DEF Apart, Resting, Holding, Works, Inside, Creates

\* A request moves to r.
LEMMA ClientMoves ==
  ASSUME LockInv, NEW c \in Clients, NEW r,
         client' = [client EXCEPT ![c] = r], sweep' = sweep,
         Tables(row', lockGen'),
         \A d \in Clients \ {c} : Sound(client[d], row', lockGen'),
         Sound(sweep, row', lockGen'),
         Sound(r, row', lockGen'),
         \A d \in Clients \ {c} : Apart(r, client[d]),
         Apart(r, sweep)
  PROVE  LockInv'
<1>1. client' = [d \in Clients |-> client'[d]] /\ client'[c] = r
      /\ \A d \in Clients \ {c} : client'[d] = client[d]
  BY DEF LockInv
<1>2. \A d \in Clients : Sound(client'[d], row', lockGen')
  BY <1>1
<1>3. \A d, e \in Clients : d # e => Apart(client'[d], client'[e])
  <2> SUFFICES ASSUME NEW d \in Clients, NEW e \in Clients, d # e
               PROVE  Apart(client'[d], client'[e])
    OBVIOUS
  <2>1. CASE d = c
    BY <2>1, <1>1
  <2>2. CASE e = c
    <3>1. Apart(r, client[d])
      BY <2>2
    <3> QED
      BY <2>2, <3>1, <1>1, ApartFacts
  <2>3. CASE d # c /\ e # c
    BY <2>3, <1>1 DEF LockInv
  <2> QED
    BY <2>1, <2>2, <2>3
<1>4. \A d \in Clients : Apart(client'[d], sweep')
  BY <1>1 DEF LockInv
<1> QED
  BY <1>1, <1>2, <1>3, <1>4 DEF LockInv

\* ... to rest, or on with what it has.
LEMMA ClientGoesOn ==
  ASSUME LockInv, Kept, NEW c \in Clients, NEW r,
         client' = [client EXCEPT ![c] = r], sweep' = sweep,
         \/ r = Resting
         \/ /\ Sound(r, row', lockGen')
            /\ r.pc \notin Holding \cup Creates
         \/ /\ Sound(r, row', lockGen')
            /\ r.up = client[c].up /\ r.gen = client[c].gen
            /\ r.pc \in Holding => client[c].pc \in Holding
            /\ r.pc \in Works => client[c].pc \in Works
            /\ r.pc \in Creates => client[c].pc \in Creates
  PROVE  LockInv'
<1>1. /\ \A d \in Clients : Sound(client[d], row', lockGen')
      /\ Sound(sweep, row', lockGen')
  BY KeptSound DEF LockInv
<1>2. Sound(r, row', lockGen')
  BY RestingSound
<1>3. /\ \A d \in Clients \ {c} : Apart(client[c], client[d])
      /\ Apart(client[c], sweep)
  BY DEF LockInv
<1>4. \A s : Apart(client[c], s) => Apart(r, s)
  <2>1. CASE r.pc \notin Holding \cup Creates
    BY <2>1, ApartFacts
  <2>2. CASE r = Resting
    BY <2>1, <2>2 DEF Resting, Holding, Inside, Creates
  <2> QED
    BY <2>1, <2>2, ApartFacts
<1>5. (\A d \in Clients \ {c} : Apart(r, client[d])) /\ Apart(r, sweep)
  BY <1>3, <1>4
<1>6. Tables(row', lockGen')
  BY DEF Kept
<1> QED
  BY <1>1, <1>2, <1>5, <1>6, ClientMoves

-----------------------------------------------------------------------------
(* The actions.                                                            *)

\* Steps that leave rows and mutexes alone.
LEMMA SameKept ==
  ASSUME LockInv, row' = row, lockGen' = lockGen
  PROVE  Kept
BY DEF LockInv, Kept, Tables

\* r is what q becomes on its way through the creation or the section.
Follows(q, r) ==
  /\ Shape(r) /\ r.up = q.up /\ r.gen = q.gen
  /\ \/ q.pc \in Creates /\ r.pc \in Creates
     \/ q.pc \in Works /\ r.pc \in Works

\* A request goes on with its upload, or ends.
LEMMA FollowsStep ==
  ASSUME LockInv, Kept, NEW c \in Clients, NEW r,
         client' = [client EXCEPT ![c] = r], sweep' = sweep,
         r = Resting \/ Follows(client[c], r)
  PROVE  LockInv'
<1>1. Sound(client[c], row', lockGen')
  BY KeptSound DEF LockInv
<1>2. CASE Follows(client[c], r)
  <2>1. Sound(r, row', lockGen')
    BY <1>1, <1>2 DEF Sound, Follows, Holding, Works, Inside, Creates
  <2>2. /\ r.up = client[c].up /\ r.gen = client[c].gen
        /\ r.pc \in Holding => client[c].pc \in Holding
        /\ r.pc \in Works => client[c].pc \in Works
        /\ r.pc \in Creates => client[c].pc \in Creates
    BY <1>2 DEF Follows, Holding, Works, Inside, Creates
  <2> QED
    BY <2>1, <2>2, ClientGoesOn
<1>3. CASE r = Resting
  BY <1>3, ClientGoesOn
<1> QED
  BY <1>2, <1>3

\* Moves of a request with its upload and its mutex.
LEMMA Moves ==
  ASSUME NEW q, Shape(q)
  PROVE  /\ q.pc = "create" => Follows(q, [q EXCEPT !.pc = "insert"])
         /\ q.pc = "append" => \A n : Follows(q, [q EXCEPT !.pc = "offset", !.offset = n])
         /\ q.pc = "offset" => Follows(q, [q EXCEPT !.pc = "finalize"])
         /\ q.pc = "finalize" => \A b : Follows(q, [q EXCEPT !.pc = "sink", !.open = b])
         /\ q.pc = "sink" => Follows(q, [q EXCEPT !.pc = "complete", !.open = <<>>])
         /\ q.pc = "complete" => Follows(q, [q EXCEPT !.pc = "remove"])
<1> USE DEF Follows, Shape, Works, Inside, Creates
<1>1. q.pc = "create" => Follows(q, [q EXCEPT !.pc = "insert"])
  OBVIOUS
<1>2. q.pc = "append" => \A n : Follows(q, [q EXCEPT !.pc = "offset", !.offset = n])
  OBVIOUS
<1>3. q.pc = "offset" => Follows(q, [q EXCEPT !.pc = "finalize"])
  OBVIOUS
<1>4. q.pc = "finalize" => \A b : Follows(q, [q EXCEPT !.pc = "sink", !.open = b])
  OBVIOUS
<1>5. q.pc = "sink" => Follows(q, [q EXCEPT !.pc = "complete", !.open = <<>>])
  OBVIOUS
<1>6. q.pc = "complete" => Follows(q, [q EXCEPT !.pc = "remove"])
  OBVIOUS
<1> QED
  BY <1>1, <1>2, <1>3, <1>4, <1>5, <1>6

\* A request goes on or ends; its row stays as it is, or changes its offset or
\* becomes complete.
LEMMA LockGoesOn ==
  ASSUME LockInv, NEW c \in Clients,
         \/ CreateFile(c)
         \/ \E n \in 0..Length : PatchAppend(c, n) \/ PatchAppendBreaks(c, n)
         \/ PatchAppendRefused(c) \/ PatchOffset(c) \/ FinalizeOpen(c)
         \/ FinalizeStore(c) \/ FinalizeStoreFails(c) \/ FinalizeComplete(c)
         \/ FinalizeRemove(c)
  PROVE  LockInv'
<1> DEFINE q == client[c]
<1>1. Sound(q, row, lockGen) /\ Shape(q)
  BY DEF LockInv, Sound
<1>2. Kept /\ sweep' = sweep
  <2>1. CASE PatchOffset(c)
    BY <2>1, <1>1 DEF PatchOffset, LockInv, Kept, Tables
  <2>2. CASE FinalizeComplete(c)
    BY <2>2, <1>1 DEF FinalizeComplete, LockInv, Kept, Tables, Known
  <2>3. CASE row' = row /\ lockGen' = lockGen /\ sweep' = sweep
    BY <2>3, SameKept
  <2> QED
    BY <2>1, <2>2, <2>3
       DEF CreateFile, PatchAppend, PatchAppendBreaks, PatchAppendRefused, FinalizeOpen,
           FinalizeStore, FinalizeStoreFails, FinalizeRemove
<1>3. \E r : client' = [client EXCEPT ![c] = r] /\ (r = Resting \/ Follows(q, r))
  <2>1. CASE CreateFile(c)
    BY <2>1, <1>1, Moves DEF CreateFile, Goes
  <2>2. ASSUME NEW n \in 0..Length, PatchAppend(c, n)
        PROVE  \E r : client' = [client EXCEPT ![c] = r] /\ (r = Resting \/ Follows(q, r))
    BY <2>2, <1>1, Moves DEF PatchAppend, Goes
  <2>3. CASE PatchOffset(c)
    BY <2>3, <1>1, Moves DEF PatchOffset, Goes, Ends
  <2>4. CASE FinalizeOpen(c)
    BY <2>4, <1>1, Moves DEF FinalizeOpen, Goes, Ends
  <2>5. CASE FinalizeStore(c)
    BY <2>5, <1>1, Moves DEF FinalizeStore, Goes
  <2>6. CASE FinalizeComplete(c)
    BY <2>6, <1>1, Moves DEF FinalizeComplete, Goes
  <2>7. CASE Ends(c)
    BY <2>7 DEF Ends, Goes
  <2> QED
    BY <2>1, <2>2, <2>3, <2>4, <2>5, <2>6, <2>7
       DEF PatchAppendBreaks, PatchAppendRefused, FinalizeStoreFails, FinalizeRemove
<1> QED
  BY <1>2, <1>3, FollowsStep

\* Create: nobody has to do with a new id until its row is there.
LEMMA CreateCheckStep ==
  ASSUME LockInv, NEW c \in Clients, NEW u \in Uploads, CreateCheck(c, u)
  PROVE  LockInv'
<1> DEFINE r == [Resting EXCEPT !.pc = "create", !.up = u]
<1>1. r.pc = "create" /\ r.up = u /\ Shape(r)
  BY DEF Resting, Shape
<1>2. Kept /\ sweep' = sweep /\ client' = [client EXCEPT ![c] = r]
  BY SameKept DEF CreateCheck, Goes
<1>3. Sound(r, row', lockGen')
  BY <1>1 DEF Sound, CreateCheck, Creates, Holding, Inside
<1>4. \A d \in Clients \ {c} : Apart(r, client[d])
  BY <1>1 DEF Apart, CreateCheck, Creates, Holding, Works, Inside
<1>5. Apart(r, sweep)
  BY <1>1 DEF LockInv, Apart, Creates, Holding, Works, Inside
<1>6. /\ \A d \in Clients : Sound(client[d], row', lockGen')
      /\ Sound(sweep, row', lockGen')
  BY <1>2, KeptSound DEF LockInv
<1> QED
  BY <1>2, <1>3, <1>4, <1>5, <1>6, ClientMoves DEF Kept

\* Create inserts its row: the id is new.
LEMMA CreateRowStep ==
  ASSUME LockInv, NEW c \in Clients, CreateRow(c)
  PROVE  LockInv'
<1> DEFINE u == client[c].up
<1>1. u \in Uploads /\ row[u].state = "none" /\ client[c].pc = "insert"
  BY DEF LockInv, Sound, CreateRow, Creates
<1>2. /\ client' = [client EXCEPT ![c] = Resting] /\ sweep' = sweep
      /\ lockGen' = lockGen
      /\ row' = [row EXCEPT ![u] = [state |-> "open", offset |-> 0]]
  BY DEF CreateRow, Ends, Goes
<1>3. Tables(row', lockGen')
  BY <1>1, <1>2 DEF LockInv, Tables
<1>4. row'[u].state = "open" /\ \A v \in Uploads \ {u} : row'[v] = row[v]
  BY <1>1, <1>2 DEF LockInv, Tables
<1>5. ASSUME NEW s, Sound(s, row, lockGen), s.pc \in Creates => s.up # u
      PROVE  Sound(s, row', lockGen')
  BY <1>1, <1>2, <1>4, <1>5 DEF Sound, Creates, Holding, Inside
<1>6. \A d \in Clients \ {c} : Sound(client[d], row', lockGen')
  <2> TAKE d \in Clients \ {c}
  <2>1. client[d].pc \in Creates => client[d].up # u
    BY <1>1 DEF LockInv, Apart, Creates
  <2> QED
    BY <2>1, <1>5 DEF LockInv
<1>7. Sound(sweep, row', lockGen')
  BY <1>5 DEF LockInv, Creates
<1>8. Sound(Resting, row', lockGen') /\ \A s : Apart(Resting, s)
  BY RestingSound, RestingApart
<1> QED
  BY <1>2, <1>3, <1>6, <1>7, <1>8, ClientMoves

\* Patch begins with the mutex of the map, and Delete with no mutex.
LEMMA BeginStep ==
  ASSUME LockInv, NEW c \in Clients, NEW u \in Uploads,
         PatchBegin(c, u) \/ DeleteFile(c, u)
  PROVE  LockInv'
<1>1. Kept /\ sweep' = sweep /\ row' = row /\ lockGen' = lockGen
  BY SameKept DEF PatchBegin, DeleteFile
<1>2. CASE PatchBegin(c, u)
  <2> DEFINE r == [Resting EXCEPT !.pc = "lock", !.up = u, !.gen = lockGen[u]]
  <2>1. r.pc = "lock" /\ r.up = u /\ r.gen = lockGen[u] /\ Shape(r)
    BY DEF Resting, Shape
  <2>2. Sound(r, row', lockGen') /\ r.pc \notin Holding \cup Creates
    BY <1>1, <1>2, <2>1 DEF PatchBegin, Sound, Holding, Inside, Creates
  <2>3. client' = [client EXCEPT ![c] = r]
    BY <1>2 DEF PatchBegin, Goes
  <2> QED
    BY <1>1, <2>2, <2>3, ClientGoesOn
<1>3. CASE DeleteFile(c, u)
  <2> DEFINE r == [Resting EXCEPT !.pc = "delete", !.up = u]
  <2>1. r.pc = "delete" /\ r.up = u /\ Shape(r)
    BY DEF Resting, Shape
  <2>2. Sound(r, row', lockGen') /\ r.pc \notin Holding \cup Creates
    BY <1>1, <1>3, <2>1 DEF DeleteFile, Known, Sound, Holding, Inside, Creates
  <2>3. client' = [client EXCEPT ![c] = r]
    BY <1>3 DEF DeleteFile, Goes
  <2> QED
    BY <1>1, <2>2, <2>3, ClientGoesOn
<1> QED
  BY <1>2, <1>3

\* A request gets the mutex it has asked for, of which it is the one holder.
LEMMA PatchLockStep ==
  ASSUME LockInv, NEW c \in Clients, PatchLock(c)
  PROVE  LockInv'
<1> DEFINE q == client[c]
           r == [q EXCEPT !.pc = "get"]
<1>1. Sound(q, row, lockGen) /\ q.pc = "lock"
  BY DEF LockInv, PatchLock
<1>2. r.pc = "get" /\ r.up = q.up /\ r.gen = q.gen /\ Shape(r)
  BY <1>1 DEF Sound, Shape
<1>3. Kept /\ sweep' = sweep /\ row' = row /\ lockGen' = lockGen
      /\ client' = [client EXCEPT ![c] = r]
  BY SameKept DEF PatchLock, Goes
<1>4. Sound(r, row', lockGen')
  BY <1>1, <1>2, <1>3 DEF Sound, Holding, Inside, Creates
<1>5. Free(q.up, q.gen)
  BY DEF PatchLock, MayEnter
<1>6. /\ \A d \in Clients \ {c} : Apart(r, client[d])
      /\ Apart(r, sweep)
  BY <1>2, <1>5 DEF Free, Holds, Apart, Holding, Works, Inside, Creates
<1>7. /\ \A d \in Clients : Sound(client[d], row', lockGen')
      /\ Sound(sweep, row', lockGen')
  BY <1>3, KeptSound DEF LockInv
<1> QED
  BY <1>3, <1>4, <1>6, <1>7, ClientMoves DEF Kept

\* Whoever finds the row open holds the mutex of the map, and so does whoever
\* works on the upload already: it is the same request.
LEMMA PatchGetStep ==
  ASSUME LockInv, NEW c \in Clients, PatchGet(c)
  PROVE  LockInv'
<1> DEFINE q == client[c]
           u == q.up
           r == [q EXCEPT !.pc = "append", !.offset = row[u].offset]
<1>1. Sound(q, row, lockGen) /\ q.pc = "get"
  BY DEF LockInv, PatchGet
<1>2. Kept /\ sweep' = sweep /\ row' = row /\ lockGen' = lockGen
  BY SameKept DEF PatchGet
<1>3. CASE Ends(c)
  BY <1>2, <1>3, ClientGoesOn DEF Ends, Goes
<1>4. CASE row[u].state = "open" /\ Goes(c, r)
  <2>1. r.pc = "append" /\ r.up = u /\ r.gen = q.gen /\ Shape(r)
    BY <1>1 DEF Sound, Shape
  <2>2. Sound(r, row', lockGen')
    BY <1>1, <1>2, <2>1 DEF Sound, Holding, Inside, Creates
  <2>3. q.gen = lockGen[u]
    BY <1>1, <1>4 DEF Sound, Holding, Inside
  <2>4. ASSUME NEW s, Sound(s, row, lockGen), Apart(q, s)
        PROVE  Apart(r, s)
    <3>1. s.pc \in Holding /\ s.up = u => s.gen = lockGen[u]
      BY <1>4, <2>4 DEF Sound
    <3> QED
      BY <1>1, <2>1, <2>3, <2>4, <3>1 DEF Apart, Holding, Works, Inside, Creates
  <2>5. /\ \A d \in Clients \ {c} : Apart(r, client[d])
        /\ Apart(r, sweep)
    BY <2>4 DEF LockInv
  <2>6. /\ \A d \in Clients : Sound(client[d], row', lockGen')
        /\ Sound(sweep, row', lockGen')
    BY <1>2, KeptSound DEF LockInv
  <2> QED
    BY <1>2, <1>4, <2>2, <2>5, <2>6, ClientMoves DEF Kept, Goes
<1> QED
  BY <1>3, <1>4 DEF PatchGet

\* deleteInternal: the row goes first, then the mutex.
LEMMA DeleteSteps ==
  ASSUME LockInv, NEW c \in Clients, DeleteRow(c) \/ DeleteLock(c)
  PROVE  LockInv'
<1> DEFINE q == client[c]
           u == q.up
<1>1. Sound(q, row, lockGen)
  BY DEF LockInv
<1>2. CASE DeleteRow(c)
  <2> DEFINE r == [q EXCEPT !.pc = "unmap"]
  <2>1. u \in Uploads /\ row[u].state # "none"
    BY <1>1, <1>2 DEF DeleteRow, Sound
  <2>2. r.pc = "unmap" /\ r.up = u /\ Shape(r)
    BY <1>1 DEF Sound, Shape
  <2>3. Kept /\ row'[u].state = "gone"
    BY <1>2, <2>1 DEF DeleteRow, LockInv, Kept, Tables
  <2>4. Sound(r, row', lockGen') /\ r.pc \notin Holding \cup Creates
    BY <2>1, <2>2, <2>3 DEF Sound, Holding, Inside, Creates
  <2>5. client' = [client EXCEPT ![c] = r] /\ sweep' = sweep
    BY <1>2 DEF DeleteRow, Goes
  <2> QED
    BY <2>3, <2>4, <2>5, ClientGoesOn
<1>3. CASE DeleteLock(c)
  <2>1. u \in Uploads /\ row[u].state = "gone"
    BY <1>1, <1>3 DEF DeleteLock, Sound
  <2>2. Kept
    BY <1>3, <2>1 DEF DeleteLock, LockInv, Kept, Tables
  <2>3. client' = [client EXCEPT ![c] = Resting] /\ sweep' = sweep
    BY <1>3 DEF DeleteLock, Ends, Goes
  <2> QED
    BY <2>2, <2>3, ClientGoesOn
<1> QED
  BY <1>2, <1>3

\* The sweeper moves to r.
LEMMA SweepMoves ==
  ASSUME LockInv, Kept, client' = client,
         Sound(sweep', row', lockGen'),
         sweep'.pc \in {"idle", "lock", "recheck", "expire"},
         \A c \in Clients : Apart(client[c], sweep')
  PROVE  LockInv'
BY KeptSound DEF LockInv, Kept

\* The sweeper takes the mutex like a request, looks at the row again under it
\* and deletes; a row it finds is one whose mutex is in the map.
LEMMA SweepSteps ==
  ASSUME LockInv,
         (\E u \in Uploads : SweepPick(u)) \/ SweepLock \/ SweepRecheck \/ SweepExpire
  PROVE  LockInv'
<1>0. Sound(sweep, row, lockGen) /\ Shape(sweep)
  BY DEF LockInv, Sound
<1>1. ASSUME NEW u \in Uploads, SweepPick(u)
      PROVE  LockInv'
  <2>1. Kept /\ row' = row /\ lockGen' = lockGen /\ client' = client
    BY <1>1, SameKept DEF SweepPick
  <2>2. sweep'.pc = "lock" /\ sweep'.up = u /\ sweep'.gen = lockGen[u] /\ Shape(sweep')
    BY <1>1 DEF SweepPick, Resting, Shape
  <2>3. Sound(sweep', row', lockGen')
    BY <1>1, <2>1, <2>2 DEF SweepPick, Known, Sound, Holding, Inside, Creates
  <2>4. \A c \in Clients : Apart(client[c], sweep')
    BY <2>2 DEF Apart, Holding, Works, Inside, Creates
  <2> QED
    BY <2>1, <2>2, <2>3, <2>4, SweepMoves
<1>2. CASE SweepLock
  <2>1. Kept /\ row' = row /\ lockGen' = lockGen /\ client' = client
    BY <1>2, SameKept DEF SweepLock
  <2>2. sweep'.pc = "recheck" /\ sweep'.up = sweep.up /\ sweep'.gen = sweep.gen /\ Shape(sweep')
    BY <1>0, <1>2 DEF SweepLock, Shape
  <2>3. Sound(sweep', row', lockGen')
    BY <1>0, <1>2, <2>1, <2>2 DEF SweepLock, Sound, Holding, Inside, Creates
  <2>4. \A c \in Clients : Apart(client[c], sweep')
    BY <1>2, <2>2 DEF SweepLock, Free, Holds, Apart, Holding, Works, Inside, Creates
  <2> QED
    BY <2>1, <2>2, <2>3, <2>4, SweepMoves
<1>3. CASE SweepRecheck
  <2>1. Kept /\ row' = row /\ lockGen' = lockGen /\ client' = client
    BY <1>3, SameKept DEF SweepRecheck
  <2>2. CASE sweep' = Resting
    <3>1. Sound(sweep', row', lockGen') /\ sweep'.pc = "idle"
      BY <2>2, RestingSound DEF Resting
    <3>2. \A c \in Clients : Apart(client[c], sweep')
      BY <3>1 DEF Apart, Holding, Works, Inside, Creates
    <3> QED
      BY <2>1, <3>1, <3>2, SweepMoves
  <2>3. CASE StillStale(sweep.up) /\ sweep' = [sweep EXCEPT !.pc = "expire"]
    <3>1. sweep'.pc = "expire" /\ sweep'.up = sweep.up /\ sweep'.gen = sweep.gen /\ Shape(sweep')
      BY <1>0, <2>3 DEF Shape
    <3>2. Sound(sweep', row', lockGen')
      BY <1>0, <1>3, <2>1, <3>1 DEF SweepRecheck, Sound, Holding, Inside, Creates
    <3>3. sweep.gen = lockGen[sweep.up] /\ row[sweep.up].state # "gone" /\ sweep.pc = "recheck"
      BY <1>0, <1>3, <2>3 DEF SweepRecheck, StillStale, Known, Sound, Holding
    <3>4. ASSUME NEW c \in Clients
          PROVE  Apart(client[c], sweep')
      <4>1. Apart(client[c], sweep) /\ Sound(client[c], row, lockGen)
        BY DEF LockInv
      <4>2. client[c].pc \in Holding /\ client[c].up = sweep.up => client[c].gen = sweep.gen
        BY <3>3, <4>1 DEF Sound
      <4> QED
        BY <3>1, <3>3, <4>1, <4>2 DEF Apart, Holding, Works, Inside, Creates
    <3> QED
      BY <2>1, <3>1, <3>2, <3>4, SweepMoves
  <2> QED
    BY <1>3, <2>2, <2>3 DEF SweepRecheck
<1>4. CASE SweepExpire
  <2>1. sweep.up \in Uploads /\ row[sweep.up].state # "none"
    BY <1>0, <1>4 DEF SweepExpire, Sound, Holding
  <2>2. Kept /\ client' = client
    BY <1>4, <2>1 DEF SweepExpire, LockInv, Kept, Tables
  <2>3. Sound(sweep', row', lockGen') /\ sweep'.pc = "idle"
    BY <1>4, RestingSound DEF SweepExpire, Resting
  <2>4. \A c \in Clients : Apart(client[c], sweep')
    BY <2>3 DEF Apart, Holding, Works, Inside, Creates
  <2> QED
    BY <2>2, <2>3, <2>4, SweepMoves
<1> QED
  BY <1>1, <1>2, <1>3, <1>4

\* After a crash nobody holds anything.
LEMMA RestSound ==
  ASSUME Tables(row, lockGen), client = [c \in Clients |-> Resting], sweep = Resting
  PROVE  LockInv
<1>2. sweep.pc = "idle" /\ \A c \in Clients : client[c] = Resting
  BY DEF Resting
<1>3. \A c \in Clients : Sound(client[c], row, lockGen)
  BY <1>2, RestingSound
<1>4. Sound(sweep, row, lockGen)
  BY RestingSound
<1> QED
  BY <1>2, <1>3, <1>4, RestingApart DEF LockInv

-----------------------------------------------------------------------------
\* LockInv is inductive.
THEOREM LockInvariant == UploadSpec => []LockInv
<1>1. UploadInit => LockInv
  <2> SUFFICES ASSUME UploadInit PROVE LockInv
    OBVIOUS
  <2>1. Tables(row, lockGen)
    BY DEF UploadInit, Tables, NoRow
  <2> QED
    BY <2>1, RestSound DEF UploadInit
<1>2. LockInv /\ [UploadNext]_uploadVars => LockInv'
  <2> SUFFICES ASSUME LockInv, [UploadNext]_uploadVars
               PROVE  LockInv'
    OBVIOUS
  <2>1. CASE UNCHANGED uploadVars
    BY <2>1 DEF uploadVars, LockInv
  <2>2. ASSUME NEW u \in Uploads, Age(u)
        PROVE  LockInv'
    BY <2>2 DEF Age, LockInv
  <2>3. CASE UploadCrash
    <3>1. Tables(row', lockGen')
      BY <2>3 DEF UploadCrash, LockInv, Tables
    <3>2. client' = [c \in Clients |-> Resting] /\ sweep' = Resting
      BY <2>3 DEF UploadCrash
    <3>4. sweep'.pc = "idle" /\ \A c \in Clients : client'[c] = Resting
      BY <3>2 DEF Resting
    <3>5. \A c \in Clients : Sound(client'[c], row', lockGen')
      BY <3>4, RestingSound
    <3>6. Sound(sweep', row', lockGen')
      BY <3>2, RestingSound
    <3> QED
      BY <3>1, <3>2, <3>4, <3>5, <3>6, RestingApart DEF LockInv
  <2> QED
    BY <2>1, <2>2, <2>3, CreateCheckStep, CreateRowStep, BeginStep, PatchLockStep,
       PatchGetStep, LockGoesOn, DeleteSteps, SweepSteps
       DEF UploadNext
<1> QED
  BY <1>1, <1>2, PTL DEF UploadSpec

\* For any number of uploads and requests, and whatever breaks off, fails, is
\* deleted or crashes: one request at a time works on an upload, and the sweeper
\* on none that a request works on.
THEOREM OneAtATimeHolds == UploadSpec => []OneAtATime
<1>1. LockInv => OneAtATime
  BY DEF LockInv, OneAtATime, Working, Apart, Works, Inside
<1> QED
  BY LockInvariant, <1>1, PTL

-----------------------------------------------------------------------------
(* What the Drive is given, and what stays behind in the staging area.     *)

\* The whole source, cut at the declared length, is the source.
LEMMA WholeSource == SubSeq(Source, 1, Min({Len(Source), Length})) = Source
<1>1. Source \in Seq(Nat) /\ Len(Source) = Length
  BY UploadConstants DEF Source, Chunk
<1>2. Min({Len(Source), Length}) = Length
  BY <1>1, UploadConstants DEF Min
<1> QED
  BY <1>1, <1>2, UploadConstants

\* The open file that a request hands to the sink has passed the comparison of
\* hashes, and what a request completes it has handed over.
PromiseInv ==
  /\ promoted = [u \in Uploads |-> promoted[u]]
  /\ \A c \in Clients :
       /\ client[c].pc = "sink" /\ client[c].up \in Hashed => client[c].open = Source
       /\ client[c].pc \in {"complete", "remove"} => promoted[client[c].up] # {}
  /\ HashedArrivesWhole
  /\ CompleteIsPromoted

\* Where the requests are that go on.
LEMMA NewPlace ==
  ASSUME NEW q, Shape(q), NEW x, NEW y
  PROVE  /\ [q EXCEPT !.pc = x].pc = x
         /\ [q EXCEPT !.pc = x].up = q.up
         /\ [q EXCEPT !.pc = x, !.offset = y].pc = x
         /\ [q EXCEPT !.pc = x, !.open = y].pc = x
         /\ [q EXCEPT !.pc = x, !.open = y].up = q.up
         /\ [q EXCEPT !.pc = x, !.open = y].open = y
         /\ [q EXCEPT !.pc = x, !.up = y].pc = x
         /\ \A z : [q EXCEPT !.pc = x, !.up = y, !.gen = z].pc = x
BY DEF Shape

\* A request moves to r, and nothing is promoted or completed.
LEMMA PromiseMoves ==
  ASSUME LockInv, PromiseInv, NEW c \in Clients, NEW r, Goes(c, r), promoted' = promoted,
         r.pc # "sink", r.pc \in {"complete", "remove"} => promoted[r.up] # {},
         \A u \in Uploads : row'[u].state = "complete" => row[u].state = "complete" \/ promoted[u] # {}
  PROVE  PromiseInv'
<1>1. client'[c] = r /\ \A d \in Clients \ {c} : client'[d] = client[d]
  BY DEF LockInv, Goes
<1> QED
  BY <1>1 DEF PromiseInv, HashedArrivesWhole, CompleteIsPromoted

\* Every step.
LEMMA PromiseStep == LockInv /\ PromiseInv /\ [UploadNext]_uploadVars => PromiseInv'
<1> SUFFICES ASSUME LockInv, PromiseInv, [UploadNext]_uploadVars
             PROVE  PromiseInv'
  OBVIOUS
<1>0. Resting.pc = "idle" /\ Shape(Resting)
  BY DEF Resting, Shape
<1>1. \A c \in Clients : Sound(client[c], row, lockGen) /\ Shape(client[c])
  BY DEF LockInv, Sound
<1>2. ASSUME NEW c \in Clients, NEW u \in Uploads,
             CreateCheck(c, u) \/ PatchBegin(c, u) \/ DeleteFile(c, u)
      PROVE  PromiseInv'
  <2>1. promoted' = promoted /\ row' = row
    BY <1>2 DEF CreateCheck, PatchBegin, DeleteFile
  <2>2. \E r : Goes(c, r) /\ r.pc \in {"create", "lock", "delete"}
    <3>1. CASE CreateCheck(c, u)
      <4> DEFINE r == [Resting EXCEPT !.pc = "create", !.up = u]
      <4>1. r.pc = "create"
        BY <1>0, <1>1, NewPlace
      <4>2. Goes(c, r)
        BY <3>1 DEF CreateCheck
      <4> HIDE DEF r
      <4> QED
        BY <4>1, <4>2
    <3>2. CASE PatchBegin(c, u)
      <4> DEFINE r == [Resting EXCEPT !.pc = "lock", !.up = u, !.gen = lockGen[u]]
      <4>1. r.pc = "lock"
        BY <1>0, <1>1, NewPlace
      <4>2. Goes(c, r)
        BY <3>2 DEF PatchBegin
      <4> HIDE DEF r
      <4> QED
        BY <4>1, <4>2
    <3>3. CASE DeleteFile(c, u)
      <4> DEFINE r == [Resting EXCEPT !.pc = "delete", !.up = u]
      <4>1. r.pc = "delete"
        BY <1>0, <1>1, NewPlace
      <4>2. Goes(c, r)
        BY <3>3 DEF DeleteFile
      <4> HIDE DEF r
      <4> QED
        BY <4>1, <4>2
    <3> QED
      BY <1>2, <3>1, <3>2, <3>3
  <2> QED
    BY <2>1, <2>2, PromiseMoves
<1>3. ASSUME NEW c \in Clients, NEW n \in 0..Length, PatchAppend(c, n) \/ PatchAppendBreaks(c, n)
      PROVE  PromiseInv'
  <2>1. promoted' = promoted /\ row' = row
    BY <1>3 DEF PatchAppend, PatchAppendBreaks
  <2>2. \E r : Goes(c, r) /\ r.pc \in {"idle", "offset"}
    <3>1. CASE PatchAppend(c, n)
      <4> DEFINE r == [client[c] EXCEPT !.pc = "offset", !.offset = client[c].offset + n]
      <4>1. r.pc = "offset"
        BY <1>0, <1>1, NewPlace
      <4>2. Goes(c, r)
        BY <3>1 DEF PatchAppend
      <4> HIDE DEF r
      <4> QED
        BY <4>1, <4>2
    <3>2. CASE PatchAppendBreaks(c, n)
      BY <3>2, <1>0 DEF PatchAppendBreaks, Ends
    <3> QED
      BY <1>3, <3>1, <3>2
  <2> QED
    BY <2>1, <2>2, PromiseMoves
<1>4. ASSUME NEW c \in Clients,
             CreateFile(c) \/ PatchLock(c) \/ PatchGet(c) \/ PatchAppendRefused(c)
               \/ FinalizeStoreFails(c) \/ FinalizeRemove(c) \/ DeleteLock(c)
      PROVE  PromiseInv'
  <2>1. promoted' = promoted /\ row' = row
    BY <1>4 DEF CreateFile, PatchLock, PatchGet, PatchAppendRefused, FinalizeStoreFails,
                FinalizeRemove, DeleteLock
  <2>2. \E r : Goes(c, r) /\ r.pc \in {"idle", "insert", "get", "append"}
    <3>1. CASE CreateFile(c)
      <4> DEFINE r == [client[c] EXCEPT !.pc = "insert"]
      <4>1. r.pc = "insert"
        BY <1>0, <1>1, NewPlace
      <4>2. Goes(c, r)
        BY <3>1 DEF CreateFile
      <4> HIDE DEF r
      <4> QED
        BY <4>1, <4>2
    <3>2. CASE PatchLock(c)
      <4> DEFINE r == [client[c] EXCEPT !.pc = "get"]
      <4>1. r.pc = "get"
        BY <1>0, <1>1, NewPlace
      <4>2. Goes(c, r)
        BY <3>2 DEF PatchLock
      <4> HIDE DEF r
      <4> QED
        BY <4>1, <4>2
    <3>3. CASE PatchGet(c)
      <4> DEFINE r == [client[c] EXCEPT !.pc = "append", !.offset = row[client[c].up].offset]
      <4>1. r.pc = "append"
        BY <1>1, NewPlace
      <4>2. Goes(c, r) \/ Goes(c, Resting)
        BY <3>3 DEF PatchGet, Ends
      <4> HIDE DEF r
      <4> QED
        BY <1>0, <4>1, <4>2
    <3>4. CASE Ends(c)
      BY <3>4, <1>0 DEF Ends
    <3> QED
      BY <1>4, <3>1, <3>2, <3>3, <3>4
         DEF PatchAppendRefused, FinalizeStoreFails, FinalizeRemove, DeleteLock
  <2> QED
    BY <2>1, <2>2, PromiseMoves
<1>5. ASSUME NEW c \in Clients, CreateRow(c) \/ PatchOffset(c) \/ DeleteRow(c)
      PROVE  PromiseInv'
  <2>1. /\ promoted' = promoted
        /\ \A u \in Uploads : row'[u].state = "complete" => row[u].state = "complete"
    <3>1. CASE CreateRow(c)
      BY <1>1, <3>1 DEF CreateRow, LockInv, Tables, Sound
    <3>2. CASE PatchOffset(c)
      BY <1>1, <3>2 DEF PatchOffset, LockInv, Tables, Sound
    <3>3. CASE DeleteRow(c)
      BY <1>1, <3>3 DEF DeleteRow, LockInv, Tables, Sound
    <3> QED
      BY <1>5, <3>1, <3>2, <3>3
  <2>2. \E r : Goes(c, r) /\ r.pc \in {"idle", "finalize", "unmap"}
    <3>1. CASE CreateRow(c)
      BY <3>1, <1>0 DEF CreateRow, Ends
    <3>2. CASE PatchOffset(c)
      <4> DEFINE r == [client[c] EXCEPT !.pc = "finalize"]
      <4>1. r.pc = "finalize"
        BY <1>1, NewPlace
      <4>2. Goes(c, r) \/ Goes(c, Resting)
        BY <3>2 DEF PatchOffset, Ends
      <4> HIDE DEF r
      <4> QED
        BY <1>0, <4>1, <4>2
    <3>3. CASE DeleteRow(c)
      <4> DEFINE r == [client[c] EXCEPT !.pc = "unmap"]
      <4>1. r.pc = "unmap"
        BY <1>0, <1>1, NewPlace
      <4>2. Goes(c, r)
        BY <3>3 DEF DeleteRow
      <4> HIDE DEF r
      <4> QED
        BY <4>1, <4>2
    <3> QED
      BY <1>5, <3>1, <3>2, <3>3
  <2> QED
    BY <2>1, <2>2, PromiseMoves
<1>6. ASSUME NEW c \in Clients, FinalizeOpen(c)
      PROVE  PromiseInv'
  <2> DEFINE u == client[c].up
  <2>1. CASE staged[u].exists /\ HashAccepts(u)
    <3>1. /\ client'[c].pc = "sink" /\ client'[c].up = u
          /\ client'[c].open = staged[u].bytes
          /\ \A d \in Clients \ {c} : client'[d] = client[d]
          /\ UNCHANGED <<promoted, row>>
      <4> DEFINE r == [client[c] EXCEPT !.pc = "sink", !.open = staged[u].bytes]
      <4>1. r.pc = "sink" /\ r.up = u /\ r.open = staged[u].bytes
        BY <1>1, NewPlace
      <4>2. Goes(c, r) /\ UNCHANGED <<promoted, row>>
        BY <1>6, <2>1 DEF FinalizeOpen
      <4> HIDE DEF r
      <4> QED
        BY <4>1, <4>2 DEF LockInv, Goes
    <3> QED
      BY <2>1, <3>1 DEF PromiseInv, HashedArrivesWhole, CompleteIsPromoted, HashAccepts
  <2>2. CASE ~(staged[u].exists /\ HashAccepts(u))
    BY <1>0, <1>6, <2>2, PromiseMoves DEF FinalizeOpen, Ends
  <2> QED
    BY <2>1, <2>2
<1>7. ASSUME NEW c \in Clients, FinalizeStore(c)
      PROVE  PromiseInv'
  <2> DEFINE u == client[c].up
             b == client[c].open
  <2>1. u \in Uploads /\ row' = row
    BY <1>1, <1>7 DEF FinalizeStore, Sound
  <2>2. promoted' = [promoted EXCEPT ![u] = @ \cup {SubSeq(b, 1, Min({Len(b), Length}))}]
    BY <1>7 DEF FinalizeStore
  <2>3. /\ client'[c].pc = "complete" /\ client'[c].up = u
        /\ \A d \in Clients \ {c} : client'[d] = client[d]
    <3> DEFINE r == [client[c] EXCEPT !.pc = "complete", !.open = <<>>]
    <3>1. r.pc = "complete" /\ r.up = u
      BY <1>1, NewPlace
    <3>2. Goes(c, r)
      BY <1>7 DEF FinalizeStore
    <3> HIDE DEF r
    <3> QED
      BY <3>1, <3>2 DEF LockInv, Goes
  <2>4. u \in Hashed => b = Source
    BY <1>7 DEF FinalizeStore, PromiseInv
  <2>5. /\ promoted' = [v \in Uploads |-> promoted'[v]]
        /\ promoted'[u] # {} /\ \A v \in Uploads : promoted[v] \subseteq promoted'[v]
    BY <2>1, <2>2 DEF PromiseInv
  <2>6. HashedArrivesWhole'
    <3>1. u \in Hashed => SubSeq(b, 1, Min({Len(b), Length})) = Source
      BY <2>4, WholeSource
    <3>2. \A v \in Uploads : promoted'[v] = IF v = u
             THEN promoted[u] \cup {SubSeq(b, 1, Min({Len(b), Length}))} ELSE promoted[v]
      BY <2>1, <2>2 DEF PromiseInv
    <3> QED
      BY <3>1, <3>2, UploadConstants DEF PromiseInv, HashedArrivesWhole
  <2>7. CompleteIsPromoted'
    BY <2>1, <2>5 DEF PromiseInv, CompleteIsPromoted
  <2>8. \A d \in Clients : client[d].pc \in {"complete", "remove"} => client[d].up \in Uploads
    BY <1>1 DEF Sound
  <2> QED
    BY <2>1, <2>3, <2>5, <2>6, <2>7, <2>8 DEF PromiseInv
<1>8. ASSUME NEW c \in Clients, FinalizeComplete(c)
      PROVE  PromiseInv'
  <2> DEFINE r == [client[c] EXCEPT !.pc = "remove"]
  <2>1. r.pc = "remove" /\ r.up = client[c].up /\ Goes(c, r) /\ promoted' = promoted
    BY <1>1, <1>8 DEF FinalizeComplete, Shape
  <2>2. promoted[r.up] # {}
    BY <1>8, <2>1 DEF FinalizeComplete, PromiseInv
  <2>3. \A v \in Uploads : v # r.up => row'[v] = row[v]
    BY <1>8, <2>1 DEF FinalizeComplete, LockInv, Tables
  <2> HIDE DEF r
  <2> QED
    BY <2>1, <2>2, <2>3, PromiseMoves
<1>9. ASSUME UNCHANGED <<client, promoted>>,
             \A u \in Uploads : row'[u].state = "complete" => row[u].state = "complete"
      PROVE  PromiseInv'
  BY <1>9 DEF PromiseInv, HashedArrivesWhole, CompleteIsPromoted
<1>10. CASE SweepExpire
  BY <1>9, <1>10 DEF SweepExpire, LockInv, Tables, Sound
<1>11. CASE UploadCrash
  BY <1>0, <1>11 DEF UploadCrash, PromiseInv, HashedArrivesWhole, CompleteIsPromoted
<1>12. CASE SweepLock \/ SweepRecheck \/ (\E u \in Uploads : Age(u) \/ SweepPick(u)) \/ UNCHANGED uploadVars
  BY <1>9, <1>12 DEF SweepLock, SweepRecheck, Age, SweepPick, uploadVars
<1> QED
  BY <1>2, <1>3, <1>4, <1>5, <1>6, <1>7, <1>8, <1>10, <1>11, <1>12 DEF UploadNext

\* With a declared hash the Drive only ever gets the client's file, and an upload is
\* promoted before it is complete (upload.go, finalize), for any number of uploads
\* and requests, whatever broke off, crashed or was retried.
THEOREM ArrivesWhole == UploadSpec => [](HashedArrivesWhole /\ CompleteIsPromoted)
<1>1. UploadInit => PromiseInv
  <2> SUFFICES ASSUME UploadInit PROVE PromiseInv
    OBVIOUS
  <2>1. \A c \in Clients : client[c].pc = "idle"
    BY DEF UploadInit, Resting
  <2>2. \A u \in Uploads : row[u].state = "none" /\ promoted[u] = {}
    BY DEF UploadInit, NoRow
  <2>3. promoted = [u \in Uploads |-> promoted[u]]
    BY DEF UploadInit
  <2> QED
    BY <2>1, <2>2, <2>3, UploadConstants DEF PromiseInv, HashedArrivesWhole, CompleteIsPromoted
<1>2. PromiseInv => HashedArrivesWhole /\ CompleteIsPromoted
  BY DEF PromiseInv
<1> QED
  BY <1>1, <1>2, LockInvariant, PromiseStep, PTL DEF UploadSpec

\* A row that is gone, and one that Delete is about to remove, has no file; an
\* upload without a row yet has an empty one at most.
StagingInv ==
  /\ staged = [u \in Uploads |-> staged[u]]
  /\ \A u \in Uploads :
       /\ row[u].state \in {"none", "open", "complete", "gone"}
       /\ staged[u] \in [exists : {staged[u].exists}, bytes : {staged[u].bytes}]
       /\ row[u].state = "gone" => staged[u] = NoFile
       /\ row[u].state = "none" => staged[u].bytes = <<>>
  /\ \A c \in Clients : client[c].pc = "delete" => staged[client[c].up] = NoFile

\* A step that makes no file and removes no row: a request may go on, but not to
\* the second statement of Delete.
LEMMA StagingKept ==
  ASSUME LockInv, StagingInv, staged' = [u \in Uploads |-> staged'[u]],
         \A u \in Uploads :
           /\ staged'[u] = staged[u] \/ staged'[u] = NoFile
           /\ row'[u].state \in {"none", "open", "complete", "gone"}
           /\ row'[u].state = "gone" => row[u].state = "gone" \/ staged'[u] = NoFile
           /\ row'[u].state = "none" => row[u].state = "none",
         \A c \in Clients : client'[c].pc = "delete" =>
           client'[c].up \in Uploads /\ (client'[c] = client[c] \/ staged'[client'[c].up] = NoFile)
  PROVE  StagingInv'
<1>1. NoFile.bytes = <<>> /\ NoFile.exists = FALSE
      /\ NoFile \in [exists : {NoFile.exists}, bytes : {NoFile.bytes}]
  BY DEF NoFile
<1>2. ASSUME NEW u \in Uploads
      PROVE  /\ row'[u].state \in {"none", "open", "complete", "gone"}
             /\ staged'[u] \in [exists : {staged'[u].exists}, bytes : {staged'[u].bytes}]
             /\ row'[u].state = "gone" => staged'[u] = NoFile
             /\ row'[u].state = "none" => staged'[u].bytes = <<>>
  <2>1. CASE staged'[u] = staged[u]
    BY <2>1 DEF StagingInv
  <2>2. CASE staged'[u] = NoFile
    BY <1>1, <2>2
  <2> QED
    BY <2>1, <2>2
<1>3. ASSUME NEW c \in Clients, client'[c].pc = "delete"
      PROVE  staged'[client'[c].up] = NoFile
  <2>1. CASE client'[c] = client[c]
    <3>1. staged[client[c].up] = NoFile /\ client[c].up \in Uploads
      BY <1>3, <2>1 DEF StagingInv
    <3> QED
      BY <2>1, <3>1
  <2>2. CASE client'[c] # client[c]
    BY <1>3, <2>2
  <2> QED
    BY <2>1, <2>2
<1> QED
  BY <1>2, <1>3 DEF StagingInv

\* Every step.
LEMMA StagingStep == LockInv /\ StagingInv /\ [UploadNext]_uploadVars => StagingInv'
<1> SUFFICES ASSUME LockInv, StagingInv, [UploadNext]_uploadVars
             PROVE  StagingInv'
  OBVIOUS
<1>0. Resting.pc = "idle" /\ Shape(Resting)
  BY DEF Resting, Shape
<1>1. \A c \in Clients : /\ Sound(client[c], row, lockGen) /\ Shape(client[c])
                         /\ client[c].pc = "delete" => client[c].up \in Uploads
  BY DEF LockInv, Sound
<1>2. ASSUME NEW c \in Clients, NEW r, Goes(c, r), r.pc # "delete"
      PROVE  \A d \in Clients : client'[d].pc = "delete" => client'[d] = client[d] /\ d # c
  BY <1>2 DEF Goes, LockInv
<1>3. ASSUME NEW c \in Clients, NEW r, Goes(c, r), r.pc # "delete", staged' = staged,
             \A u \in Uploads :
               /\ row'[u].state \in {"none", "open", "complete", "gone"}
               /\ row'[u].state \in {"none", "gone"} => row'[u].state = row[u].state
      PROVE  StagingInv'
  <2>1. \A d \in Clients : client'[d].pc = "delete" => client'[d] = client[d] /\ client'[d].up \in Uploads
    BY <1>1, <1>2, <1>3
  <2> QED
    BY <1>3, <2>1, StagingKept DEF StagingInv
<1>4. ASSUME NEW c \in Clients, NEW u \in Uploads, CreateCheck(c, u) \/ PatchBegin(c, u)
      PROVE  StagingInv'
  <2>1. \E r : Goes(c, r) /\ r.pc # "delete"
    <3>1. CASE CreateCheck(c, u)
      <4> DEFINE r == [Resting EXCEPT !.pc = "create", !.up = u]
      <4>1. r.pc = "create"
        BY <1>0, NewPlace
      <4>2. Goes(c, r)
        BY <3>1 DEF CreateCheck
      <4> HIDE DEF r
      <4> QED
        BY <4>1, <4>2
    <3>2. CASE PatchBegin(c, u)
      <4> DEFINE r == [Resting EXCEPT !.pc = "lock", !.up = u, !.gen = lockGen[u]]
      <4>1. r.pc = "lock"
        BY <1>0, NewPlace
      <4>2. Goes(c, r)
        BY <3>2 DEF PatchBegin
      <4> HIDE DEF r
      <4> QED
        BY <4>1, <4>2
    <3> QED
      BY <1>4, <3>1, <3>2
  <2>2. UNCHANGED <<staged, row>>
    BY <1>4 DEF CreateCheck, PatchBegin
  <2> QED
    BY <1>3, <2>1, <2>2 DEF StagingInv
<1>5. ASSUME NEW c \in Clients, NEW u \in Uploads, DeleteFile(c, u)
      PROVE  StagingInv'
  <2> DEFINE r == [Resting EXCEPT !.pc = "delete", !.up = u]
  <2>1. r.pc = "delete" /\ r.up = u
    BY <1>0, NewPlace DEF Resting
  <2>2. client' = [client EXCEPT ![c] = r] /\ staged' = [staged EXCEPT ![u] = NoFile] /\ row' = row
    BY <1>5 DEF DeleteFile, Goes
  <2> HIDE DEF r
  <2>3. staged' = [v \in Uploads |-> staged'[v]] /\ staged'[u] = NoFile
        /\ \A v \in Uploads \ {u} : staged'[v] = staged[v]
    BY <2>2 DEF StagingInv
  <2>4. client'[c] = r /\ \A d \in Clients \ {c} : client'[d] = client[d]
    BY <2>2 DEF LockInv
  <2>5. \A d \in Clients : client'[d].pc = "delete" =>
          client'[d].up \in Uploads /\ (client'[d] = client[d] \/ staged'[client'[d].up] = NoFile)
    BY <1>1, <2>1, <2>3, <2>4
  <2> QED
    BY <2>2, <2>3, <2>5, StagingKept DEF StagingInv
<1>6. ASSUME NEW c \in Clients, CreateFile(c)
      PROVE  StagingInv'
  <2> DEFINE u == client[c].up
             r == [client[c] EXCEPT !.pc = "insert"]
             f == [exists |-> TRUE, bytes |-> <<>>]
  <2>1. r.pc = "insert"
    BY <1>1, NewPlace
  <2>2. Goes(c, r) /\ staged' = [staged EXCEPT ![u] = f] /\ row' = row
    BY <1>6 DEF CreateFile
  <2>3. u \in Uploads /\ row[u].state = "none"
    BY <1>1, <1>6 DEF CreateFile, Sound, Creates
  <2>4. f.bytes = <<>> /\ f.exists = TRUE /\ f \in [exists : {f.exists}, bytes : {f.bytes}]
    OBVIOUS
  <2> HIDE DEF r, f
  <2>5. \A d \in Clients : client'[d].pc = "delete" => client'[d] = client[d] /\ client[d].up # u
    BY <1>1, <1>2, <2>1, <2>2, <2>3 DEF Sound
  <2>6. staged' = [v \in Uploads |-> staged'[v]] /\ staged'[u] = f
        /\ \A v \in Uploads \ {u} : staged'[v] = staged[v]
    BY <2>2, <2>3 DEF StagingInv
  <2>7. \A d \in Clients : client'[d].pc = "delete" => staged'[client'[d].up] = NoFile
    <3> SUFFICES ASSUME NEW d \in Clients, client'[d].pc = "delete"
                 PROVE  staged'[client'[d].up] = NoFile
      OBVIOUS
    <3>1. client'[d] = client[d] /\ client[d].up \in Uploads \ {u} /\ staged[client[d].up] = NoFile
      BY <1>1, <2>5 DEF StagingInv
    <3> QED
      BY <2>6, <3>1
  <2> QED
    BY <2>2, <2>3, <2>4, <2>6, <2>7 DEF StagingInv
<1>7. ASSUME NEW c \in Clients, NEW n \in 0..Length, PatchAppend(c, n) \/ PatchAppendBreaks(c, n)
      PROVE  StagingInv'
  <2> DEFINE u == client[c].up
  <2>1. \E r : Goes(c, r) /\ r.pc # "delete"
    <3>1. CASE PatchAppend(c, n)
      <4> DEFINE r == [client[c] EXCEPT !.pc = "offset", !.offset = client[c].offset + n]
      <4>1. r.pc = "offset"
        BY <1>1, NewPlace
      <4>2. Goes(c, r)
        BY <3>1 DEF PatchAppend
      <4> HIDE DEF r
      <4> QED
        BY <4>1, <4>2
    <3>2. CASE PatchAppendBreaks(c, n)
      BY <1>0, <3>2 DEF PatchAppendBreaks, Ends
    <3> QED
      BY <1>7, <3>1, <3>2
  <2>2. PICK b : staged' = [staged EXCEPT ![u] = [exists |-> TRUE, bytes |-> b]]
    BY <1>7 DEF PatchAppend, PatchAppendBreaks
  <2>3. u \in Uploads /\ row[u].state # "none" /\ staged[u].exists /\ row' = row
    BY <1>1, <1>7 DEF PatchAppend, PatchAppendBreaks, StagingOpens, Sound, Holding, Inside
  <2>4. row[u].state # "gone" /\ \A d \in Clients : client[d].pc = "delete" => client[d].up # u
    BY <2>3 DEF StagingInv, NoFile
  <2>5. staged' = [v \in Uploads |-> staged'[v]] /\ staged'[u] = [exists |-> TRUE, bytes |-> b]
        /\ \A v \in Uploads \ {u} : staged'[v] = staged[v]
    BY <2>2, <2>3 DEF StagingInv
  <2>6. \A d \in Clients : client'[d].pc = "delete" => client'[d] = client[d]
    BY <1>2, <2>1
  <2>7. \A d \in Clients : client'[d].pc = "delete" => staged'[client'[d].up] = NoFile
    <3> SUFFICES ASSUME NEW d \in Clients, client'[d].pc = "delete"
                 PROVE  staged'[client'[d].up] = NoFile
      OBVIOUS
    <3>1. client'[d] = client[d] /\ client[d].up \in Uploads \ {u} /\ staged[client[d].up] = NoFile
      BY <1>1, <2>4, <2>6 DEF StagingInv
    <3> QED
      BY <2>5, <3>1
  <2>8. staged'[u] \in [exists : {staged'[u].exists}, bytes : {staged'[u].bytes}]
    BY <2>5
  <2> QED
    BY <2>3, <2>4, <2>5, <2>7, <2>8 DEF StagingInv
<1>8. ASSUME NEW c \in Clients, PatchLock(c) \/ PatchGet(c) \/ FinalizeOpen(c) \/ FinalizeStore(c)
      PROVE  StagingInv'
  <2>1. UNCHANGED <<staged, row>>
    BY <1>8 DEF PatchLock, PatchGet, FinalizeOpen, FinalizeStore
  <2>2. \E r : Goes(c, r) /\ r.pc # "delete"
    <3> DEFINE get == [client[c] EXCEPT !.pc = "get"]
               app == [client[c] EXCEPT !.pc = "append", !.offset = row[client[c].up].offset]
               snk == [client[c] EXCEPT !.pc = "sink", !.open = staged[client[c].up].bytes]
               cpl == [client[c] EXCEPT !.pc = "complete", !.open = <<>>]
    <3>1. get.pc = "get" /\ app.pc = "append" /\ snk.pc = "sink" /\ cpl.pc = "complete"
      BY <1>1, NewPlace
    <3>2. Goes(c, get) \/ Goes(c, app) \/ Goes(c, snk) \/ Goes(c, cpl) \/ Goes(c, Resting)
      BY <1>8 DEF PatchLock, PatchGet, FinalizeOpen, FinalizeStore, Ends
    <3> HIDE DEF get, app, snk, cpl
    <3> QED
      BY <1>0, <3>1, <3>2
  <2> QED
    BY <1>3, <2>1, <2>2 DEF StagingInv
<1>9. ASSUME NEW c \in Clients, PatchAppendRefused(c) \/ FinalizeStoreFails(c) \/ DeleteLock(c)
      PROVE  StagingInv'
  <2>1. UNCHANGED <<staged, row>> /\ Goes(c, Resting)
    BY <1>9 DEF PatchAppendRefused, FinalizeStoreFails, DeleteLock, Ends
  <2> QED
    BY <1>0, <1>3, <2>1 DEF StagingInv
<1>10. ASSUME NEW c \in Clients, CreateRow(c) \/ PatchOffset(c) \/ FinalizeComplete(c)
       PROVE  StagingInv'
  <2>1. \E r : Goes(c, r) /\ r.pc # "delete"
    <3> DEFINE fin == [client[c] EXCEPT !.pc = "finalize"]
               rem == [client[c] EXCEPT !.pc = "remove"]
    <3>1. fin.pc = "finalize" /\ rem.pc = "remove"
      BY <1>1, NewPlace
    <3>2. Goes(c, fin) \/ Goes(c, rem) \/ Goes(c, Resting)
      BY <1>10 DEF CreateRow, PatchOffset, FinalizeComplete, Ends
    <3> HIDE DEF fin, rem
    <3> QED
      BY <1>0, <3>1, <3>2
  <2>2. staged' = staged
    BY <1>10 DEF CreateRow, PatchOffset, FinalizeComplete
  <2>3. \A u \in Uploads :
               /\ row'[u].state \in {"none", "open", "complete", "gone"}
               /\ row'[u].state \in {"none", "gone"} => row'[u].state = row[u].state
    <3>1. CASE CreateRow(c)
      BY <1>1, <3>1 DEF CreateRow, LockInv, Tables, StagingInv, Sound
    <3>2. CASE PatchOffset(c)
      <4>1. PICK x : row' = [row EXCEPT ![client[c].up].offset = x]
        BY <3>2 DEF PatchOffset
      <4>2. \A u \in Uploads : row'[u].state = row[u].state
        BY <4>1 DEF LockInv, Tables
      <4> QED
        BY <4>2 DEF StagingInv
    <3>3. CASE FinalizeComplete(c)
      <4> DEFINE u == client[c].up
                 st == IF Known(u) THEN "complete" ELSE row[u].state
      <4>1. u \in Uploads /\ row' = [row EXCEPT ![u].state = st]
        BY <1>1, <3>3 DEF FinalizeComplete, Sound
      <4>2. row'[u].state = st /\ \A v \in Uploads \ {u} : row'[v] = row[v]
        BY <4>1 DEF LockInv, Tables
      <4>3. st \in {"none", "open", "complete", "gone"} /\ (st \in {"none", "gone"} => st = row[u].state)
        BY <4>1 DEF StagingInv, Known
      <4> HIDE DEF st
      <4> QED
        BY <4>2, <4>3 DEF StagingInv
    <3> QED
      BY <1>10, <3>1, <3>2, <3>3
  <2> QED
    BY <1>3, <2>1, <2>2, <2>3
<1>11. ASSUME NEW c \in Clients, FinalizeRemove(c)
       PROVE  StagingInv'
  <2> DEFINE u == client[c].up
  <2>1. u \in Uploads /\ Goes(c, Resting) /\ row' = row /\ staged' = [staged EXCEPT ![u] = NoFile]
    BY <1>1, <1>11 DEF FinalizeRemove, Ends, Sound
  <2>2. \A d \in Clients : client'[d].pc = "delete" => client'[d] = client[d] /\ client'[d].up \in Uploads
    BY <1>0, <1>1, <1>2, <2>1
  <2> QED
    BY <2>1, <2>2, StagingKept DEF StagingInv
<1>12. ASSUME NEW c \in Clients, DeleteRow(c)
       PROVE  StagingInv'
  <2> DEFINE u == client[c].up
             r == [client[c] EXCEPT !.pc = "unmap"]
  <2>1. r.pc = "unmap" /\ Goes(c, r)
    BY <1>1, <1>12, NewPlace DEF DeleteRow
  <2>2. u \in Uploads /\ staged[u] = NoFile /\ staged' = staged
        /\ row' = [row EXCEPT ![u] = [state |-> "gone", offset |-> 0]]
    BY <1>1, <1>12 DEF DeleteRow, Sound, StagingInv
  <2> HIDE DEF r
  <2>3. \A d \in Clients : client'[d].pc = "delete" => client'[d] = client[d] /\ client'[d].up \in Uploads
    BY <1>1, <1>2, <2>1
  <2>4. row'[u].state = "gone" /\ \A v \in Uploads \ {u} : row'[v] = row[v]
    BY <2>2 DEF LockInv, Tables
  <2> QED
    BY <2>2, <2>3, <2>4, StagingKept DEF StagingInv
<1>13. CASE SweepExpire
  <2> DEFINE u == sweep.up
  <2>1. u \in Uploads /\ client' = client /\ staged' = [staged EXCEPT ![u] = NoFile]
        /\ row' = [row EXCEPT ![u] = [state |-> "gone", offset |-> 0]]
    BY <1>13 DEF SweepExpire, LockInv, Sound
  <2>2. row'[u].state = "gone" /\ \A v \in Uploads \ {u} : row'[v] = row[v]
    BY <2>1 DEF LockInv, Tables
  <2> QED
    BY <1>1, <2>1, <2>2, StagingKept DEF StagingInv
<1>14. ASSUME UNCHANGED <<row, staged>>, \A c \in Clients : client'[c].pc = "delete" => client'[c] = client[c]
       PROVE  StagingInv'
  BY <1>14 DEF StagingInv
<1>15. CASE UploadCrash
  BY <1>0, <1>14, <1>15 DEF UploadCrash
<1>16. CASE SweepLock \/ SweepRecheck \/ (\E u \in Uploads : Age(u) \/ SweepPick(u)) \/ UNCHANGED uploadVars
  BY <1>14, <1>16 DEF SweepLock, SweepRecheck, Age, SweepPick, uploadVars
<1> QED
  BY <1>4, <1>5, <1>6, <1>7, <1>8, <1>9, <1>10, <1>11, <1>12, <1>13, <1>15, <1>16 DEF UploadNext

\* Staged bytes never outlive their row (upload.go, deleteInternal removes the file
\* first), so the sweeper, which goes by rows, finds them all.
THEOREM StagingSwept == UploadSpec => []NoOrphanedBytes
<1>1. UploadInit => StagingInv
  <2> SUFFICES ASSUME UploadInit PROVE StagingInv
    OBVIOUS
  <2>1. \A c \in Clients : client[c].pc = "idle"
    BY DEF UploadInit, Resting
  <2>2. \A u \in Uploads : row[u].state = "none" /\ staged[u] = NoFile
    BY DEF UploadInit, NoRow
  <2>3. staged = [u \in Uploads |-> staged[u]]
    BY DEF UploadInit
  <2>4. NoFile.bytes = <<>> /\ NoFile \in [exists : {NoFile.exists}, bytes : {NoFile.bytes}]
    BY DEF NoFile
  <2> QED
    BY <2>1, <2>2, <2>3, <2>4 DEF StagingInv
<1>2. StagingInv => NoOrphanedBytes
  <2>1. NoFile.bytes = <<>>
    BY DEF NoFile
  <2> QED
    BY <2>1 DEF StagingInv, NoOrphanedBytes, Known
<1> QED
  BY <1>1, <1>2, LockInvariant, StagingStep, PTL DEF UploadSpec
-----------------------------------------------------------------------------
(* The relay                                                               *)

\* The states of a deposit before its file is written, and all of them.
Unwritten == {"rate", "caps", "write"}
UnderWay  == Unwritten \cup {"record"}

DepositTypes ==
  /\ deposit \in [Depositors -> [pc : UnderWay, r : Nonces] \cup {NoDeposit}]
  /\ writes \in [Nonces -> Nat]
  /\ seen \in Seq(Nonces)

\* A nonce that was never forgotten is in seenNonces as soon as a deposit with it
\* is under way or stored; there is one such deposit, and it is stored once.
OnceInv ==
  /\ DepositTypes
  /\ \A r \in Nonces \ forgotten :
       /\ writes[r] > 0 => InSeen(r)
       /\ writes[r] <= 1
       /\ \A d \in Depositors : deposit[d].r = r =>
            /\ InSeen(r)
            /\ deposit[d].pc \in Unwritten => writes[r] = 0
            /\ \A e \in Depositors : deposit[e].r = r => d = e

-----------------------------------------------------------------------------
\* What a step of a deposit does to the rest is nothing: it goes on or ends.
LEMMA DepositOnce ==
  ASSUME OnceInv, NEW d \in Depositors,
         DepositRate(d) \/ DepositCaps(d) \/ DepositWrite(d) \/ DepositRecord(d)
  PROVE  OnceInv'
<1> DEFINE q == deposit[d]
<1>0. /\ deposit \in [Depositors -> [pc : UnderWay, r : Nonces] \cup {NoDeposit}]
      /\ writes \in [Nonces -> Nat] /\ seen \in Seq(Nonces)
  BY DEF OnceInv, DepositTypes
<1>1. q \in [pc : UnderWay, r : Nonces]
  BY <1>0 DEF DepositRate, DepositCaps, DepositWrite, DepositRecord, NoDeposit
<1>2. seen' = seen /\ forgotten' = forgotten
  BY DEF DepositRate, DepositCaps, DepositWrite, DepositRecord
<1>3. \A r \in Nonces : InSeen(r)' <=> InSeen(r)
  BY <1>2 DEF InSeen
<1>4. /\ \A e \in Depositors \ {d} : deposit'[e] = deposit[e]
      /\ deposit' = [deposit EXCEPT ![d] = deposit'[d]]
      /\ \/ deposit'[d] = NoDeposit
         \/ /\ deposit'[d] \in [pc : UnderWay, r : Nonces] /\ deposit'[d].r = q.r
            /\ deposit'[d].pc \in Unwritten => q.pc \in Unwritten /\ writes' = writes
  BY <1>0, <1>1 DEF DepositRate, DepositCaps, DepositWrite, DepositRecord, StepTo,
                    UnderWay, Unwritten
<1>5. deposit' \in [Depositors -> [pc : UnderWay, r : Nonces] \cup {NoDeposit}]
  BY <1>0, <1>4
<1>6. \/ writes' = writes
      \/ q.pc = "write" /\ writes' = [writes EXCEPT ![q.r] = @ + 1]
         /\ deposit'[d].pc = "record"
  BY <1>0, <1>1 DEF DepositRate, DepositCaps, DepositWrite, DepositRecord, StepTo
<1>7. DepositTypes'
  BY <1>0, <1>1, <1>2, <1>5, <1>6 DEF DepositTypes
<1>8. ASSUME NEW r \in Nonces \ forgotten
      PROVE  /\ writes'[r] > 0 => InSeen(r)
             /\ writes'[r] <= 1
             /\ \A e \in Depositors : deposit'[e].r = r =>
                  /\ InSeen(r)
                  /\ deposit'[e].pc \in Unwritten => writes'[r] = 0
                  /\ \A f \in Depositors : deposit'[f].r = r => e = f
  <2>0. NoDeposit.r \notin Nonces
    BY RelayConstants DEF NoDeposit
  <2>1. /\ writes[r] > 0 => InSeen(r)
        /\ writes[r] <= 1
        /\ \A e \in Depositors : deposit[e].r = r =>
             /\ InSeen(r)
             /\ deposit[e].pc \in Unwritten => writes[r] = 0
             /\ \A f \in Depositors : deposit[f].r = r => e = f
    BY DEF OnceInv
  <2>2. \A e \in Depositors : deposit'[e].r = r => deposit[e].r = r
    BY <1>4, <2>0
  <2>3. CASE writes' = writes
    BY <2>1, <2>2, <2>3, <1>4, <2>0
  <2>4. CASE q.pc = "write" /\ writes' = [writes EXCEPT ![q.r] = @ + 1]
             /\ deposit'[d].pc = "record"
    <3>1. CASE r = q.r
      <4>1. writes[r] = 0 /\ InSeen(r)
        BY <3>1, <2>1, <2>4 DEF Unwritten
      <4>2. writes'[r] = 1
        BY <3>1, <2>4, <4>1, <1>0
      <4> QED
        BY <3>1, <2>1, <2>2, <2>4, <4>1, <4>2 DEF Unwritten
    <3>2. CASE r # q.r
      BY <3>2, <2>1, <2>2, <2>4, <1>0, <1>4, <2>0
    <3> QED
      BY <3>1, <3>2
  <2> QED
    BY <2>3, <2>4, <1>6
<1> QED
  BY <1>2, <1>3, <1>7, <1>8 DEF OnceInv

\* A nonce that is recorded takes the last place; only the oldest one may leave.
LEMMA RecordedNonce ==
  ASSUME NEW q \in Seq(Nonces), NEW r \in Nonces, NEW s \in Nonces, Len(q) >= 1,
         NEW i \in 1..Len(q), q[i] = s, s # q[1]
  PROVE  \E j \in 1..Len(Append(Tail(q), r)) : Append(Tail(q), r)[j] = s
<1> DEFINE t == Append(Tail(q), r)
<1>1. Tail(q) \in Seq(Nonces) /\ Len(Tail(q)) = Len(q) - 1
  OBVIOUS
<1>2. i - 1 \in 1..Len(Tail(q)) /\ Tail(q)[i - 1] = s
  BY <1>1
<1>3. Len(t) = Len(q) /\ t[i - 1] = s /\ i - 1 \in 1..Len(t)
  BY <1>1, <1>2
<1> QED
  BY <1>3

\* A deposit that begins has a nonce that was not there, so nothing is stored or
\* under way with it; what makes room is forgotten.
LEMMA NonceOnce ==
  ASSUME OnceInv, NEW d \in Depositors, NEW n \in Nonces, DepositNonce(d, n)
  PROVE  OnceInv'
<1>0. /\ deposit \in [Depositors -> [pc : UnderWay, r : Nonces] \cup {NoDeposit}]
      /\ writes \in [Nonces -> Nat] /\ seen \in Seq(Nonces) /\ writes' = writes
  BY DEF OnceInv, DepositTypes, DepositNonce
<1>a. CASE ~FreshNonce(n)
  <2>1. deposit' = deposit /\ seen' = seen /\ forgotten' = forgotten
    BY <1>a DEF DepositNonce
  <2> QED
    BY <1>0, <2>1 DEF OnceInv, DepositTypes, InSeen
<1>b. CASE FreshNonce(n)
  <2> DEFINE q == [pc |-> "rate", r |-> n]
  <2>1. deposit' = [deposit EXCEPT ![d] = q] /\ deposit[d] = NoDeposit /\ ~InSeen(n)
    BY <1>b DEF DepositNonce, StepTo, FreshNonce
  <2>2. \/ /\ Len(seen) >= 1
           /\ seen' = Append(Tail(seen), n) /\ forgotten' = forgotten \cup {seen[1]}
        \/ seen' = Append(seen, n) /\ forgotten' = forgotten
    BY <1>b, <1>0, RelayConstants DEF DepositNonce, Evicts
  <2>3. seen' \in Seq(Nonces) /\ Len(seen') >= 1 /\ seen'[Len(seen')] = n
    <3>1. CASE Len(seen) >= 1 /\ seen' = Append(Tail(seen), n)
      <4>1. Tail(seen) \in Seq(Nonces)
        BY <3>1, <1>0
      <4> QED
        BY <3>1, <4>1
    <3>2. CASE seen' = Append(seen, n)
      BY <3>2, <1>0
    <3> QED
      BY <3>1, <3>2, <2>2
  <2>4. InSeen(n)'
    BY <2>3 DEF InSeen
  <2>5. ASSUME NEW s \in Nonces \ forgotten', InSeen(s)
        PROVE  InSeen(s)'
    <3>0. PICK i \in 1..Len(seen) : seen[i] = s
      BY <2>5 DEF InSeen
    <3>1. CASE Len(seen) >= 1 /\ seen' = Append(Tail(seen), n)
               /\ forgotten' = forgotten \cup {seen[1]}
      <4>1. s # seen[1]
        BY <3>1
      <4>2. \E j \in 1..Len(Append(Tail(seen), n)) : Append(Tail(seen), n)[j] = s
        <5>1. seen \in Seq(Nonces) /\ n \in Nonces /\ s \in Nonces /\ Len(seen) >= 1
          BY <3>1, <1>0
        <5>2. i \in 1..Len(seen) /\ seen[i] = s /\ s # seen[1]
          BY <3>0, <4>1
        <5> QED
          BY <5>1, <5>2, RecordedNonce, ZenonT(60)
      <4> QED
        BY <4>2, <3>1, Zenon DEF InSeen
    <3>2. CASE seen' = Append(seen, n)
      <4>1. i \in 1..Len(seen') /\ seen'[i] = s
        BY <3>0, <3>2, <1>0
      <4> QED
        BY <4>1 DEF InSeen
    <3> QED
      BY <3>1, <3>2, <2>2
  <2>6. q \in [pc : UnderWay, r : Nonces]
    BY DEF UnderWay, Unwritten
  <2>7. DepositTypes'
    BY <1>0, <2>1, <2>3, <2>6 DEF DepositTypes
  <2>8. Nonces \ forgotten' \subseteq Nonces \ forgotten
    BY <2>2
  <2>9. ASSUME NEW s \in Nonces \ forgotten'
        PROVE  /\ writes[s] > 0 => InSeen(s)'
               /\ writes[s] <= 1
               /\ \A e \in Depositors : deposit'[e].r = s =>
                    /\ InSeen(s)'
                    /\ deposit'[e].pc \in Unwritten => writes[s] = 0
                    /\ \A f \in Depositors : deposit'[f].r = s => e = f
    <3>1. /\ writes[s] > 0 => InSeen(s)
          /\ writes[s] <= 1
          /\ \A e \in Depositors : deposit[e].r = s =>
               /\ InSeen(s)
               /\ deposit[e].pc \in Unwritten => writes[s] = 0
               /\ \A f \in Depositors : deposit[f].r = s => e = f
      BY <2>8 DEF OnceInv
    <3>2. writes[s] \in Nat
      BY <1>0
    <3>3. \A e \in Depositors \ {d} : deposit'[e] = deposit[e]
      BY <1>0, <2>1
    <3>4. deposit'[d].r = n /\ deposit'[d].pc = "rate"
      BY <1>0, <2>1
    <3>5. CASE s = n
      <4>1. writes[s] = 0 /\ \A e \in Depositors : deposit[e].r # s
        BY <3>5, <3>1, <3>2, <2>1
      <4> QED
        BY <3>5, <4>1, <3>3, <2>4
    <3>6. CASE s # n
      <4>1. \A e \in Depositors : deposit'[e].r = s => e # d /\ deposit'[e] = deposit[e]
        BY <3>6, <3>3, <3>4
      <4>2. ASSUME NEW e \in Depositors, deposit'[e].r = s
            PROVE  /\ InSeen(s)'
                   /\ deposit'[e].pc \in Unwritten => writes[s] = 0
                   /\ \A f \in Depositors : deposit'[f].r = s => e = f
        BY <4>1, <4>2, <3>1, <2>5
      <4> QED
        BY <4>2, <3>1, <2>5
    <3> QED
      BY <3>5, <3>6
  <2> QED
    BY <2>7, <2>9, <1>0 DEF OnceInv
<1> QED
  BY <1>a, <1>b

\* An hour or a restart forgets every nonce it removes.
LEMMA ForgetOnce ==
  ASSUME OnceInv, HourPasses \/ RelayRestart
  PROVE  OnceInv'
<1>0. /\ deposit \in [Depositors -> [pc : UnderWay, r : Nonces] \cup {NoDeposit}]
      /\ writes \in [Nonces -> Nat] /\ seen \in Seq(Nonces) /\ writes' = writes
  BY DEF OnceInv, DepositTypes, HourPasses, RelayRestart
<1>1. /\ seen' = <<>> /\ forgotten' = forgotten \cup {seen[i] : i \in 1..Len(seen)}
      /\ deposit' = deposit \/ deposit' = [d \in Depositors |-> NoDeposit]
  BY DEF HourPasses, RelayRestart
<1>2. DepositTypes'
  BY <1>0, <1>1 DEF DepositTypes
<1>3. \A s \in Nonces \ forgotten' : s \in Nonces \ forgotten /\ ~InSeen(s)
  BY <1>1 DEF InSeen
<1>4. NoDeposit.r \notin Nonces
  BY RelayConstants DEF NoDeposit
<1>5. ASSUME NEW s \in Nonces \ forgotten'
      PROVE  writes[s] = 0 /\ \A e \in Depositors : deposit'[e].r # s
  <2>1. writes[s] = 0 /\ \A e \in Depositors : deposit[e].r # s
    BY <1>0, <1>3 DEF OnceInv
  <2> QED
    BY <2>1, <1>1, <1>4
<1> QED
  BY <1>0, <1>2, <1>5 DEF OnceInv

\* The recipient and the reaper leave deposits, nonces and counts alone.
LEMMA OthersOnce ==
  ASSUME OnceInv, UNCHANGED <<deposit, seen, writes, forgotten>>
  PROVE  OnceInv'
BY DEF OnceInv, DepositTypes, InSeen

\* No deposit yet.
LEMMA InitOnce ==
  RelayInit => OnceInv
<1> SUFFICES ASSUME RelayInit PROVE OnceInv
  OBVIOUS
<1>1. NoDeposit.r \notin Nonces
  BY RelayConstants DEF NoDeposit
<1>2. DepositTypes
  BY DEF RelayInit, DepositTypes
<1> QED
  BY <1>1, <1>2 DEF RelayInit, OnceInv

\* Every step.
LEMMA StepOnce ==
  OnceInv /\ [RelayNext]_relayVars => OnceInv'
<1> SUFFICES ASSUME OnceInv, [RelayNext]_relayVars PROVE OnceInv'
  OBVIOUS
<1>1. CASE \E d \in Depositors : \E r \in Nonces : DepositNonce(d, r)
  BY <1>1, NonceOnce
<1>2. CASE \E d \in Depositors :
             DepositRate(d) \/ DepositCaps(d) \/ DepositWrite(d) \/ DepositRecord(d)
  BY <1>2, DepositOnce
<1>3. CASE HourPasses \/ RelayRestart
  BY <1>3, ForgetOnce
<1>4. CASE (\E b \in BlobIds : Expire(b) \/ ReapRead(b)) \/ Pickup \/ Ack \/ ReapRemove
  BY <1>4, OthersOnce DEF Expire, ReapRead, Pickup, Ack, ReapRemove
<1>5. CASE UNCHANGED relayVars
  BY <1>5, OthersOnce DEF relayVars
<1> QED
  BY <1>1, <1>2, <1>3, <1>4, <1>5 DEF RelayNext

\* What is stored, under way and remembered agree in every state: checkNonceDedup
\* records a nonce before anything else of the deposit happens.
THEOREM OnceInvariant ==
  RelaySpec => []OnceInv
<1> QED
  BY InitOnce, StepOnce, PTL DEF RelaySpec

\* A signed deposit is stored at most once while its nonce is remembered.
THEOREM ReplayStoresOnceHolds ==
  RelaySpec => []ReplayStoresOnce
<1>1. OnceInv => ReplayStoresOnce
  <2> SUFFICES ASSUME OnceInv, NEW r \in Nonces, writes[r] > 1 PROVE r \in forgotten
    BY DEF ReplayStoresOnce
  <2>1. writes[r] \in Nat
    BY DEF OnceInv, DepositTypes
  <2> QED
    BY <2>1 DEF OnceInv
<1> QED
  BY <1>1, OnceInvariant, PTL
-----------------------------------------------------------------------------
(* What was accepted is kept                                               *)

\* Stored at some time, and for an id that was used once there, read or expired.
StaysStored(r) ==
  /\ writes[r] >= 1
  /\ StoredOnce(BlobOf[r]) => blob[BlobOf[r]] = r \/ r \in fetched \/ r \in lapsed

\* Some deposit of S was stored under b.
Was(b, S) == \E r \in Nonces : r \in S /\ BlobOf[r] = b /\ writes[r] >= 1

Recorded(r) == r \in accepted \/ \E d \in Depositors : deposit[d] = [pc |-> "record", r |-> r]

\* A file's contents were stored under its id; what Ack is about to remove was
\* read, what the reaper is about to remove has expired; and whatever the sender
\* is told, or about to be told, is kept.
KeptInv ==
  /\ blob \in [BlobIds -> Nonces \cup {Nobody}]
  /\ \A b \in BlobIds : blob[b] # Nobody => BlobOf[blob[b]] = b /\ writes[blob[b]] >= 1
  /\ \A b \in picked : Was(b, fetched)
  /\ reaping # Nobody => reaping \in BlobIds /\ Was(reaping, lapsed)
  /\ \A b \in expired : b \in BlobIds /\ blob[b] \in lapsed
  /\ \A r \in Nonces : Recorded(r) => StaysStored(r)

\* An id that was used once has one deposit.
LEMMA OnlyDeposit ==
  ASSUME writes \in [Nonces -> Nat], NEW r \in Nonces, NEW s \in Nonces,
         BlobOf[r] = BlobOf[s], StoredOnce(BlobOf[r]), writes[r] >= 1, writes[s] >= 1
  PROVE  r = s
<1>1. writes[r] + writes[s] > 1
  OBVIOUS
<1> QED
  BY <1>1 DEF StoredOnce

\* Counts only grow, so an id used again stays one used again.
LEMMA OnceBefore ==
  ASSUME writes \in [Nonces -> Nat], writes' \in [Nonces -> Nat],
         \A s \in Nonces : writes'[s] >= writes[s], NEW b, StoredOnce(b)'
  PROVE  StoredOnce(b)
<1> SUFFICES ASSUME NEW r \in Nonces, NEW s \in Nonces, BlobOf[r] = b, BlobOf[s] = b,
                    writes[r] + writes[s] > 1
             PROVE  r = s /\ writes[r] <= 1
  BY DEF StoredOnce
<1>1. /\ writes[r] \in Nat /\ writes[s] \in Nat /\ writes'[r] \in Nat /\ writes'[s] \in Nat
      /\ writes'[r] >= writes[r] /\ writes'[s] >= writes[s]
  OBVIOUS
<1>2. writes'[r] + writes'[s] > 1
  BY <1>1
<1>3. r = s /\ writes'[r] <= 1
  BY <1>2 DEF StoredOnce
<1> QED
  BY <1>1, <1>3

\* Steps of a deposit that write nothing.
LEMMA WaitingKept ==
  ASSUME KeptInv, DepositTypes, NEW d \in Depositors,
         \/ \E r \in Nonces : DepositNonce(d, r)
         \/ DepositRate(d)
         \/ DepositCaps(d)
         \/ DepositRecord(d)
  PROVE  KeptInv'
<1>1. UNCHANGED <<blob, expired, reaping, picked, fetched, lapsed, writes>>
  BY DEF DepositNonce, DepositRate, DepositCaps, DepositRecord
<1>2. \A r \in Nonces : StaysStored(r)' <=> StaysStored(r)
  BY <1>1 DEF StaysStored, StoredOnce
<1>3. \A r \in Nonces : Recorded(r)' => Recorded(r)
  <2> SUFFICES ASSUME NEW r \in Nonces, Recorded(r)' PROVE Recorded(r)
    OBVIOUS
  <2>0. deposit \in [Depositors -> [pc : UnderWay, r : Nonces] \cup {NoDeposit}]
    BY DEF DepositTypes
  <2>1. CASE DepositRecord(d)
    <3>1. /\ accepted' = accepted \cup {deposit[d].r}
          /\ deposit' = [deposit EXCEPT ![d] = NoDeposit] /\ deposit[d].pc = "record"
      BY <2>1 DEF DepositRecord, StepTo
    <3>2. deposit[d] = [pc |-> "record", r |-> deposit[d].r]
      BY <3>1, <2>0 DEF NoDeposit
    <3>3. \A e \in Depositors : deposit'[e] = [pc |-> "record", r |-> r] => deposit[e] = deposit'[e]
      BY <3>1, <2>0 DEF NoDeposit
    <3> QED
      BY <3>1, <3>2, <3>3 DEF Recorded
  <2>2. CASE (\E n \in Nonces : DepositNonce(d, n)) \/ DepositRate(d) \/ DepositCaps(d)
    <3>1. accepted' = accepted
      BY <2>2 DEF DepositNonce, DepositRate, DepositCaps
    <3>2. \/ deposit' = deposit
          \/ \E q : deposit' = [deposit EXCEPT ![d] = q] /\ q.pc # "record"
      BY <2>2, <2>0 DEF DepositNonce, DepositRate, DepositCaps, StepTo, NoDeposit
    <3>3. \A e \in Depositors : deposit'[e] = [pc |-> "record", r |-> r] => deposit[e] = deposit'[e]
      BY <3>2, <2>0
    <3> QED
      BY <3>1, <3>3 DEF Recorded
  <2> QED
    BY <2>1, <2>2
<1> QED
  BY <1>1, <1>2, <1>3 DEF KeptInv, Was

\* A deposit is written over what has its id, which is used again by that.
LEMMA WriteKept ==
  ASSUME KeptInv, DepositTypes, DepositTypes', NEW d \in Depositors, DepositWrite(d)
  PROVE  KeptInv'
<1> DEFINE n == deposit[d].r
           b == BlobOf[n]
<1>0. /\ deposit \in [Depositors -> [pc : UnderWay, r : Nonces] \cup {NoDeposit}]
      /\ writes \in [Nonces -> Nat] /\ writes' \in [Nonces -> Nat]
      /\ blob \in [BlobIds -> Nonces \cup {Nobody}]
  BY DEF DepositTypes, KeptInv
<1>1. n \in Nonces /\ b \in BlobIds
  BY <1>0 DEF DepositWrite, NoDeposit, BlobIds
<1>2. /\ blob' = [blob EXCEPT ![b] = n] /\ expired' = expired \ {b}
      /\ writes' = [writes EXCEPT ![n] = @ + 1]
      /\ deposit' = [deposit EXCEPT ![d] = [deposit[d] EXCEPT !.pc = "record"]]
      /\ UNCHANGED <<reaping, picked, fetched, accepted, lapsed>>
  BY DEF DepositWrite, StepTo
<1>3. /\ writes'[n] >= 1 /\ \A s \in Nonces : writes'[s] >= writes[s]
  BY <1>0, <1>1, <1>2
<1>4. \A c, S : Was(c, S) => Was(c, S)'
  <2> SUFFICES ASSUME NEW c, NEW S, Was(c, S)
               PROVE  \E r \in Nonces : r \in S /\ BlobOf[r] = c /\ writes'[r] >= 1
    BY DEF Was
  <2>1. PICK r \in Nonces : r \in S /\ BlobOf[r] = c /\ writes[r] >= 1
    BY DEF Was
  <2> QED
    BY <2>1, <1>0, <1>3
<1>5. blob' \in [BlobIds -> Nonces \cup {Nobody}] /\ blob'[b] = n
      /\ \A c \in BlobIds \ {b} : blob'[c] = blob[c]
  BY <1>0, <1>1, <1>2
<1>6. \A c \in BlobIds : blob'[c] # Nobody => BlobOf[blob'[c]] = c /\ writes'[blob'[c]] >= 1
  <2> SUFFICES ASSUME NEW c \in BlobIds, blob'[c] # Nobody
               PROVE  BlobOf[blob'[c]] = c /\ writes'[blob'[c]] >= 1
    OBVIOUS
  <2>1. CASE c = b
    BY <2>1, <1>5, <1>3
  <2>2. CASE c # b
    BY <2>2, <1>5, <1>3, <1>0 DEF KeptInv
  <2> QED
    BY <2>1, <2>2
<1>7. \A r \in Nonces : Recorded(r)' => r = n \/ Recorded(r)
  <2> SUFFICES ASSUME NEW r \in Nonces, NEW e \in Depositors,
                      deposit'[e] = [pc |-> "record", r |-> r], r # n
               PROVE  deposit[e] = [pc |-> "record", r |-> r]
    BY <1>2 DEF Recorded
  <2>1. CASE e = d
    <3>1. deposit'[e].r = n
      BY <2>1, <1>2, <1>0, <1>1 DEF NoDeposit
    <3> QED
      BY <3>1
  <2>2. CASE e # d
    BY <2>2, <1>2, <1>0
  <2> QED
    BY <2>1, <2>2
<1>8. ASSUME NEW r \in Nonces, Recorded(r)' PROVE StaysStored(r)'
  <2>1. CASE r = n
    BY <2>1, <1>3, <1>5 DEF StaysStored
  <2>2. CASE r # n
    <3>1. StaysStored(r)
      BY <2>2, <1>7, <1>8 DEF KeptInv
    <3>2. writes'[r] >= 1
      BY <3>1, <1>0, <1>3 DEF StaysStored
    <3>3. ASSUME StoredOnce(BlobOf[r])'
          PROVE  blob'[BlobOf[r]] = r \/ r \in fetched' \/ r \in lapsed'
      <4>1. StoredOnce(BlobOf[r])
        BY <3>3, <1>0, <1>3, OnceBefore
      <4>2. BlobOf[r] # b
        <5>1. ASSUME BlobOf[r] = b PROVE FALSE
          <6>1. writes'[r] + writes'[n] > 1
            BY <1>0, <1>1, <1>3, <3>2
          <6> QED
            BY <6>1, <5>1, <3>3, <2>2, <1>1 DEF StoredOnce
        <5> QED
          BY <5>1
      <4>3. BlobOf[r] \in BlobIds
        BY DEF BlobIds
      <4> QED
        BY <3>1, <4>1, <4>2, <4>3, <1>2, <1>5 DEF StaysStored
    <3> QED
      BY <3>2, <3>3 DEF StaysStored
  <2> QED
    BY <2>1, <2>2
<1>9. \A c \in expired' : c \in BlobIds /\ blob'[c] \in lapsed'
  BY <1>2, <1>5 DEF KeptInv
<1>10. /\ \A c \in picked : \E r \in Nonces : r \in fetched /\ BlobOf[r] = c /\ writes'[r] >= 1
       /\ reaping # Nobody =>
            /\ reaping \in BlobIds
            /\ \E r \in Nonces : r \in lapsed /\ BlobOf[r] = reaping /\ writes'[r] >= 1
  <2>1. \A c, S : Was(c, S) => \E r \in Nonces : r \in S /\ BlobOf[r] = c /\ writes'[r] >= 1
    BY <1>4, Zenon DEF Was
  <2>2. (\A c \in picked : Was(c, fetched))
        /\ (reaping # Nobody => reaping \in BlobIds /\ Was(reaping, lapsed))
    BY DEF KeptInv
  <2> QED
    BY <2>1, <2>2
<1> QED
  BY <1>5, <1>6, <1>8, <1>9, <1>10, <1>2 DEF KeptInv, Was

\* Removing the file of an id from which a deposit of S was taken: any other
\* deposit of the id makes it one used again.
LEMMA RemoveKept ==
  ASSUME KeptInv, DepositTypes, NEW B,
         \A b \in B : b \in BlobIds /\ (Was(b, fetched) \/ Was(b, lapsed)),
         blob' = [b \in BlobIds |-> IF b \in B THEN Nobody ELSE blob[b]],
         expired' = expired \ B,
         UNCHANGED <<deposit, fetched, accepted, lapsed, writes>>,
         picked' = picked \/ picked' = {},
         reaping' = reaping \/ reaping' = Nobody
  PROVE  KeptInv'
<1>0. writes \in [Nonces -> Nat] /\ blob \in [BlobIds -> Nonces \cup {Nobody}]
  BY DEF DepositTypes, KeptInv
<1>1. blob' \in [BlobIds -> Nonces \cup {Nobody}]
  BY <1>0
<1>2. \A b \in BlobIds : blob'[b] # Nobody => BlobOf[blob'[b]] = b /\ writes'[blob'[b]] >= 1
  BY DEF KeptInv
<1>3. \A c, S : Was(c, S)' <=> Was(c, S)
  BY DEF Was
<1>4. \A r \in Nonces : Recorded(r)' <=> Recorded(r)
  BY DEF Recorded
<1>5. ASSUME NEW r \in Nonces, Recorded(r) PROVE StaysStored(r)'
  <2>1. StaysStored(r) /\ BlobOf[r] \in BlobIds
    BY <1>5 DEF KeptInv, BlobIds
  <2>2. StoredOnce(BlobOf[r])' <=> StoredOnce(BlobOf[r])
    BY DEF StoredOnce
  <2>3. ASSUME StoredOnce(BlobOf[r])
        PROVE  blob'[BlobOf[r]] = r \/ r \in fetched \/ r \in lapsed
    <3>1. CASE BlobOf[r] \notin B
      BY <3>1, <2>1, <2>3 DEF StaysStored
    <3>2. CASE BlobOf[r] \in B
      <4>1. PICK s \in Nonces : s \in fetched \cup lapsed /\ BlobOf[s] = BlobOf[r] /\ writes[s] >= 1
        BY <3>2 DEF Was
      <4>2. r = s
        BY <4>1, <2>1, <2>3, <1>0, OnlyDeposit DEF StaysStored
      <4> QED
        BY <4>1, <4>2
    <3> QED
      BY <3>1, <3>2
  <2> QED
    BY <2>1, <2>2, <2>3 DEF StaysStored
<1>6. \A b \in expired' : b \in BlobIds /\ blob'[b] \in lapsed'
  BY DEF KeptInv
<1>7. (\A b \in picked' : Was(b, fetched)')
      /\ (reaping' # Nobody => reaping' \in BlobIds /\ Was(reaping, lapsed)')
  <2>1. \A b \in picked' : Was(b, fetched)
    BY DEF KeptInv
  <2>2. reaping' # Nobody => reaping' \in BlobIds /\ Was(reaping', lapsed)
    BY DEF KeptInv
  <2> QED
    BY <2>1, <2>2 DEF Was
<1> QED
  BY <1>1, <1>2, <1>4, <1>5, <1>6, <1>7 DEF KeptInv, Was

\* An acknowledgement takes away what was picked up.
LEMMA AckKept ==
  ASSUME KeptInv, DepositTypes, Ack
  PROVE  KeptInv'
<1> DEFINE B == picked \cap BlobIds
<1>1. blob' = [b \in BlobIds |-> IF b \in B THEN Nobody ELSE blob[b]]
  BY DEF Ack, AckLeaves
<1>2. expired' = expired \ B
  BY DEF Ack, KeptInv
<1>3. \A b \in B : b \in BlobIds /\ (Was(b, fetched) \/ Was(b, lapsed))
  BY DEF KeptInv
<1>4. UNCHANGED <<deposit, fetched, accepted, lapsed, writes>> /\ picked' = {}
      /\ reaping' = reaping
  BY DEF Ack
<1> HIDE DEF B
<1> QED
  BY <1>1, <1>2, <1>3, <1>4, RemoveKept

\* The reaper takes away one expired blob.
LEMMA ReapKept ==
  ASSUME KeptInv, DepositTypes, ReapRemove
  PROVE  KeptInv'
<1> DEFINE B == {reaping}
<1>0. blob \in [BlobIds -> Nonces \cup {Nobody}]
  BY DEF KeptInv
<1>1. blob' = [b \in BlobIds |-> IF b \in B THEN Nobody ELSE blob[b]]
  BY <1>0 DEF ReapRemove
<1>2. expired' = expired \ B
  BY DEF ReapRemove
<1>3. \A b \in B : b \in BlobIds /\ (Was(b, fetched) \/ Was(b, lapsed))
  BY DEF KeptInv, ReapRemove
<1>4. UNCHANGED <<deposit, fetched, accepted, lapsed, writes>> /\ picked' = picked
      /\ reaping' = Nobody
  BY DEF ReapRemove
<1> HIDE DEF B
<1> QED
  BY <1>1, <1>2, <1>3, <1>4, RemoveKept

\* What is read or expires is noted; nothing is removed.
LEMMA NotedKept ==
  ASSUME KeptInv, DepositTypes,
         Pickup \/ (\E b \in BlobIds : Expire(b) \/ ReapRead(b))
  PROVE  KeptInv'
<1>0. blob \in [BlobIds -> Nonces \cup {Nobody}]
      /\ \A b \in BlobIds : blob[b] # Nobody => BlobOf[blob[b]] = b /\ writes[blob[b]] >= 1
  BY DEF KeptInv
<1>1. UNCHANGED <<blob, deposit, accepted, writes>>
      /\ fetched \subseteq fetched' /\ lapsed \subseteq lapsed'
  BY DEF Pickup, Expire, ReapRead
<1>2. \A r \in Nonces : Recorded(r)' => StaysStored(r)'
  <2> SUFFICES ASSUME NEW r \in Nonces, Recorded(r)' PROVE StaysStored(r)'
    OBVIOUS
  <2>1. StaysStored(r)
    BY <1>1 DEF KeptInv, Recorded
  <2> QED
    BY <2>1, <1>1 DEF StaysStored, StoredOnce
<1>3. \A b \in BlobIds : blob[b] # Nobody => blob[b] \in Nonces
  BY <1>0
<1>4. \A b \in picked' : \E r \in Nonces : r \in fetched' /\ BlobOf[r] = b /\ writes[r] >= 1
  <2>1. CASE Pickup
    <3> SUFFICES ASSUME NEW b \in picked'
                 PROVE  \E r \in Nonces : r \in fetched' /\ BlobOf[r] = b /\ writes[r] >= 1
      OBVIOUS
    <3>1. CASE b \in picked
      BY <3>1, <1>1 DEF KeptInv, Was
    <3>2. CASE b \in Stored \ expired
      <4>1. blob[b] \in fetched' /\ blob[b] # Nobody /\ b \in BlobIds
        BY <3>2, <2>1 DEF Pickup, Stored
      <4> QED
        BY <4>1, <1>0, <1>3
    <3> QED
      BY <3>1, <3>2, <2>1 DEF Pickup
  <2>2. CASE \E b \in BlobIds : Expire(b) \/ ReapRead(b)
    BY <2>2, <1>1 DEF KeptInv, Was, Expire, ReapRead
  <2> QED
    BY <2>1, <2>2
<1>5. reaping' # Nobody =>
        reaping' \in BlobIds /\ \E r \in Nonces : r \in lapsed' /\ BlobOf[r] = reaping' /\ writes[r] >= 1
  <2>1. CASE reaping' = reaping
    BY <2>1, <1>1 DEF KeptInv, Was
  <2>2. CASE \E b \in BlobIds : ReapRead(b)
    <3>1. PICK b \in BlobIds : ReapRead(b)
      BY <2>2
    <3>2. reaping' = b /\ blob[b] # Nobody /\ blob[b] \in lapsed'
      BY <3>1, <1>1 DEF ReapRead, Stored, KeptInv
    <3> QED
      BY <3>2, <1>0, <1>3
  <2> QED
    BY <2>1, <2>2 DEF Pickup, Expire
<1>6. \A b \in expired' : b \in BlobIds /\ blob'[b] \in lapsed'
  BY <1>1 DEF KeptInv, Pickup, Expire, ReapRead
<1>7. (\A b \in picked' : Was(b, fetched)')
      /\ (reaping' # Nobody => reaping' \in BlobIds /\ Was(reaping, lapsed)')
  BY <1>1, <1>4, <1>5 DEF Was
<1> QED
  BY <1>0, <1>1, <1>2, <1>6, <1>7 DEF KeptInv

\* Memory is lost, files are not.
LEMMA ForgetKept ==
  ASSUME KeptInv, DepositTypes, HourPasses \/ RelayRestart
  PROVE  KeptInv'
<1>1. UNCHANGED <<blob, expired, picked, fetched, accepted, lapsed, writes>>
      /\ (deposit' = deposit \/ deposit' = [d \in Depositors |-> NoDeposit])
      /\ (reaping' = reaping \/ reaping' = Nobody)
  BY DEF HourPasses, RelayRestart
<1>2. \A r \in Nonces : Recorded(r)' => Recorded(r)
  BY <1>1 DEF Recorded, NoDeposit
<1>3. \A r \in Nonces : StaysStored(r)' <=> StaysStored(r)
  BY <1>1 DEF StaysStored, StoredOnce
<1> QED
  BY <1>1, <1>2, <1>3 DEF KeptInv, Was

\* Every step.
LEMMA StepKept ==
  KeptInv /\ DepositTypes /\ DepositTypes' /\ [RelayNext]_relayVars => KeptInv'
<1> SUFFICES ASSUME KeptInv, DepositTypes, DepositTypes', [RelayNext]_relayVars
             PROVE  KeptInv'
  OBVIOUS
<1>1. CASE \E d \in Depositors : \/ \E r \in Nonces : DepositNonce(d, r)
                                 \/ DepositRate(d)
                                 \/ DepositCaps(d)
                                 \/ DepositRecord(d)
  BY <1>1, WaitingKept
<1>2. CASE \E d \in Depositors : DepositWrite(d)
  BY <1>2, WriteKept
<1>3. CASE HourPasses \/ RelayRestart
  BY <1>3, ForgetKept
<1>4. CASE (\E b \in BlobIds : Expire(b) \/ ReapRead(b)) \/ Pickup
  BY <1>4, NotedKept
<1>5. CASE Ack
  BY <1>5, AckKept
<1>6. CASE ReapRemove
  BY <1>6, ReapKept
<1>7. CASE UNCHANGED relayVars
  BY <1>7 DEF relayVars, KeptInv, Was, Recorded, StaysStored, StoredOnce
<1> QED
  BY <1>1, <1>2, <1>3, <1>4, <1>5, <1>6, <1>7 DEF RelayNext

\* What the sender was told is stored is there until the recipient has read it or
\* it has expired, for blob ids that are not deposited again.
THEOREM AcceptedIsKeptHolds ==
  RelaySpec => []AcceptedIsKept
<1>1. RelayInit => KeptInv
  BY DEF RelayInit, KeptInv, Was, Recorded, NoDeposit
<1>2. KeptInv /\ accepted \subseteq Nonces => AcceptedIsKept
  BY DEF KeptInv, AcceptedIsKept, Recorded, StaysStored
<1>3. OnceInv => DepositTypes
  BY DEF OnceInv
<1>4. RelayInit => accepted \subseteq Nonces
  BY DEF RelayInit
<1>5. accepted \subseteq Nonces /\ DepositTypes /\ [RelayNext]_relayVars
      => (accepted \subseteq Nonces)'
  <2> SUFFICES ASSUME accepted \subseteq Nonces, DepositTypes, [RelayNext]_relayVars
               PROVE  accepted' \subseteq Nonces
    OBVIOUS
  <2>1. CASE \E d \in Depositors : DepositRecord(d)
    BY <2>1 DEF DepositRecord, DepositTypes, NoDeposit
  <2>2. CASE accepted' = accepted
    BY <2>2
  <2> QED
    BY <2>1, <2>2 DEF RelayNext, relayVars, DepositNonce, DepositRate, DepositCaps,
         DepositWrite, Expire, ReapRead, Pickup, Ack, ReapRemove, HourPasses, RelayRestart
<1> QED
  BY <1>1, <1>2, <1>3, <1>4, <1>5, OnceInvariant, StepKept, PTL DEF RelaySpec
-----------------------------------------------------------------------------
\* Deposits that have been told there is room and have yet to write.
Writers == {d \in Depositors : deposit[d].pc = "write"}

\* The room they were told of was there when the last of them looked, so what is
\* stored and what is on its way together exceed the cap by less than there are
\* depositors.
CapInv ==
  /\ blob = [b \in BlobIds |-> blob[b]]
  /\ deposit = [d \in Depositors |-> deposit[d]]
  /\ IsFiniteSet(Stored)
  /\ Cardinality(Stored) + Cardinality(Writers) <= Capacity + Cardinality(Depositors) - 1

\* Deposits under way are as many as there are depositors, at most.
LEMMA WritersFinite ==
  /\ IsFiniteSet(Writers) /\ Cardinality(Writers) \in Nat
  /\ Cardinality(Depositors) \in Nat \ {0} /\ Cardinality(Writers) <= Cardinality(Depositors)
<1>1. Writers \in SUBSET Depositors
  BY DEF Writers
<1>2. IsFiniteSet(Writers) /\ Cardinality(Writers) <= Cardinality(Depositors)
  BY <1>1, DepositorsAssumption, FS_Subset
<1>3. Cardinality(Depositors) \in Nat /\ Cardinality(Depositors) # 0
  BY DepositorsAssumption, FS_CardinalityType, FS_EmptySet
<1> QED
  BY <1>2, <1>3, FS_CardinalityType

\* Steps that store nothing and let nobody write.
LEMMA CapFalls ==
  ASSUME CapInv, Stored' \subseteq Stored, Writers' \subseteq Writers,
         blob' = [b \in BlobIds |-> blob'[b]], deposit' = [d \in Depositors |-> deposit'[d]]
  PROVE  CapInv'
<1>1. IsFiniteSet(Stored') /\ Cardinality(Stored') <= Cardinality(Stored)
  BY FS_Subset DEF CapInv
<1>2. Cardinality(Writers') <= Cardinality(Writers) /\ IsFiniteSet(Writers')
  BY FS_Subset, WritersFinite
<1>3. /\ Cardinality(Stored) \in Nat /\ Cardinality(Stored') \in Nat
      /\ Cardinality(Writers') \in Nat
  BY <1>1, <1>2, FS_CardinalityType DEF CapInv
<1>4. Cardinality(Stored') + Cardinality(Writers') <= Capacity + Cardinality(Depositors) - 1
  BY <1>1, <1>2, <1>3, WritersFinite, RelayConstants DEF CapInv
<1> QED
  BY <1>1, <1>4 DEF CapInv

\* The caps are looked up.
LEMMA CapLooked ==
  ASSUME CapInv, NEW d \in Depositors, DepositCaps(d)
  PROVE  CapInv'
<1>0. /\ blob' = blob /\ Stored' = Stored /\ deposit' = [e \in Depositors |-> deposit'[e]]
      /\ \A e \in Depositors \ {d} : deposit'[e] = deposit[e]
      /\ Writers' = {e \in Depositors : deposit'[e].pc = "write"}
  BY DEF DepositCaps, StepTo, CapInv, Stored, Writers
<1>1. CASE HasRoom
  <2>1. Cardinality(Stored) \in Nat /\ Cardinality(Stored) + 1 <= Capacity
    BY <1>1, FS_CardinalityType DEF HasRoom, CapInv
  <2>2. Writers' \in SUBSET Depositors
    BY <1>0
  <2>3. Cardinality(Writers') <= Cardinality(Depositors) /\ IsFiniteSet(Writers')
    BY <2>2, DepositorsAssumption, FS_Subset
  <2>4. Cardinality(Writers') \in Nat
    BY <2>3, FS_CardinalityType
  <2>5. Cardinality(Stored') + Cardinality(Writers') <= Capacity + Cardinality(Depositors) - 1
    BY <1>0, <2>1, <2>3, <2>4, WritersFinite, RelayConstants
  <2> QED
    BY <1>0, <2>5 DEF CapInv
<1>2. CASE ~HasRoom
  <2>1. deposit'[d].pc = "idle"
    BY <1>2 DEF DepositCaps, StepTo, NoDeposit, CapInv
  <2>2. Writers' \subseteq Writers
    BY <1>0, <2>1 DEF Writers
  <2>3. blob' = [b \in BlobIds |-> blob'[b]]
    BY <1>0 DEF CapInv
  <2> QED
    BY <1>0, <2>2, <2>3, CapFalls
<1> QED
  BY <1>1, <1>2

\* What is written is one blob more, of one depositor who is done.
LEMMA CapWritten ==
  ASSUME CapInv, NEW d \in Depositors, DepositWrite(d)
  PROVE  CapInv'
<1> DEFINE b == BlobOf[deposit[d].r]
<1>1. /\ blob' = [a \in BlobIds |-> blob'[a]]
      /\ \A a \in BlobIds \ {b} : blob'[a] = blob[a]
  BY DEF DepositWrite, CapInv
<1>2. Stored' \in SUBSET (Stored \cup {b})
  BY <1>1 DEF Stored
<1>3. d \in Writers /\ Writers' = Writers \ {d} /\ deposit' = [e \in Depositors |-> deposit'[e]]
  BY DEF DepositWrite, StepTo, Writers, CapInv
<1> HIDE DEF b
<1>4. /\ IsFiniteSet(Stored \cup {b}) /\ Cardinality(Stored) \in Nat
      /\ Cardinality(Stored \cup {b}) <= Cardinality(Stored) + 1
  <2>1. IsFiniteSet(Stored) /\ Cardinality(Stored) \in Nat
    BY FS_CardinalityType DEF CapInv
  <2> QED
    BY <2>1, FS_AddElement, SMTT(30)
<1>5. /\ IsFiniteSet(Stored') /\ Cardinality(Stored') <= Cardinality(Stored \cup {b})
      /\ Cardinality(Stored') \in Nat /\ Cardinality(Stored \cup {b}) \in Nat
  <2>1. IsFiniteSet(Stored') /\ Cardinality(Stored') <= Cardinality(Stored \cup {b})
    BY <1>2, <1>4, FS_Subset
  <2> QED
    BY <1>4, <2>1, FS_CardinalityType
<1>6. Cardinality(Writers') = Cardinality(Writers) - 1
  BY <1>3, WritersFinite, FS_RemoveElement
<1>7. Cardinality(Stored') + Cardinality(Writers') <= Capacity + Cardinality(Depositors) - 1
  BY <1>4, <1>5, <1>6, WritersFinite, RelayConstants DEF CapInv
<1> QED
  BY <1>1, <1>3, <1>5, <1>7 DEF CapInv

\* Every other step.
LEMMA CapOthers ==
  ASSUME CapInv, DepositTypes,
         \/ \E d \in Depositors : \/ \E r \in Nonces : DepositNonce(d, r)
                                  \/ DepositRate(d)
                                  \/ DepositRecord(d)
         \/ \E b \in BlobIds : Expire(b) \/ ReapRead(b)
         \/ Pickup \/ Ack \/ ReapRemove \/ HourPasses \/ RelayRestart \/ UNCHANGED relayVars
  PROVE  CapInv'
<1>1. CASE \E d \in Depositors : \/ \E r \in Nonces : DepositNonce(d, r)
                                 \/ DepositRate(d)
                                 \/ DepositRecord(d)
  <2> PICK d \in Depositors : \/ \E r \in Nonces : DepositNonce(d, r)
                              \/ DepositRate(d)
                              \/ DepositRecord(d)
    BY <1>1
  <2>1. /\ blob' = blob
        /\ deposit' = deposit \/ \E x : x.pc # "write" /\ deposit' = [deposit EXCEPT ![d] = x]
    <3>1. CASE \E r \in Nonces : DepositNonce(d, r)
      BY <3>1 DEF DepositNonce, StepTo
    <3>2. CASE DepositRate(d)
      <4>1. [deposit[d] EXCEPT !.pc = "caps"].pc = "caps"
        BY <3>2 DEF DepositRate, DepositTypes, NoDeposit
      <4> QED
        BY <3>2, <4>1 DEF DepositRate, StepTo, NoDeposit
    <3>3. CASE DepositRecord(d)
      BY <3>3 DEF DepositRecord, StepTo, NoDeposit
    <3> QED
      BY <3>1, <3>2, <3>3
  <2>2. Stored' = Stored /\ blob' = [b \in BlobIds |-> blob'[b]]
    BY <2>1 DEF Stored, CapInv
  <2>3. Writers' \subseteq Writers /\ deposit' = [e \in Depositors |-> deposit'[e]]
    BY <2>1 DEF Writers, CapInv
  <2> QED
    BY <2>2, <2>3, CapFalls
<1>2. ASSUME \A b \in BlobIds : blob'[b] \in {blob[b], Nobody},
             blob' = [b \in BlobIds |-> blob'[b]],
             deposit' \in {deposit, [d \in Depositors |-> NoDeposit]}
      PROVE  CapInv'
  <2>1. Stored' \subseteq Stored
    BY <1>2 DEF Stored
  <2>2. Writers' \subseteq Writers /\ deposit' = [d \in Depositors |-> deposit'[d]]
    BY <1>2 DEF Writers, NoDeposit, CapInv
  <2> QED
    BY <1>2, <2>1, <2>2, CapFalls
<1>3. CASE /\ blob' = blob
           /\ deposit' \in {deposit, [d \in Depositors |-> NoDeposit]}
  <2>1. \A b \in BlobIds : blob'[b] \in {blob[b], Nobody}
    BY <1>3
  <2>2. blob' = [b \in BlobIds |-> blob'[b]]
    BY <1>3 DEF CapInv
  <2> QED
    BY <1>2, <1>3, <2>1, <2>2
<1>4. CASE \/ \E b \in BlobIds : Expire(b) \/ ReapRead(b)
           \/ Pickup \/ HourPasses \/ RelayRestart \/ UNCHANGED relayVars
  BY <1>3, <1>4 DEF Expire, ReapRead, Pickup, HourPasses, RelayRestart, relayVars
<1>5. CASE Ack
  BY <1>2, <1>5 DEF Ack, AckLeaves
<1>6. CASE ReapRemove
  <2>1. /\ blob' = [b \in BlobIds |-> blob'[b]]
        /\ \A b \in BlobIds : blob'[b] \in {blob[b], Nobody}
    BY <1>6 DEF ReapRemove, CapInv
  <2> QED
    BY <1>2, <1>6, <2>1 DEF ReapRemove
<1> QED
  BY <1>1, <1>4, <1>5, <1>6

\* The caps are looked up without a lock (relay.go, Deposit), so deposits that
\* look together exceed them: by one less than there are of them and no further,
\* whatever is read, acknowledged, reaped, replayed or restarted meanwhile.
THEOREM CapacityHolds == RelaySpec => []CapacityBounded
<1>1. RelayInit => CapInv
  <2> SUFFICES ASSUME RelayInit
               PROVE  CapInv
    OBVIOUS
  <2>1. Stored = {} /\ Writers = {}
    BY DEF RelayInit, Stored, Writers, NoDeposit
  <2> QED
    BY <2>1, FS_EmptySet, WritersFinite, RelayConstants DEF RelayInit, CapInv
<1>2. CapInv /\ OnceInv /\ [RelayNext]_relayVars => CapInv'
  BY CapLooked, CapWritten, CapOthers DEF RelayNext, OnceInv
<1>3. CapInv => CapacityBounded
  <2> SUFFICES ASSUME CapInv
               PROVE  CapacityBounded
    OBVIOUS
  <2>1. Cardinality(Stored) \in Nat
    BY FS_CardinalityType DEF CapInv
  <2> QED
    BY <2>1, WritersFinite, RelayConstants DEF CapInv, CapacityBounded
<1> QED
  BY <1>1, <1>2, <1>3, OnceInvariant, PTL DEF RelaySpec
=============================================================================
