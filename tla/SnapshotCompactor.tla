-------------------------- MODULE SnapshotCompactor --------------------------
(***************************************************************************)
(* backend/services/sync: Compactor.Run (snapshot.go), the version that    *)
(* SnapshotDB gives an image (dbio.go), and Bootstrap (bootstrap.go), over *)
(* one bucket: the snapshot lease, the blobs cluster/snapshot/<v>.db.enc,  *)
(* the pointer latest.json and the changesets nodes/*/changes/<v>.bin.     *)
(*                                                                         *)
(* A caller is one Compactor: the periodic one of a box, or the one that   *)
(* POST /api/admin/backup builds for a single Run, under the same node ID. *)
(* Every request to the bucket is a step.                                  *)
(*                                                                         *)
(* Who writes changesets and merges databases is outside these files.  As  *)
(* DBSnapshot and Bootstrap take it, the changes of the cluster form one   *)
(* series 1, 2, ..., change k is changeset k, and a database at k holds    *)
(* the changes 1..k.  Node databases may be behind the series.             *)
(***************************************************************************)
EXTENDS LeaseObject

CONSTANTS
  Node,       \* the node ID of each compactor: the holder ID of its lease
  MaxChange,  \* bound: changes made
  Joining,    \* a node bootstraps from the bucket
  VersionOf,  \* the version SnapshotDB reports for a database at k
  Atomic,     \* the DBSnapshot takes image and version of one state
  Faults      \* what may happen: "expiry", "network", "crash", and "blind",
              \* a GET of latest.json that fails

ASSUME CompactorConstants ==
  /\ Node \in [Callers -> Holders]
  /\ MaxChange \in Nat
  /\ Joining \in BOOLEAN
  /\ Atomic \in BOOLEAN
  /\ VersionOf \in [1..MaxChange -> Nat \ {0}]
  /\ \A j, k \in 1..MaxChange : VersionOf[j] = VersionOf[k] => j = k

Versions == {VersionOf[k] : k \in 1..MaxChange}

VARIABLES
  made,      \* how many changes the cluster has made
  db,        \* the database of each node holds the changes 1..db[n]
  changes,   \* changesets in the bucket
  blobs,     \* per version, the database a snapshot blob holds; 0 when none
  latest,    \* the version latest.json names; 0 when there is none
  pc,        \* where each Run is
  fence,     \* the fence its lease was acquired with
  lastFence, \* Compactor.lastSeenFence
  image,     \* the database it captured
  version,   \* and the version it was reported with
  doomed,    \* the changesets its prune has still to delete
  boot,      \* where Bootstrap is
  base,      \* the snapshotVersion it goes by
  have,      \* the changes it has installed or replayed
  owed       \* history: how many changes were made when it began

runVars   == <<pc, fence, lastFence, image, version, doomed>>
storeVars == <<changes, blobs, latest>>
bootVars  == <<boot, base, have, owed>>
vars == <<doc, put, phase, stray, made, db, changes, blobs, latest, pc, fence,
          lastFence, image, version, doomed, boot, base, have, owed>>

PCs == {"idle", "acquiring", "capture", "version", "check", "blob", "latest",
        "list", "prune", "release", "releasing"}

TypeOK ==
  /\ doc \in Docs
  /\ put \in [Callers -> [Threads -> Puts]]
  /\ phase \in [Callers -> [Threads -> Phases]]
  /\ stray \subseteq Puts
  /\ made \in 0..MaxChange
  /\ db \in [Holders -> 0..MaxChange]
  /\ changes \subseteq 1..MaxChange
  /\ blobs \in [Versions -> 0..MaxChange]
  /\ latest \in Versions \cup {0}
  /\ pc \in [Callers -> PCs]
  /\ fence \in [Callers -> 0..MaxFence]
  /\ lastFence \in [Callers -> 0..MaxFence]
  /\ image \in [Callers -> 0..MaxChange]
  /\ version \in [Callers -> Versions \cup {0}]
  /\ doomed \in [Callers -> SUBSET (1..MaxChange)]
  /\ boot \in {"idle", "blob", "list", "done"}
  /\ base \in Versions \cup {0}
  /\ have \subseteq 1..MaxChange
  /\ owed \in 0..MaxChange

Init ==
  /\ doc = FreeDoc(0)
  /\ put = [c \in Callers |-> [t \in Threads |-> NoPut(c)]]
  /\ phase = [c \in Callers |-> [t \in Threads |-> "none"]]
  /\ stray = {}
  /\ made = 0
  /\ db = [n \in Holders |-> 0]
  /\ changes = {}
  /\ blobs = [v \in Versions |-> 0]
  /\ latest = 0
  /\ pc = [c \in Callers |-> "idle"]
  /\ fence = [c \in Callers |-> 0]
  /\ lastFence = [c \in Callers |-> 0]
  /\ image = [c \in Callers |-> 0]
  /\ version = [c \in Callers |-> 0]
  /\ doomed = [c \in Callers |-> {}]
  /\ boot = "idle"
  /\ base = 0
  /\ have = {}
  /\ owed = 0

Goto(c, l) == pc' = [pc EXCEPT ![c] = l]

\* Run is over, and its local variables with it.
Return(c) ==
  /\ Goto(c, "idle")
  /\ fence' = [fence EXCEPT ![c] = 0]
  /\ image' = [image EXCEPT ![c] = 0]
  /\ version' = [version EXCEPT ![c] = 0]
  /\ doomed' = [doomed EXCEPT ![c] = {}]
-----------------------------------------------------------------------------
(* The cluster's changes (external)                                        *)

\* A node makes a change on top of all it has to have, and uploads it.
Change(n) ==
  /\ made < MaxChange
  /\ db[n] = made
  /\ made' = made + 1
  /\ db' = [db EXCEPT ![n] = made + 1]
  /\ changes' = changes \cup {made + 1}
  /\ UNCHANGED <<leaseVars, blobs, latest, runVars, bootVars>>

\* A node merges what it has not got yet.
CatchUp(n) ==
  /\ db[n] < made
  /\ db' = [db EXCEPT ![n] = made]
  /\ UNCHANGED <<leaseVars, made, storeVars, runVars, bootVars>>
-----------------------------------------------------------------------------
(* Compactor.Run                                                           *)

\* Step 1, the GET of Acquire.  A lease held by another node ends the Run.
Start(c) ==
  /\ pc[c] = "idle"
  /\ doc.fence < MaxFence
  /\ \E expired \in BOOLEAN :
       /\ expired => "expiry" \in Faults
       /\ ~Refused(doc, Node[c], expired)
  /\ Send(c, "main", AcquirePut(c, Node[c], doc))
  /\ Goto(c, "acquiring")
  /\ UNCHANGED <<made, db, storeVars, fence, lastFence, image, version, doomed, bootVars>>

\* Its answer, and the first fencing check (step 2).
Acquired(c) ==
  /\ pc[c] = "acquiring"
  /\ phase[c]["main"] \in {"served", "refused"}
  /\ Finish(c, {"main"})
  /\ LET f == put[c]["main"].body.fence
     IN  IF phase[c]["main"] = "served"
           THEN /\ fence' = [fence EXCEPT ![c] = f]
                /\ Goto(c, IF ValidateFence(f, lastFence[c]) THEN "capture" ELSE "release")
           ELSE Goto(c, "idle") /\ UNCHANGED fence
  /\ UNCHANGED <<made, db, storeVars, lastFence, image, version, doomed, bootVars>>

\* What SnapshotDB reports as the version of a database at k.
ImageVersion(k) == VersionOf[k]

\* Step 3, the image.  An empty capture ends the Run.
Capture(c) ==
  /\ pc[c] = "capture"
  /\ LET k == db[Node[c]]
     IN  /\ image' = [image EXCEPT ![c] = k]
         /\ IF k = 0
              THEN Goto(c, "release") /\ UNCHANGED version
              ELSE IF Atomic
              THEN Goto(c, "check") /\ version' = [version EXCEPT ![c] = ImageVersion(k)]
              ELSE Goto(c, "version") /\ UNCHANGED version
  /\ UNCHANGED <<leaseVars, made, db, storeVars, fence, lastFence, doomed, bootVars>>

\* SnapshotDB asks for PRAGMA user_version when VACUUM INTO is over: what it
\* gets is of the database as it is by now.
ReadVersion(c) ==
  /\ pc[c] = "version"
  /\ version' = [version EXCEPT ![c] = ImageVersion(db[Node[c]])]
  /\ Goto(c, "check")
  /\ UNCHANGED <<leaseVars, made, db, storeVars, fence, lastFence, image, doomed, bootVars>>

\* Fault: a version below the one latest.json names is not held back.
Newer_Any(v) == TRUE

\* Step 4: is the image newer than what latest.json names?
Newer(v) == v > latest

\* Steps 4 and the second fencing check.
Check(c) ==
  /\ pc[c] = "check"
  /\ Goto(c, IF Newer(version[c]) /\ ValidateFence(fence[c], lastFence[c])
               THEN "blob" ELSE "release")
  /\ UNCHANGED <<leaseVars, made, db, storeVars, fence, lastFence, image, version, doomed, bootVars>>

\* existingSnapshotVersion fails: Run goes on as if there were no snapshot.
CheckFails(c) ==
  /\ "blind" \in Faults
  /\ pc[c] = "check"
  /\ Goto(c, IF ValidateFence(fence[c], lastFence[c]) THEN "blob" ELSE "release")
  /\ UNCHANGED <<leaseVars, made, db, storeVars, fence, lastFence, image, version, doomed, bootVars>>

PutBlob(c) == blobs' = [blobs EXCEPT ![version[c]] = image[c]] /\ UNCHANGED latest
PutLatest(c) == latest' = version[c] /\ UNCHANGED blobs

\* Step 5.
WriteBlob(c) ==
  /\ pc[c] = "blob"
  /\ PutBlob(c)
  /\ Goto(c, "latest")
  /\ UNCHANGED <<leaseVars, made, db, changes, fence, lastFence, image, version, doomed, bootVars>>

\* Step 6, and the fence this Compactor has now used.
WriteLatest(c) ==
  /\ pc[c] = "latest"
  /\ PutLatest(c)
  /\ lastFence' = [lastFence EXCEPT ![c] = fence[c]]
  /\ Goto(c, "list")
  /\ UNCHANGED <<leaseVars, made, db, changes, fence, image, version, doomed, bootVars>>

\* Fault: a changeset one past the snapshot is taken as covered.
Covered_OneMore(k, v) == k <= v + 1

\* pruneChangesets deletes what lies strictly below the covered version.
Covered(k, v) == k < v

\* Step 7: the listing, then the deletions, one by one.
List(c) ==
  /\ pc[c] = "list"
  /\ doomed' = [doomed EXCEPT ![c] = {k \in changes : Covered(k, version[c])}]
  /\ Goto(c, "prune")
  /\ UNCHANGED <<leaseVars, made, db, storeVars, fence, lastFence, image, version, bootVars>>

\* A deletion that fails is logged and left.
Prune(c) ==
  /\ pc[c] = "prune"
  /\ \E k \in doomed[c] :
       /\ doomed' = [doomed EXCEPT ![c] = @ \ {k}]
       /\ \/ changes' = changes \ {k}
          \/ "network" \in Faults /\ changes' = changes
  /\ UNCHANGED <<leaseVars, made, db, blobs, latest, pc, fence, lastFence, image, version, bootVars>>

Pruned(c) ==
  /\ pc[c] = "prune"
  /\ doomed[c] = {}
  /\ Goto(c, "release")
  /\ UNCHANGED <<leaseVars, made, db, storeVars, fence, lastFence, image, version, doomed, bootVars>>

\* Step 8, deferred: ReleaseSnapshot.
Release(c) ==
  /\ pc[c] = "release"
  /\ IF StillHeld(doc, Node[c], fence[c])
       THEN /\ Send(c, "main", ReleasePut(c, doc))
            /\ Goto(c, "releasing")
            /\ UNCHANGED <<fence, image, version, doomed>>
       ELSE Return(c) /\ UNCHANGED leaseVars
  /\ UNCHANGED <<made, db, storeVars, lastFence, bootVars>>

Released(c) ==
  /\ pc[c] = "releasing"
  /\ phase[c]["main"] \in {"served", "refused"}
  /\ Finish(c, {"main"})
  /\ Return(c)
  /\ UNCHANGED <<made, db, storeVars, lastFence, bootVars>>

\* Fault: a blob that could not be written is logged, and Run goes on.
AfterFailure_BlobLogged(c) == IF pc[c] = "blob" THEN "latest" ELSE "release"

\* Any failed step but the prune's returns, and the deferred Release runs.
AfterFailure(c) == "release"

\* A request fails and ends the Run: the deferred Release still runs, unless
\* it was the lease's own.  A PUT of blob or pointer may have been served.
RequestFails(c) ==
  /\ "network" \in Faults
  /\ \/ /\ pc[c] \in {"acquiring", "release", "releasing"}
        /\ Finish(c, {"main"})
        /\ Return(c)
        /\ UNCHANGED storeVars
     \/ /\ pc[c] \in {"capture", "version", "blob", "latest", "list"}
        /\ Goto(c, AfterFailure(c))
        /\ UNCHANGED <<leaseVars, fence, image, version, doomed>>
        /\ \/ UNCHANGED storeVars
           \/ pc[c] = "blob" /\ PutBlob(c) /\ UNCHANGED changes
           \/ pc[c] = "latest" /\ PutLatest(c) /\ UNCHANGED changes
  /\ UNCHANGED <<made, db, lastFence, bootVars>>

\* The box dies: what its Compactor knew of fences is gone.
Crash(c) ==
  /\ "crash" \in Faults
  /\ pc[c] # "idle"
  /\ Finish(c, Threads)
  /\ Return(c)
  /\ lastFence' = [lastFence EXCEPT ![c] = 0]
  /\ UNCHANGED <<made, db, storeVars, bootVars>>
-----------------------------------------------------------------------------
(* Bootstrap                                                               *)

\* latest.json, or its absence: then every changeset is to be replayed.
BootLatest ==
  /\ Joining
  /\ boot = "idle"
  /\ owed' = made
  /\ base' = latest
  /\ boot' = IF latest = 0 THEN "list" ELSE "blob"
  /\ UNCHANGED <<leaseVars, made, db, storeVars, runVars, have>>

\* Any error of that GET is taken for its absence.
BootLatestFails ==
  /\ Joining
  /\ "blind" \in Faults
  /\ boot = "idle"
  /\ owed' = made
  /\ base' = 0
  /\ boot' = "list"
  /\ UNCHANGED <<leaseVars, made, db, storeVars, runVars, have>>

\* The blob, installed.
BootBlob ==
  /\ boot = "blob"
  /\ have' = 1..blobs[base]
  /\ boot' = "list"
  /\ UNCHANGED <<leaseVars, made, db, storeVars, runVars, base, owed>>

\* Fault: the changeset right after the snapshot is taken as covered.
Tail_SkipsFirst(k, v) == k > v + 1

\* bootstrapReplayTail takes what lies strictly above the snapshot's version.
Tail(k, v) == k > v

\* The listing and its replay.
BootReplay ==
  /\ boot = "list"
  /\ have' = have \cup {k \in changes : Tail(k, base)}
  /\ boot' = "done"
  /\ UNCHANGED <<leaseVars, made, db, storeVars, runVars, base, owed>>

-----------------------------------------------------------------------------
Bucket ==
  /\ \/ \E c \in Callers : Serve(c, "main")
     \/ \E p \in stray : ServeStray(p)
  /\ UNCHANGED <<made, db, storeVars, runVars, bootVars>>

Run(c) ==
  \/ Start(c) \/ Acquired(c) \/ Capture(c) \/ ReadVersion(c)
  \/ Check(c) \/ CheckFails(c)
  \/ WriteBlob(c) \/ WriteLatest(c) \/ List(c) \/ Prune(c) \/ Pruned(c)
  \/ Release(c) \/ Released(c) \/ RequestFails(c) \/ Crash(c)

Bootstrap == BootLatest \/ BootLatestFails \/ BootBlob \/ BootReplay

Next ==
  \/ \E n \in Holders : Change(n) \/ CatchUp(n)
  \/ Bucket
  \/ \E c \in Callers : Run(c)
  \/ Bootstrap

Spec == Init /\ [][Next]_vars
-----------------------------------------------------------------------------
\* The changes in the snapshot that latest.json names: 1..Snapshotted.
Snapshotted == IF latest = 0 THEN 0 ELSE blobs[latest]

(***************************************************************************)
(* "A stalled compactor cannot clobber a newer snapshot" (snapshot.go):    *)
(* the version latest.json names never falls.                              *)
(***************************************************************************)
LatestNeverFalls == [][latest' >= latest]_vars

(***************************************************************************)
(* latest.json names a blob that is there, whatever crashed between the    *)
(* two PUTs: Restore and Bootstrap never meet a dangling pointer.          *)
(***************************************************************************)
LatestHasBlob == latest # 0 => Snapshotted # 0

(***************************************************************************)
(* Pruning loses nothing: every change made is in the snapshot that        *)
(* latest.json names, or its changeset is still there.                     *)
(***************************************************************************)
Recoverable ==
  \A k \in 1..made : k \in changes \/ k <= Snapshotted

\* The blob that Bootstrap installed holds what its version says.
BaseHonest == \A k \in 1..made : VersionOf[k] <= base => k \in have

(***************************************************************************)
(* A node that joins while no new snapshot is published, from a blob that  *)
(* holds what its version says, ends up with every change made before it   *)
(* began: what Bootstrap replays and what the compactor prunes leave no    *)
(* change between them (bootstrap.go).                                     *)
(***************************************************************************)
JoinComplete ==
  boot = "done" /\ base = latest /\ BaseHonest => 1..owed \subseteq have

(***************************************************************************)
(* "Changed content yields a different version (a new snapshot is          *)
(* written)" (dbio.go): step 4 holds an image back only when latest.json   *)
(* already names that very image or a later one.                           *)
(***************************************************************************)
ChangedIsWritten ==
  [][\A c \in Callers : pc[c] = "check" /\ pc'[c] = "release" =>
       image[c] <= Snapshotted]_vars
=============================================================================
