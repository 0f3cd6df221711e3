--------------------------- MODULE SnapshotProofs ---------------------------
(***************************************************************************)
(* The compactors of a cluster and a node that joins, for every number of  *)
(* nodes, changes and fences.  Four invariants, each on the one before:    *)
(*   BlobInv       types, and no pointer without its blob;                 *)
(*   ExclusiveInv  one Run at a time owns the lease, since the bucket      *)
(*                 takes a PUT only for the object as it is and the object *)
(*                 never returns to what it was (Rank), so what that Run   *)
(*                 compared with latest.json is still in front of it;      *)
(*   Passed, Joined, Honest  a changeset that is gone lies below what      *)
(*                 latest.json names, as long as that does not go back;    *)
(*   FenceSound    the owner goes by the latest fence.                     *)
(***************************************************************************)
EXTENDS SnapshotCompactor, TLAPS

\* Where a Run has an image and its version, and has not published them yet.
Imaged == {"check", "blob", "latest"}

\* What is captured is not empty, and what is named is there.
Shape ==
  /\ \A c \in Callers : pc[c] = "version" => db[Node[c]] # 0 /\ image[c] # 0
  /\ \A c \in Callers : pc[c] \in Imaged => image[c] # 0 /\ version[c] # 0
  /\ \A c \in Callers : pc[c] = "latest" => blobs[version[c]] # 0
  /\ latest # 0 => blobs[latest] # 0
  /\ boot = "blob" => base # 0

BlobInv == TypeOK /\ Shape

\* The types of the request state after each of the four operations on it.
LeaseTypes ==
  /\ doc \in Docs
  /\ put \in [Callers -> [Threads -> Puts]]
  /\ phase \in [Callers -> [Threads -> Phases]]
  /\ stray \subseteq Puts

\* The PUTs are requests of their callers, with a fence within the bound.
LEMMA PutTypes ==
  ASSUME NEW c \in Callers, NEW h \in Holders, NEW d \in Docs
  PROVE  /\ NoPut(c) \in Puts
         /\ ReleasePut(c, d) \in Puts
         /\ d.fence < MaxFence => AcquirePut(c, h, d) \in Puts
BY LeaseConstants DEF NoPut, ReleasePut, AcquirePut, Puts, Docs, AbsentDoc, FreeDoc, HeldDoc

\* The request state keeps its types: when a PUT is sent,
LEMMA SendTypes ==
  ASSUME LeaseTypes, NEW c \in Callers, NEW p \in Puts, Send(c, "main", p)
  PROVE  LeaseTypes'
BY DEF LeaseTypes, Send, Threads, Phases

\* when the bucket serves a waiting Run,
LEMMA ServeTypes ==
  ASSUME LeaseTypes, NEW c \in Callers, Serve(c, "main")
  PROVE  LeaseTypes'
BY DEF LeaseTypes, Serve, Threads, Phases, Puts

\* when it serves a stray,
LEMMA StrayTypes ==
  ASSUME LeaseTypes, NEW p \in stray, ServeStray(p)
  PROVE  LeaseTypes'
BY DEF LeaseTypes, ServeStray, Puts

\* and when a Run has its answer or gives up.
LEMMA FinishTypes ==
  ASSUME LeaseTypes, NEW c \in Callers, NEW ts \in SUBSET Threads, Finish(c, ts)
  PROVE  LeaseTypes'
<1> USE DEF LeaseTypes, Finish
<1>1. NoPut(c) \in Puts
  BY LeaseConstants DEF NoPut, Puts, Docs, AbsentDoc
<1>2. put' \in [Callers -> [Threads -> Puts]]
  BY <1>1
<1>3. phase' \in [Callers -> [Threads -> Phases]]
  BY DEF Phases
<1>4. stray' \subseteq Puts
  OBVIOUS
<1> QED
  BY <1>2, <1>3, <1>4

\* The versions of images are positive numbers.
LEMMA VersionFacts ==
  /\ Versions \subseteq Nat \ {0}
  /\ \A k \in 1..MaxChange : ImageVersion(k) \in Versions
  /\ Node \in [Callers -> Holders]
  /\ MaxChange \in Nat
BY CompactorConstants DEF Versions, ImageVersion

\* An empty bucket, and nothing under way.
LEMMA BlobInit ==
  ASSUME Init
  PROVE  BlobInv
<1> USE LeaseConstants, VersionFacts DEF Init, FreeDoc, Docs, Threads
<1>1. TypeOK
  <2>1. put \in [Callers -> [Threads -> Puts]]
    BY DEF NoPut, AbsentDoc, Puts
  <2> QED
    BY <2>1 DEF TypeOK, Phases, PCs
<1>2. Shape
  BY DEF Shape, Imaged
<1> QED
  BY <1>1, <1>2 DEF BlobInv

\* A node makes a change, or merges: its database does not become empty.
LEMMA BlobChange ==
  ASSUME BlobInv, NEW n \in Holders, Change(n) \/ CatchUp(n)
  PROVE  BlobInv'
<1> USE VersionFacts DEF BlobInv, Change, CatchUp, leaseVars, runVars, storeVars, bootVars
<1>1. TypeOK'
  <2>1. made' \in 0..MaxChange
    BY DEF TypeOK
  <2>2. db' \in [Holders -> 0..MaxChange]
    BY DEF TypeOK
  <2>3. changes' \subseteq 1..MaxChange
    <3>1. changes' = changes \/ (changes' = changes \cup {made + 1} /\ made + 1 \in 1..MaxChange)
      BY DEF TypeOK
    <3> QED
      BY <3>1 DEF TypeOK
  <2> QED
    BY <2>1, <2>2, <2>3 DEF TypeOK
<1>2. Shape'
  BY DEF TypeOK, Shape
<1> QED
  BY <1>1, <1>2

\* Bootstrap fetches a blob only when latest.json names one.
LEMMA BlobBootstrap ==
  ASSUME BlobInv, Bootstrap
  PROVE  BlobInv'
<1> USE VersionFacts DEF BlobInv, Bootstrap, BootLatest, BootLatestFails, BootBlob, BootReplay,
            leaseVars, runVars, storeVars
<1>1. TypeOK'
  <2>1. boot = "blob" => blobs[base] \in 0..MaxChange
    BY DEF TypeOK, Shape
  <2>2. have' \subseteq 1..MaxChange
    <3>1. boot = "blob" => blobs[base] \in Nat /\ blobs[base] <= MaxChange
      BY <2>1
    <3>2. boot = "blob" => 1..blobs[base] \subseteq 1..MaxChange
      BY <3>1
    <3> QED
      BY <3>2 DEF TypeOK
  <2>3. base' \in Versions \cup {0} /\ owed' \in 0..MaxChange
    BY DEF TypeOK
  <2>4. boot' \in {"idle", "blob", "list", "done"}
    BY DEF TypeOK
  <2> QED
    BY <2>2, <2>3, <2>4 DEF TypeOK
<1>2. Shape'
  BY DEF TypeOK, Shape
<1> QED
  BY <1>1, <1>2

\* A Run asks for the lease.
LEMMA BlobStart ==
  ASSUME BlobInv, NEW c \in Callers, Start(c)
  PROVE  BlobInv'
<1> USE VersionFacts DEF BlobInv, Start, Goto, storeVars, bootVars
<1>1. TypeOK'
  <2>1. AcquirePut(c, Node[c], doc) \in Puts
    BY PutTypes DEF TypeOK
  <2>2. LeaseTypes'
    BY <2>1, SendTypes DEF TypeOK, LeaseTypes
  <2> QED
    BY <2>2 DEF TypeOK, LeaseTypes, PCs
<1>2. Shape'
  BY DEF TypeOK, Shape, Imaged
<1> QED
  BY <1>1, <1>2

\* It has the answer.
LEMMA BlobAcquired ==
  ASSUME BlobInv, NEW c \in Callers, Acquired(c)
  PROVE  BlobInv'
<1> USE VersionFacts DEF BlobInv, Acquired, Goto, storeVars, bootVars
<1>1. TypeOK'
  <2>1. LeaseTypes'
    BY FinishTypes DEF TypeOK, LeaseTypes, Threads
  <2>2. put[c]["main"].body.fence \in 0..MaxFence
    BY DEF TypeOK, Threads, Puts, Docs
  <2> QED
    BY <2>1, <2>2 DEF TypeOK, LeaseTypes, PCs
<1>2. Shape'
  BY DEF TypeOK, Shape, Imaged
<1> QED
  BY <1>1, <1>2

\* It captures an image and its version; an empty capture ends it.
LEMMA BlobCapture ==
  ASSUME BlobInv, NEW c \in Callers, Capture(c) \/ ReadVersion(c)
  PROVE  BlobInv'
<1> USE VersionFacts DEF BlobInv, Capture, ReadVersion, Goto, leaseVars, storeVars, bootVars
<1>0. db[Node[c]] # 0 => ImageVersion(db[Node[c]]) \in Versions
  BY DEF TypeOK
<1>1. TypeOK'
  <2>1. image' \in [Callers -> 0..MaxChange]
    BY DEF TypeOK
  <2>2. version' \in [Callers -> Versions \cup {0}]
    <3>1. version \in [Callers -> Versions \cup {0}]
      BY DEF TypeOK
    <3>2. version' = version \/ \E v \in Versions : version' = [version EXCEPT ![c] = v]
      <4>1. CASE Capture(c)
        BY <1>0, <4>1
      <4>2. CASE ReadVersion(c)
        BY <1>0, <4>2 DEF Shape
      <4> QED
        BY <4>1, <4>2
    <3> QED
      BY <3>1, <3>2, Zenon
  <2>3. pc' \in [Callers -> PCs]
    <3>1. pc \in [Callers -> PCs]
      BY DEF TypeOK
    <3>2. \E l \in {"release", "check", "version"} : pc' = [pc EXCEPT ![c] = l]
      OBVIOUS
    <3> QED
      BY <3>1, <3>2 DEF PCs
  <2> QED
    BY <2>1, <2>2, <2>3 DEF TypeOK
<1>2. Shape'
  <2>1. CASE Capture(c)
    BY <1>0, <2>1 DEF TypeOK, Shape, Imaged
  <2>2. CASE ReadVersion(c)
    BY <1>0, <2>2 DEF TypeOK, Shape, Imaged
  <2> QED
    BY <2>1, <2>2
<1> QED
  BY <1>1, <1>2

\* It goes on to publish what it captured, or to the release.
LEMMA BlobCheck ==
  ASSUME BlobInv, NEW c \in Callers, Check(c) \/ CheckFails(c)
  PROVE  BlobInv'
<1> USE VersionFacts DEF BlobInv, Check, CheckFails, Goto, leaseVars, storeVars, bootVars
<1>1. TypeOK'
  BY DEF TypeOK, PCs
<1>2. Shape'
  BY DEF TypeOK, Shape, Imaged
<1> QED
  BY <1>1, <1>2

\* The blob is written before latest.json names it.
LEMMA BlobWrite ==
  ASSUME BlobInv, NEW c \in Callers, WriteBlob(c) \/ WriteLatest(c)
  PROVE  BlobInv'
<1> USE VersionFacts DEF BlobInv, WriteBlob, WriteLatest, PutBlob, PutLatest, Goto, leaseVars, bootVars
<1>1. TypeOK'
  <2>1. blobs' \in [Versions -> 0..MaxChange]
    BY DEF TypeOK
  <2>2. latest' \in Versions \cup {0}
    BY DEF TypeOK
  <2>3. lastFence' \in [Callers -> 0..MaxFence]
    BY DEF TypeOK
  <2>4. pc' \in [Callers -> PCs]
    BY DEF TypeOK, PCs
  <2> QED
    BY <2>1, <2>2, <2>3, <2>4 DEF TypeOK
<1>2. Shape'
  <2>1. CASE WriteBlob(c)
    BY <2>1 DEF TypeOK, Shape, Imaged
  <2>2. CASE WriteLatest(c)
    BY <2>2 DEF TypeOK, Shape, Imaged
  <2> QED
    BY <2>1, <2>2
<1> QED
  BY <1>1, <1>2

\* It prunes.
LEMMA BlobPrune ==
  ASSUME BlobInv, NEW c \in Callers, List(c) \/ Prune(c) \/ Pruned(c)
  PROVE  BlobInv'
<1> USE VersionFacts DEF BlobInv, List, Prune, Pruned, Goto, leaseVars, storeVars, bootVars
<1>1. TypeOK'
  <2>1. doomed' \in [Callers -> SUBSET (1..MaxChange)]
    <3>1. \E D \in SUBSET (1..MaxChange) : doomed' = [doomed EXCEPT ![c] = D]
      BY DEF TypeOK
    <3> QED
      BY <3>1 DEF TypeOK
  <2>2. changes' \subseteq 1..MaxChange
    BY DEF TypeOK
  <2>3. pc' \in [Callers -> PCs]
    BY DEF TypeOK, PCs
  <2> QED
    BY <2>1, <2>2, <2>3 DEF TypeOK
<1>2. Shape'
  BY DEF TypeOK, Shape, Imaged
<1> QED
  BY <1>1, <1>2

\* A Run is over.
LEMMA BlobReturn ==
  ASSUME BlobInv, NEW c \in Callers, Return(c), LeaseTypes',
         lastFence' \in [Callers -> 0..MaxFence], UNCHANGED <<made, db, storeVars, bootVars>>
  PROVE  BlobInv'
<1> USE VersionFacts, LeaseConstants DEF BlobInv, Return, Goto, storeVars, bootVars
<1>1. TypeOK'
  <2>1. fence' \in [Callers -> 0..MaxFence] /\ image' \in [Callers -> 0..MaxChange]
    BY DEF TypeOK
  <2>2. version' \in [Callers -> Versions \cup {0}]
    BY DEF TypeOK
  <2>3. doomed' \in [Callers -> SUBSET (1..MaxChange)]
    BY DEF TypeOK
  <2>4. pc' \in [Callers -> PCs]
    BY DEF TypeOK, PCs
  <2> QED
    BY <2>1, <2>2, <2>3, <2>4 DEF TypeOK, LeaseTypes
<1>2. Shape'
  BY DEF TypeOK, Shape, Imaged
<1> QED
  BY <1>1, <1>2

\* It releases the lease, or finds nothing to release.
LEMMA BlobRelease ==
  ASSUME BlobInv, NEW c \in Callers, Release(c)
  PROVE  BlobInv'
<1> USE VersionFacts DEF BlobInv, Release
<1>1. CASE StillHeld(doc, Node[c], fence[c])
  <2> USE <1>1 DEF Goto, storeVars, bootVars
  <2>1. ReleasePut(c, doc) \in Puts
    BY PutTypes DEF TypeOK
  <2>2. LeaseTypes'
    BY <2>1, SendTypes DEF TypeOK, LeaseTypes
  <2>3. TypeOK'
    BY <2>2 DEF TypeOK, LeaseTypes, PCs
  <2>4. Shape'
    BY DEF TypeOK, Shape, Imaged
  <2> QED
    BY <2>3, <2>4
<1>2. CASE ~StillHeld(doc, Node[c], fence[c])
  <2>1. LeaseTypes'
    BY <1>2 DEF TypeOK, LeaseTypes, leaseVars
  <2>2. lastFence' \in [Callers -> 0..MaxFence]
    BY DEF TypeOK
  <2> QED
    BY <1>2, <2>1, <2>2, BlobReturn
<1> QED
  BY <1>1, <1>2

\* The release has its answer, or the box dies.
LEMMA BlobReleased ==
  ASSUME BlobInv, NEW c \in Callers, Released(c) \/ Crash(c)
  PROVE  BlobInv'
<1> USE LeaseConstants DEF Released, Crash, BlobInv
<1>1. LeaseTypes'
  BY FinishTypes DEF TypeOK, LeaseTypes, Threads
<1>2. lastFence' \in [Callers -> 0..MaxFence]
  <2>1. 0 \in 0..MaxFence
    OBVIOUS
  <2> QED
    BY <2>1 DEF TypeOK
<1>3. Return(c) /\ UNCHANGED <<made, db, storeVars, bootVars>>
  OBVIOUS
<1> QED
  BY <1>1, <1>2, <1>3, BlobReturn

\* A request fails; one that was served all the same wrote what was captured.
LEMMA BlobRequestFails ==
  ASSUME BlobInv, NEW c \in Callers, RequestFails(c)
  PROVE  BlobInv'
<1> USE VersionFacts DEF BlobInv
<1>0. lastFence' \in [Callers -> 0..MaxFence]
  BY DEF TypeOK, RequestFails
<1>1. CASE Finish(c, {"main"}) /\ Return(c) /\ UNCHANGED storeVars
  <2>1. LeaseTypes'
    BY <1>1, FinishTypes DEF TypeOK, LeaseTypes, Threads
  <2> QED
    BY <1>0, <1>1, <2>1, BlobReturn DEF RequestFails
<1>2. CASE /\ pc[c] \in {"capture", "version", "blob", "latest", "list"}
           /\ Goto(c, AfterFailure(c))
           /\ UNCHANGED <<leaseVars, fence, image, version, doomed>>
           /\ \/ UNCHANGED storeVars
              \/ pc[c] = "blob" /\ PutBlob(c) /\ UNCHANGED changes
              \/ pc[c] = "latest" /\ PutLatest(c) /\ UNCHANGED changes
  <2> USE <1>2 DEF AfterFailure, Goto, PutBlob, PutLatest, leaseVars, storeVars, bootVars
  <2>1. TypeOK'
    <3>1. blobs' \in [Versions -> 0..MaxChange]
      BY DEF TypeOK
    <3>2. latest' \in Versions \cup {0} /\ changes' = changes
      BY DEF TypeOK
    <3>3. pc' \in [Callers -> PCs]
      BY DEF TypeOK, PCs
    <3> QED
      BY <1>0, <3>1, <3>2, <3>3 DEF TypeOK, RequestFails
  <2>2. Shape'
    <3>0. /\ UNCHANGED <<db, boot, base, image, version>>
          /\ pc' = [pc EXCEPT ![c] = "release"] /\ pc \in [Callers -> PCs]
      BY DEF TypeOK, RequestFails
    <3>1. CASE UNCHANGED storeVars
      BY <3>0, <3>1 DEF Shape, Imaged
    <3>2. CASE pc[c] = "blob" /\ PutBlob(c)
      BY <3>0, <3>2 DEF TypeOK, Shape, Imaged
    <3>3. CASE pc[c] = "latest" /\ PutLatest(c)
      BY <3>0, <3>3 DEF TypeOK, Shape, Imaged
    <3> QED
      BY <3>1, <3>2, <3>3
  <2> QED
    BY <2>1, <2>2
<1> QED
  BY <1>1, <1>2 DEF RequestFails

\* The bucket serves a PUT of the lease.
LEMMA BlobBucket ==
  ASSUME BlobInv, Bucket
  PROVE  BlobInv'
<1> USE DEF BlobInv, Bucket, runVars, storeVars, bootVars
<1>1. LeaseTypes'
  BY ServeTypes, StrayTypes DEF TypeOK, LeaseTypes
<1>2. TypeOK'
  BY <1>1 DEF TypeOK, LeaseTypes
<1>3. Shape'
  BY DEF Shape
<1> QED
  BY <1>2, <1>3

\* Every step keeps types and blobs.
LEMMA BlobStep ==
  ASSUME BlobInv, [Next]_vars
  PROVE  BlobInv'
<1>1. ASSUME NEW c \in Callers, Run(c)
      PROVE  BlobInv'
  BY <1>1, BlobStart, BlobAcquired, BlobCapture, BlobCheck, BlobWrite, BlobPrune, BlobRelease,
     BlobReleased, BlobRequestFails DEF Run
<1>2. CASE UNCHANGED vars
  <2>1. TypeOK'
    BY <1>2 DEF BlobInv, TypeOK, vars
  <2>2. Shape'
    BY <1>2 DEF BlobInv, Shape, vars
  <2> QED
    BY <2>1, <2>2 DEF BlobInv
<1> QED
  BY <1>1, <1>2, BlobChange, BlobBootstrap, BlobBucket DEF Next

\* Types of the compactors' state (Compactor.Run, SnapshotDB, Bootstrap), for
\* every number of nodes, changes and faults.
THEOREM CompactorTypeOK == Spec => []TypeOK
<1>1. Init => BlobInv
  BY BlobInit
<1>2. BlobInv /\ [Next]_vars => BlobInv'
  BY BlobStep
<1>3. BlobInv => TypeOK
  BY DEF BlobInv
<1> QED
  BY <1>1, <1>2, <1>3, PTL DEF Spec

\* latest.json never names a blob that is not there (Compactor.Run writes the blob
\* first), whoever runs, crashes or overtakes whom, expired leases included.
THEOREM NoDanglingPointer == Spec => []LatestHasBlob
<1>1. Init => BlobInv
  BY BlobInit
<1>2. BlobInv /\ [Next]_vars => BlobInv'
  BY BlobStep
<1>3. BlobInv => LatestHasBlob
  BY DEF BlobInv, Shape, LatestHasBlob, Snapshotted
<1> QED
  BY <1>1, <1>2, <1>3, PTL DEF Spec
-----------------------------------------------------------------------------
\* No lease is taken before its time, every GET of latest.json gets its answer,
\* and no two compactors go by one node ID.
Exclusive ==
  /\ Faults \cap {"expiry", "blind"} = {}
  /\ \A c, d \in Callers : Node[c] = Node[d] => c = d

\* The life of the lease object: held at fence f, free at f, held at f + 1.
Rank(d) == 2 * d.fence + (IF d.state = "free" THEN 1 ELSE 0)

\* A PUT is written for what the object is or was, and takes it further.
Timely(p) == p.ifMatch /\ Rank(p.match) <= Rank(doc) /\ Rank(p.match) < Rank(p.body)

\* The bucket may yet serve it.
Live(p) == \/ p \in stray
           \/ \E c \in Callers, t \in Threads : phase[c][t] = "sent" /\ p = put[c][t]

Working == {"capture", "version", "check", "blob", "latest", "list", "prune", "release"}

\* A Run that was granted the lease and has not asked to release it.
Owner(c) == pc[c] \in Working \/ (pc[c] = "acquiring" /\ phase[c]["main"] = "served")

PutsTimely == \A p \in Puts : Live(p) => Timely(p)
Asked ==
  \A c \in Callers : pc[c] = "acquiring" /\ phase[c]["main"] = "sent" =>
    put[c]["main"].body.state = "held" /\ put[c]["main"].body.holder = Node[c]
Owned ==
  \A c \in Callers : Owner(c) =>
    /\ doc.state = "held" /\ doc.holder = Node[c]
    /\ \A p \in Puts : Live(p) => p.match # doc

LeaseSound == PutsTimely /\ Asked /\ Owned

\* What a Run is about to publish is not behind what is published.
InFront == \A c \in Callers : pc[c] \in {"blob", "latest"} => version[c] >= latest

ExclusiveInv == BlobInv /\ LeaseSound /\ InFront

\* Acquire and Release take the object further.
LEMMA RankFacts ==
  ASSUME NEW d \in Docs, NEW h \in Holders
  PROVE  /\ Rank(d) \in Nat
         /\ Rank(HeldDoc(h, d.fence + 1)) > Rank(d)
         /\ d.state = "held" => Rank(FreeDoc(d.fence)) > Rank(d)
BY DEF Rank, Docs, HeldDoc, FreeDoc

\* Only one Run owns the lease.
LEMMA OneOwner ==
  ASSUME Exclusive, Owned, NEW c \in Callers, NEW d \in Callers, Owner(c), Owner(d)
  PROVE  c = d
BY DEF Exclusive, Owned

\* A step of a Run that leaves the lease alone.
LEMMA SoundUnchanged ==
  ASSUME LeaseSound, UNCHANGED leaseVars,
         \A d \in Callers : Owner(d)' => Owner(d),
         \A d \in Callers : pc'[d] = "acquiring" => pc[d] = "acquiring"
  PROVE  LeaseSound'
<1> USE DEF leaseVars, LeaseSound
<1>1. \A p \in Puts : Live(p)' <=> Live(p)
  BY DEF Live
<1>2. PutsTimely'
  BY <1>1 DEF PutsTimely, Timely
<1>3. Asked'
  BY DEF Asked
<1>4. Owned'
  BY <1>1 DEF Owned
<1> QED
  BY <1>2, <1>3, <1>4

\* A Run has its answer, or gives up.
LEMMA SoundFinish ==
  ASSUME LeaseSound, LeaseTypes, NEW c \in Callers, NEW ts \in SUBSET Threads, Finish(c, ts),
         "main" \in ts,
         \A d \in Callers : Owner(d)' => Owner(d),
         \A d \in Callers : pc'[d] = "acquiring" => pc[d] = "acquiring"
  PROVE  LeaseSound'
<1> USE DEF Finish, LeaseSound, LeaseTypes, Threads
<1>1. \A p \in Puts : Live(p)' => Live(p)
  BY DEF Live
<1>2. PutsTimely'
  BY <1>1 DEF PutsTimely, Timely
<1>3. Asked'
  BY DEF Asked
<1>4. Owned'
  BY <1>1 DEF Owned
<1> QED
  BY <1>2, <1>3, <1>4

\* A Run sends a PUT for the object as it is, and nobody owns the lease.
LEMMA SoundSend ==
  ASSUME LeaseSound, LeaseTypes, NEW c \in Callers, NEW q \in Puts, Send(c, "main", q),
         q.ifMatch, q.match = doc, Rank(q.body) > Rank(doc),
         pc'[c] = "acquiring" => q.body.state = "held" /\ q.body.holder = Node[c],
         \A d \in Callers \ {c} : pc'[d] = pc[d],
         \A d \in Callers : ~Owner(d)'
  PROVE  LeaseSound'
<1> USE DEF Send, LeaseSound, LeaseTypes, Threads
<1>1. \A p \in Puts : Live(p)' => Live(p) \/ p = q
  BY DEF Live
<1>2. PutsTimely'
  <2>1. Rank(doc) \in Nat
    BY RankFacts DEF Docs, Rank
  <2> SUFFICES ASSUME NEW p \in Puts, Live(p)'
               PROVE  Timely(p)'
    BY DEF PutsTimely
  <2>2. CASE Live(p)
    BY <2>2 DEF PutsTimely, Timely
  <2>3. CASE p = q
    BY <2>1, <2>3 DEF Timely
  <2> QED
    BY <1>1, <2>2, <2>3
<1>3. Asked'
  BY DEF Asked
<1>4. Owned'
  BY DEF Owned
<1> QED
  BY <1>2, <1>3, <1>4

\* The object moves on: then no Run owned it, and every PUT is behind it.
LEMMA SoundMoved ==
  ASSUME LeaseTypes, PutsTimely, NEW q \in Puts, Live(q), doc' = q.body, doc = q.match,
         \A p \in Puts : Live(p)' => Live(p)
  PROVE  /\ PutsTimely'
         /\ \A p \in Puts : Live(p)' => p.match # doc'
<1>1. Timely(q)
  BY DEF PutsTimely
<1>2. Rank(doc) \in Nat /\ Rank(doc') \in Nat /\ Rank(doc') > Rank(doc)
  BY <1>1 DEF Timely, LeaseTypes, Rank, Docs, Puts
<1> SUFFICES ASSUME NEW p \in Puts, Live(p)'
             PROVE  Timely(p)' /\ p.match # doc'
  BY DEF PutsTimely
<1>3. Timely(p)
  BY DEF PutsTimely
<1>4. Rank(p.match) \in Nat
  BY DEF Rank, Puts, Docs
<1>5. Rank(p.match) < Rank(doc')
  BY <1>2, <1>3, <1>4 DEF Timely
<1>6. p.match # doc'
  BY <1>5, <1>4
<1>7. Timely(p)'
  <2>1. Rank(p.match) <= Rank(doc')
    BY <1>2, <1>4, <1>5
  <2> QED
    BY <1>3, <2>1 DEF Timely, Rank
<1> QED
  BY <1>6, <1>7

\* The bucket serves a waiting Run: an accepted Acquire makes it the owner.
LEMMA SoundServe ==
  ASSUME LeaseSound, LeaseTypes, NEW c \in Callers, Serve(c, "main"), UNCHANGED pc
  PROVE  LeaseSound'
<1> USE DEF LeaseTypes, Threads
<1> DEFINE q == put[c]["main"]
<1>0. q \in Puts /\ Live(q) /\ phase[c]["main"] = "sent" /\ put' = put /\ stray' = stray
  BY DEF Serve, Live
<1>1. \A p \in Puts : Live(p)' => Live(p)
  BY DEF Serve, Live
<1>2. CASE Accepts(q, doc)
  <2>1. doc' = q.body /\ phase' = [phase EXCEPT ![c]["main"] = "served"]
    BY <1>2 DEF Serve
  <2>2. doc = q.match
    BY <1>0, <1>2 DEF Accepts, LeaseSound, PutsTimely, Timely
  <2>3. PutsTimely' /\ \A p \in Puts : Live(p)' => p.match # doc'
    BY <1>0, <1>1, <2>1, <2>2, SoundMoved DEF LeaseSound
  <2>4. \A d \in Callers : ~Owner(d)
    BY <1>0, <2>2 DEF LeaseSound, Owned
  <2>5. ASSUME NEW d \in Callers, Owner(d)'
        PROVE  d = c /\ pc[c] = "acquiring"
    BY <2>1, <2>4, <2>5 DEF Owner
  <2>6. Owned'
    BY <1>0, <2>1, <2>3, <2>5 DEF Owned, LeaseSound, Asked
  <2>7. Asked'
    BY <1>0, <2>1 DEF LeaseSound, Asked
  <2> QED
    BY <2>3, <2>6, <2>7 DEF LeaseSound
<1>3. CASE ~Accepts(q, doc)
  <2>1. doc' = doc /\ phase' = [phase EXCEPT ![c]["main"] = "refused"]
    BY <1>3 DEF Serve
  <2>2. PutsTimely'
    BY <1>1, <2>1 DEF LeaseSound, PutsTimely, Timely
  <2>3. \A d \in Callers : Owner(d)' => Owner(d)
    BY <1>0, <2>1 DEF Owner
  <2>4. Owned'
    BY <1>1, <2>1, <2>3 DEF LeaseSound, Owned
  <2>5. Asked'
    BY <1>0, <2>1 DEF LeaseSound, Asked
  <2> QED
    BY <2>2, <2>4, <2>5 DEF LeaseSound
<1> QED
  BY <1>2, <1>3

\* The bucket serves a stray: an accepted one finds no owner.
LEMMA SoundStray ==
  ASSUME LeaseSound, LeaseTypes, NEW q \in stray, ServeStray(q), UNCHANGED pc
  PROVE  LeaseSound'
<1> USE DEF LeaseTypes
<1>0. q \in Puts /\ Live(q) /\ put' = put /\ phase' = phase
  BY DEF ServeStray, Live
<1>1. \A p \in Puts : Live(p)' => Live(p)
  BY DEF ServeStray, Live
<1>2. Asked' /\ \A d \in Callers : Owner(d)' => Owner(d)
  BY <1>0 DEF LeaseSound, Asked, Owner
<1>3. CASE Accepts(q, doc)
  <2>1. doc' = q.body
    BY <1>3 DEF ServeStray
  <2>2. doc = q.match
    BY <1>0, <1>3 DEF Accepts, LeaseSound, PutsTimely, Timely
  <2>3. PutsTimely'
    BY <1>0, <1>1, <2>1, <2>2, SoundMoved DEF LeaseSound
  <2>4. \A d \in Callers : ~Owner(d)
    BY <1>0, <2>2 DEF LeaseSound, Owned
  <2>5. Owned'
    BY <1>2, <2>4 DEF Owned
  <2> QED
    BY <1>2, <2>3, <2>5 DEF LeaseSound
<1>4. CASE ~Accepts(q, doc)
  <2>1. doc' = doc
    BY <1>4 DEF ServeStray
  <2>2. PutsTimely'
    BY <1>1, <2>1 DEF LeaseSound, PutsTimely, Timely
  <2>3. Owned'
    BY <1>1, <1>2, <2>1 DEF LeaseSound, Owned
  <2> QED
    BY <1>2, <2>2, <2>3 DEF LeaseSound
<1> QED
  BY <1>3, <1>4

\* A Run asks for the lease: it is refused while another one owns it.
LEMMA SoundStart ==
  ASSUME Exclusive, BlobInv, LeaseSound, NEW c \in Callers, Start(c)
  PROVE  LeaseSound'
<1> USE VersionFacts DEF BlobInv, TypeOK
<1> DEFINE q == AcquirePut(c, Node[c], doc)
<1>0. LeaseTypes /\ Send(c, "main", q) /\ pc[c] = "idle" /\ pc' = [pc EXCEPT ![c] = "acquiring"]
  BY DEF Start, LeaseTypes, Goto
<1>1. q \in Puts
  BY PutTypes DEF Start
<1>2. /\ q.ifMatch /\ q.match = doc /\ Rank(q.body) > Rank(doc)
      /\ q.body.state = "held" /\ q.body.holder = Node[c]
  BY RankFacts DEF AcquirePut, HeldDoc
<1>3. ~Refused(doc, Node[c], FALSE)
  BY DEF Start, Exclusive
<1>4. \A d \in Callers : ~Owner(d)
  <2> SUFFICES ASSUME NEW d \in Callers, Owner(d)
               PROVE  FALSE
    OBVIOUS
  <2>1. Node[d] = Node[c]
    BY <1>3 DEF LeaseSound, Owned, Refused
  <2>2. d = c
    BY <2>1 DEF Exclusive
  <2> QED
    BY <1>0, <2>2 DEF Owner, Working
<1>5. \A d \in Callers : ~Owner(d)'
  BY <1>0, <1>4 DEF Owner, Working, Send, LeaseTypes, Threads
<1> HIDE DEF q
<1> QED
  BY <1>0, <1>1, <1>2, <1>5, SoundSend

\* A Run asks to release it: it alone owned it.
LEMMA SoundRelease ==
  ASSUME Exclusive, BlobInv, LeaseSound, NEW c \in Callers, Release(c)
  PROVE  LeaseSound'
<1> USE VersionFacts DEF BlobInv, TypeOK
<1>0. pc[c] = "release" /\ Owner(c)
  BY DEF Release, Owner, Working
<1>1. CASE StillHeld(doc, Node[c], fence[c])
  <2> DEFINE q == ReleasePut(c, doc)
  <2>1. LeaseTypes /\ Send(c, "main", q) /\ pc' = [pc EXCEPT ![c] = "releasing"]
    BY <1>1 DEF Release, LeaseTypes, Goto
  <2>2. q \in Puts
    BY PutTypes
  <2>3. q.ifMatch /\ q.match = doc /\ Rank(q.body) > Rank(doc)
    BY <1>1, RankFacts DEF ReleasePut, FreeDoc, StillHeld, HeldDoc
  <2>4. \A d \in Callers \ {c} : ~Owner(d)
    BY <1>0, OneOwner DEF LeaseSound
  <2>5. \A d \in Callers : ~Owner(d)'
    BY <2>1, <2>4 DEF Owner, Working, Send, LeaseTypes, Threads
  <2>6. pc'[c] # "acquiring"
    BY <2>1
  <2> HIDE DEF q
  <2> QED
    BY <2>1, <2>2, <2>3, <2>5, <2>6, SoundSend
<1>2. CASE ~StillHeld(doc, Node[c], fence[c])
  <2>1. UNCHANGED leaseVars /\ pc' = [pc EXCEPT ![c] = "idle"]
    BY <1>2 DEF Release, Return, Goto
  <2> QED
    BY <2>1, SoundUnchanged DEF Owner, Working, leaseVars
<1> QED
  BY <1>1, <1>2

\* The other steps of a Run.
LEMMA SoundRun ==
  ASSUME Exclusive, BlobInv, LeaseSound, NEW c \in Callers, Run(c)
  PROVE  LeaseSound'
<1> USE DEF BlobInv, TypeOK
<1>0. LeaseTypes
  BY DEF LeaseTypes
<1>1. CASE UNCHANGED leaseVars /\ pc[c] \in Working
           /\ \E l \in Working : pc' = [pc EXCEPT ![c] = l]
  BY <1>1, SoundUnchanged DEF Owner, Working, leaseVars
<1>2. CASE Acquired(c)
  <2>1. Finish(c, {"main"}) /\ pc[c] = "acquiring"
    BY <1>2 DEF Acquired
  <2>2. \A d \in Callers : Owner(d)' => Owner(d)
    BY <1>2 DEF Acquired, Goto, Owner, Working, Finish, Threads
  <2>3. \A d \in Callers : pc'[d] = "acquiring" => pc[d] = "acquiring"
    BY <1>2 DEF Acquired, Goto
  <2> QED
    BY <1>0, <2>1, <2>2, <2>3, SoundFinish DEF Threads
<1>3. CASE \E ts \in SUBSET Threads : "main" \in ts /\ Finish(c, ts) /\ Return(c)
  <2> PICK ts \in SUBSET Threads : "main" \in ts /\ Finish(c, ts) /\ Return(c)
    BY <1>3
  <2>2. \A d \in Callers : Owner(d)' => Owner(d)
    BY DEF Return, Goto, Owner, Working, Finish, Threads
  <2>3. \A d \in Callers : pc'[d] = "acquiring" => pc[d] = "acquiring"
    BY DEF Return, Goto
  <2> QED
    BY <1>0, <2>2, <2>3, SoundFinish
<1>4. CASE Released(c) \/ Crash(c)
  BY <1>3, <1>4 DEF Released, Crash, Threads
<1>5. CASE RequestFails(c)
  BY <1>1, <1>3, <1>5 DEF RequestFails, Goto, AfterFailure, Working, Threads
<1>6. CASE Prune(c)
  BY <1>1, <1>6 DEF Prune, Working
<1>7. CASE Capture(c) \/ ReadVersion(c) \/ Check(c) \/ CheckFails(c)
  BY <1>1, <1>7 DEF Capture, ReadVersion, Check, CheckFails, Goto, Working
<1>8. CASE WriteBlob(c) \/ WriteLatest(c) \/ List(c) \/ Pruned(c)
  BY <1>1, <1>8 DEF WriteBlob, WriteLatest, List, Pruned, Goto, Working
<1> QED
  BY <1>2, <1>4, <1>5, <1>6, <1>7, <1>8, SoundStart, SoundRelease DEF Run

\* What is about to be published stays in front, and latest.json moves forward.
LEMMA FrontRun ==
  ASSUME Exclusive, BlobInv, LeaseSound, InFront, NEW c \in Callers, Run(c)
  PROVE  InFront' /\ latest' >= latest
<1> USE VersionFacts DEF BlobInv, TypeOK
<1>0. latest \in Nat /\ \A d \in Callers : version[d] \in Nat
  <2>1. Versions \cup {0} \subseteq Nat
    OBVIOUS
  <2> QED
    BY <2>1
<1>1. CASE /\ UNCHANGED latest
           /\ \E l \in PCs : pc' = [pc EXCEPT ![c] = l] /\ l \notin {"blob", "latest"}
           /\ \A d \in Callers \ {c} : version'[d] = version[d]
  BY <1>0, <1>1 DEF InFront
<1>2. CASE Check(c)
  BY <1>0, <1>2 DEF Check, Goto, Newer, InFront, storeVars
<1>3. CASE /\ pc[c] = "latest" /\ latest' = version[c] /\ UNCHANGED version
           /\ \E l \in {"list", "release"} : pc' = [pc EXCEPT ![c] = l]
  <2>1. \A d \in Callers : pc'[d] \notin {"blob", "latest"}
    <3> SUFFICES ASSUME NEW d \in Callers, pc'[d] \in {"blob", "latest"}
                 PROVE  FALSE
      OBVIOUS
    <3>1. d # c /\ Owner(d) /\ Owner(c)
      BY <1>3 DEF Owner, Working
    <3> QED
      BY <3>1, OneOwner DEF LeaseSound
  <2>2. latest' >= latest
    BY <1>0, <1>3 DEF InFront
  <2> QED
    BY <2>1, <2>2 DEF InFront
<1>4. CASE WriteBlob(c)
  BY <1>0, <1>4 DEF WriteBlob, Goto, PutBlob, InFront
<1>5. CASE WriteLatest(c)
  BY <1>3, <1>5 DEF WriteLatest, PutLatest, Goto
<1>6. CASE Prune(c)
  BY <1>0, <1>6 DEF Prune, InFront
<1>7. CASE RequestFails(c)
  BY <1>1, <1>3, <1>7 DEF RequestFails, Goto, AfterFailure, Return, PutLatest, PutBlob, storeVars, PCs
<1>8. CASE Start(c) \/ Acquired(c) \/ Capture(c) \/ ReadVersion(c)
  BY <1>1, <1>8 DEF Start, Acquired, Capture, ReadVersion, Goto, storeVars, PCs
<1>9. CASE List(c) \/ Pruned(c) \/ Release(c) \/ Released(c) \/ Crash(c)
  BY <1>1, <1>9 DEF List, Pruned, Release, Released, Crash, Return, Goto, storeVars, PCs
<1>10. ~CheckFails(c)
  BY DEF CheckFails, Exclusive
<1> QED
  BY <1>2, <1>4, <1>5, <1>6, <1>7, <1>8, <1>9, <1>10 DEF Run

\* Every step.
LEMMA ExclusiveStep ==
  ASSUME Exclusive, ExclusiveInv, [Next]_vars
  PROVE  ExclusiveInv' /\ latest' >= latest
<1> USE DEF ExclusiveInv
<1>0. BlobInv'
  BY BlobStep
<1>1. latest \in Nat
  BY VersionFacts DEF BlobInv, TypeOK
<1>2. CASE \E c \in Callers : Run(c)
  BY <1>0, <1>2, SoundRun, FrontRun
<1>3. CASE UNCHANGED <<pc, version, latest>>
  <2>1. InFront' /\ latest' >= latest
    BY <1>1, <1>3 DEF InFront
  <2>2. CASE UNCHANGED leaseVars
    BY <1>0, <1>3, <2>1, <2>2, SoundUnchanged DEF Owner, leaseVars
  <2>3. CASE Bucket
    <3>1. LeaseTypes
      BY DEF LeaseTypes, BlobInv, TypeOK
    <3> QED
      BY <1>0, <1>3, <2>1, <2>3, <3>1, SoundServe, SoundStray DEF Bucket
  <2>4. CASE UNCHANGED vars
    BY <2>2, <2>4 DEF vars, leaseVars
  <2>5. CASE Bootstrap
    BY <2>2, <2>5 DEF Bootstrap, BootLatest, BootLatestFails, BootBlob, BootReplay
  <2>6. CASE \E n \in Holders : Change(n) \/ CatchUp(n)
    BY <2>2, <2>6 DEF Change, CatchUp
  <2>7. CASE \E c \in Callers : Run(c)
    BY <1>2, <2>7
  <2> QED
    BY <2>3, <2>4, <2>5, <2>6, <2>7 DEF Next
<1>4. CASE Bucket
  BY <1>3, <1>4 DEF Bucket, storeVars, runVars
<1>5. CASE UNCHANGED vars
  BY <1>3, <1>5 DEF vars
<1>6. CASE Bootstrap
  BY <1>3, <1>6 DEF Bootstrap, BootLatest, BootLatestFails, BootBlob, BootReplay, storeVars, runVars
<1>7. CASE \E n \in Holders : Change(n) \/ CatchUp(n)
  BY <1>3, <1>7 DEF Change, CatchUp, storeVars, runVars
<1> QED
  BY <1>2, <1>4, <1>5, <1>6, <1>7 DEF Next

\* Nobody owns a free lease.
LEMMA ExclusiveInit ==
  ASSUME Init
  PROVE  ExclusiveInv
<1>1. BlobInv
  BY BlobInit
<1>2. \A p \in Puts : ~Live(p)
  BY DEF Init, Live
<1>3. LeaseSound
  BY <1>2 DEF LeaseSound, PutsTimely, Asked, Owned, Init, Owner, Working
<1>4. InFront
  BY DEF Init, InFront
<1> QED
  BY <1>1, <1>3, <1>4 DEF ExclusiveInv

\* "A stalled compactor cannot clobber a newer snapshot" (snapshot.go): the version
\* that latest.json names never falls, for compactors on any number of nodes, as
\* long as a lease is not taken over before its holder is done with it.
THEOREM LatestMovesForward ==
  ASSUME Exclusive
  PROVE  Spec => LatestNeverFalls
<1>1. Init => ExclusiveInv
  BY ExclusiveInit
<1>2. ExclusiveInv /\ [Next]_vars => ExclusiveInv'
  BY ExclusiveStep
<1>3. ExclusiveInv /\ [Next]_vars => [latest' >= latest]_vars
  BY ExclusiveStep
<1> QED
  BY <1>1, <1>2, <1>3, PTL DEF Spec, LatestNeverFalls
-----------------------------------------------------------------------------
\* The version of a database is the number of changes it holds.
ByUserVersion == VersionOf = [k \in 1..MaxChange |-> k]

\* A changeset that is gone lies below what latest.json names, and so does every
\* one that a prune has still to delete.
Passed ==
  /\ \A k \in 1..made : k \in changes \/ k < latest
  /\ \A c \in Callers : pc[c] = "list" => version[c] <= latest
  /\ \A c \in Callers : \A k \in doomed[c] : k < latest

\* What a node that joins has replayed.
Joined ==
  /\ owed <= made
  /\ base <= latest
  /\ boot = "done" /\ base = latest => \A k \in 1..owed : k > base => k \in have

\* An image and a blob hold what their version says.
Honest ==
  /\ \A c \in Callers : pc[c] # "version"
  /\ \A c \in Callers : pc[c] \in Imaged => image[c] = version[c]
  /\ \A v \in Versions : blobs[v] \in {0, v}

\* Versions and counts are numbers.
LEMMA NumberFacts ==
  ASSUME TypeOK
  PROVE  /\ latest \in Nat /\ base \in Nat /\ made \in Nat /\ owed \in Nat
         /\ \A c \in Callers : version[c] \in Nat
<1>1. Versions \cup {0} \subseteq Nat
  BY VersionFacts
<1> QED
  BY <1>1 DEF TypeOK

\* What latest.json names has only grown: so much may be gone.
LEMMA PassedRun ==
  ASSUME BlobInv, Passed, NEW c \in Callers, Run(c), latest' >= latest, BlobInv'
  PROVE  Passed'
<1> USE DEF BlobInv
<1>0. /\ latest \in Nat /\ latest' \in Nat /\ made \in Nat
      /\ \A d \in Callers : version[d] \in Nat
      /\ changes \subseteq Nat /\ \A d \in Callers : doomed[d] \subseteq Nat
  <2>1. latest' \in Nat
    <3>1. Versions \cup {0} \subseteq Nat
      BY VersionFacts
    <3> QED
      BY <3>1 DEF TypeOK
  <2>2. 1..MaxChange \subseteq Nat
    BY VersionFacts
  <2> QED
    BY <2>1, <2>2, NumberFacts DEF TypeOK
<1>1. made' = made
  BY DEF Run, Start, Acquired, Capture, ReadVersion, Check, CheckFails, WriteBlob, WriteLatest,
         List, Prune, Pruned, Release, Released, RequestFails, Crash
<1>2. CASE /\ UNCHANGED <<changes, version>>
           /\ \E l \in PCs \ {"list"} : pc' = [pc EXCEPT ![c] = l]
           /\ doomed' = doomed
  BY <1>0, <1>1, <1>2 DEF Passed, TypeOK
<1>3. CASE UNCHANGED changes /\ Return(c)
  BY <1>0, <1>1, <1>3 DEF Passed, TypeOK, Return, Goto
<1>4. CASE WriteLatest(c)
  BY <1>0, <1>1, <1>4 DEF WriteLatest, Goto, PutLatest, Passed, TypeOK
<1>5. CASE List(c)
  BY <1>0, <1>1, <1>5 DEF List, Goto, Covered, Passed, TypeOK, storeVars
<1>6. CASE Prune(c)
  <2> PICK k \in doomed[c] : /\ doomed' = [doomed EXCEPT ![c] = @ \ {k}]
                             /\ changes' = changes \/ changes' = changes \ {k}
    BY <1>6 DEF Prune
  <2>1. k < latest /\ latest' = latest /\ version' = version /\ pc' = pc
    BY <1>6 DEF Prune, Passed
  <2> QED
    BY <1>0, <1>1, <2>1 DEF Passed, TypeOK
<1>7. CASE Capture(c) \/ ReadVersion(c)
  <2>1. /\ UNCHANGED <<changes, doomed, latest>>
        /\ \E l \in PCs \ {"list"} : pc' = [pc EXCEPT ![c] = l]
        /\ \A d \in Callers \ {c} : version'[d] = version[d]
    BY <1>7 DEF Capture, ReadVersion, Goto, storeVars, PCs, TypeOK
  <2> QED
    BY <1>0, <1>1, <2>1 DEF Passed, TypeOK
<1>8. CASE RequestFails(c)
  BY <1>2, <1>3, <1>8 DEF RequestFails, Goto, AfterFailure, PutLatest, PutBlob, storeVars, PCs
<1>9. CASE Start(c) \/ Acquired(c) \/ Check(c) \/ CheckFails(c) \/ WriteBlob(c) \/ Pruned(c)
  BY <1>2, <1>9 DEF Start, Acquired, Check, CheckFails, WriteBlob, Pruned, Goto, storeVars, PCs
<1>10. CASE Release(c) \/ Released(c) \/ Crash(c)
  BY <1>2, <1>3, <1>10 DEF Release, Released, Crash, Goto, storeVars, PCs
<1> QED
  BY <1>4, <1>5, <1>6, <1>7, <1>8, <1>9, <1>10 DEF Run

\* Every step of the cluster, as long as latest.json does not go back.
LEMMA PassedStep ==
  ASSUME BlobInv, Passed, [Next]_vars, latest' >= latest
  PROVE  Passed'
<1>0. made \in Nat
  BY NumberFacts DEF BlobInv
<1>1. CASE UNCHANGED <<made, changes, latest, pc, version, doomed>>
  BY <1>1 DEF Passed
<1>2. CASE \E c \in Callers : Run(c)
  BY <1>2, PassedRun, BlobStep
<1>3. CASE \E n \in Holders : Change(n)
  BY <1>0, <1>3 DEF Change, Passed, runVars
<1>4. CASE \E n \in Holders : CatchUp(n)
  BY <1>1, <1>4 DEF CatchUp, storeVars, runVars
<1>5. CASE Bucket \/ UNCHANGED vars
  BY <1>1, <1>5 DEF Bucket, storeVars, runVars, vars
<1>6. CASE Bootstrap
  BY <1>1, <1>6 DEF Bootstrap, BootLatest, BootLatestFails, BootBlob, BootReplay, storeVars, runVars
<1> QED
  BY <1>2, <1>3, <1>4, <1>5, <1>6 DEF Next

\* A replay above the version that latest.json still names misses nothing.
LEMMA JoinedStep ==
  ASSUME BlobInv, Passed, Joined, [Next]_vars, latest' >= latest
  PROVE  Joined'
<1>0. /\ latest \in Nat /\ latest' \in Nat /\ made \in Nat /\ owed \in Nat /\ base \in Nat
  <2>1. BlobInv'
    BY BlobStep
  <2>2. Versions \cup {0} \subseteq Nat
    BY VersionFacts
  <2> QED
    BY <2>1, <2>2, NumberFacts DEF BlobInv, TypeOK
<1>1. CASE UNCHANGED bootVars
  <2>1. made' >= made /\ made' \in Nat
    BY <1>0, <1>1 DEF Next, Change, CatchUp, Bucket, Run, Start, Acquired, Capture, ReadVersion,
         Check, CheckFails, WriteBlob, WriteLatest, List, Prune, Pruned, Release, Released,
         RequestFails, Crash, Bootstrap, BootLatest, BootLatestFails, BootBlob, BootReplay, vars
  <2>2. base = latest' => base = latest
    BY <1>0 DEF Joined
  <2> QED
    BY <1>0, <1>1, <2>1, <2>2 DEF Joined, bootVars
<1>2. CASE BootLatest \/ BootLatestFails
  BY <1>0, <1>2 DEF BootLatest, BootLatestFails, Joined, storeVars
<1>3. CASE BootBlob
  BY <1>0, <1>3 DEF BootBlob, Joined, storeVars
<1>4. CASE BootReplay
  <2>1. UNCHANGED <<owed, base, latest, made>>
    BY <1>4 DEF BootReplay, storeVars
  <2>2. ASSUME base = latest, NEW k \in 1..owed, k > base
        PROVE  k \in have'
    <3>1. k \in 1..made /\ ~(k < latest)
      BY <1>0, <2>2 DEF Joined
    <3>2. k \in changes
      BY <3>1 DEF Passed
    <3> QED
      BY <1>4, <2>2, <3>2 DEF BootReplay, Tail
  <2> QED
    BY <2>1, <2>2 DEF Joined
<1>5. ~Bootstrap => UNCHANGED bootVars
  BY DEF Next, Change, CatchUp, Bucket, Run, Start, Acquired, Capture, ReadVersion,
         Check, CheckFails, WriteBlob, WriteLatest, List, Prune, Pruned, Release, Released,
         RequestFails, Crash, vars, bootVars
<1> QED
  BY <1>1, <1>2, <1>3, <1>4, <1>5 DEF Bootstrap

\* A Run of a DBSnapshot that is atomic writes the blob of its version.
LEMMA HonestRun ==
  ASSUME Atomic, ByUserVersion, BlobInv, Honest, NEW c \in Callers, Run(c)
  PROVE  Honest'
<1> USE DEF BlobInv, TypeOK
<1>1. CASE /\ UNCHANGED blobs
           /\ \E l \in PCs \ (Imaged \cup {"version"}) : pc' = [pc EXCEPT ![c] = l]
           /\ \A d \in Callers \ {c} : image'[d] = image[d] /\ version'[d] = version[d]
  BY <1>1 DEF Honest
<1>2. CASE Capture(c)
  <2>1. db[Node[c]] # 0 => ImageVersion(db[Node[c]]) = db[Node[c]]
    BY VersionFacts DEF ImageVersion, ByUserVersion
  <2> QED
    BY <1>2, <2>1 DEF Capture, Goto, Honest, storeVars, Imaged
<1>3. ~ReadVersion(c)
  BY DEF ReadVersion, Honest
<1>4. CASE /\ pc[c] \in Imaged /\ UNCHANGED <<image, version>>
           /\ \E l \in PCs \ {"version"} : pc' = [pc EXCEPT ![c] = l]
           /\ UNCHANGED blobs \/ PutBlob(c)
  <2>1. \A d \in Callers : pc'[d] # "version" /\ (pc'[d] \in Imaged => pc[d] \in Imaged)
    BY <1>4 DEF Honest
  <2>2. image[c] = version[c]
    BY <1>4 DEF Honest
  <2>3. \A v \in Versions : blobs'[v] \in {0, v}
    BY <1>4, <2>2 DEF Honest, PutBlob
  <2> QED
    BY <1>4, <2>1, <2>3 DEF Honest
<1>5. CASE Check(c) \/ CheckFails(c)
  BY <1>4, <1>5 DEF Check, CheckFails, Goto, Imaged, PCs, storeVars
<1>6. CASE WriteBlob(c)
  BY <1>4, <1>6 DEF WriteBlob, Goto, Imaged, PCs
<1>7. CASE WriteLatest(c)
  BY <1>1, <1>7 DEF WriteLatest, PutLatest, Goto, Imaged, PCs
<1>8. CASE Start(c) \/ Acquired(c) \/ List(c) \/ Pruned(c)
  BY <1>1, <1>8 DEF Start, Acquired, List, Pruned, Goto, Imaged, PCs, storeVars
<1>9. CASE Prune(c)
  BY <1>9 DEF Prune, Honest
<1>10. CASE Return(c) /\ UNCHANGED storeVars
  BY <1>1, <1>10 DEF Return, Goto, Imaged, PCs, storeVars
<1>11. CASE Release(c) \/ Released(c) \/ Crash(c)
  BY <1>1, <1>10, <1>11 DEF Release, Released, Crash, Goto, Imaged, PCs, storeVars
<1>12. CASE RequestFails(c)
  BY <1>1, <1>4, <1>10, <1>12 DEF RequestFails, Goto, AfterFailure, PutLatest, Imaged, PCs, storeVars
<1> QED
  BY <1>2, <1>3, <1>5, <1>6, <1>7, <1>8, <1>9, <1>11, <1>12 DEF Run

\* The same of every step.
LEMMA HonestStep ==
  ASSUME Atomic, ByUserVersion, BlobInv, Honest, [Next]_vars
  PROVE  Honest'
<1>1. CASE UNCHANGED <<pc, blobs, image, version>>
  BY <1>1 DEF Honest
<1>2. CASE \E c \in Callers : Run(c)
  BY <1>2, HonestRun
<1>3. CASE ~\E c \in Callers : Run(c)
  BY <1>1, <1>3 DEF Next, Bucket, Bootstrap, BootLatest, BootLatestFails, BootBlob, BootReplay,
     Change, CatchUp, storeVars, runVars, vars
<1> QED
  BY <1>2, <1>3

\* Nothing is made, pruned or joined yet.
LEMMA PrunedInit ==
  ASSUME Init
  PROVE  Passed /\ Joined /\ Honest
BY VersionFacts DEF Init, Passed, Joined, Honest, Imaged

\* From the invariant to what a reader of the bucket is promised.
LEMMA PassedRecoverable ==
  ASSUME BlobInv, Passed, Honest
  PROVE  Recoverable
<1>1. latest # 0 => blobs[latest] = latest
  BY DEF BlobInv, TypeOK, Shape, Honest
<1>2. latest \in Nat
  BY NumberFacts DEF BlobInv
<1> QED
  BY <1>1, <1>2, NumberFacts DEF Recoverable, Snapshotted, Passed, BlobInv

\* A node that joined has what its blob holds and what lies above it.
LEMMA JoinedComplete ==
  ASSUME ByUserVersion, BlobInv, Joined
  PROVE  JoinComplete
<1> SUFFICES ASSUME boot = "done", base = latest, BaseHonest, NEW k \in 1..owed
             PROVE  k \in have
  BY DEF JoinComplete
<1>1. /\ base \in Nat /\ made \in Nat /\ owed \in Nat /\ owed <= made /\ made <= MaxChange
      /\ MaxChange \in Nat
  BY NumberFacts, VersionFacts DEF Joined, BlobInv, TypeOK
<1>2. k \in 1..made /\ VersionOf[k] = k
  BY <1>1 DEF ByUserVersion
<1>3. CASE k > base
  BY <1>3 DEF Joined
<1>4. CASE k <= base
  BY <1>2, <1>4 DEF BaseHonest
<1> QED
  BY <1>1, <1>3, <1>4
-----------------------------------------------------------------------------
\* A box alone with the bucket: one compactor, whatever it is told of
\* latest.json, and versions that grow with the database.
Lone ==
  /\ \A c, d \in Callers : c = d
  /\ \A j, k \in 1..MaxChange : j <= k => VersionOf[j] <= VersionOf[k]

\* The database is never older than what was published or captured from it.
Behind(v, n) == v # 0 => db[n] # 0 /\ v <= VersionOf[db[n]]
LoneAhead ==
  \A c \in Callers :
    /\ Behind(latest, Node[c]) /\ Behind(version[c], Node[c])
    /\ pc[c] \in Imaged => version[c] >= latest

\* One compactor publishes what its own database has come to.
LEMMA LoneStep ==
  ASSUME Lone, BlobInv, LoneAhead, [Next]_vars
  PROVE  LoneAhead' /\ latest' >= latest
<1> USE VersionFacts DEF BlobInv
<1>0. /\ latest \in Nat /\ \A c \in Callers : version[c] \in Nat
      /\ VersionOf \in [1..MaxChange -> Nat \ {0}]
  BY NumberFacts, CompactorConstants
<1>1. CASE \E n \in Holders : Change(n) \/ CatchUp(n)
  <2> PICK n \in Holders : Change(n) \/ CatchUp(n)
    BY <1>1
  <2>1. \A h \in Holders : db'[h] \in 0..MaxChange /\ db[h] \in 0..MaxChange /\ db[h] <= db'[h]
    BY DEF TypeOK, Change, CatchUp
  <2>2. UNCHANGED <<latest, version, pc>>
    BY DEF Change, CatchUp, storeVars, runVars
  <2>3. \A h \in Holders, v \in Nat : Behind(v, h) => (v # 0 => db'[h] # 0 /\ v <= VersionOf[db'[h]])
    <3> SUFFICES ASSUME NEW h \in Holders, NEW v \in Nat, v # 0, db[h] # 0, v <= VersionOf[db[h]]
                 PROVE  db'[h] # 0 /\ v <= VersionOf[db'[h]]
      BY DEF Behind
    <3>1. db[h] \in 1..MaxChange /\ db'[h] \in 1..MaxChange /\ db[h] <= db'[h]
      BY <2>1
    <3>2. VersionOf[db[h]] <= VersionOf[db'[h]] /\ VersionOf[db[h]] \in Nat /\ VersionOf[db'[h]] \in Nat
      BY <1>0, <3>1 DEF Lone
    <3> QED
      BY <3>1, <3>2
  <2> QED
    BY <1>0, <2>2, <2>3 DEF LoneAhead, Behind
<1>2. ASSUME NEW c \in Callers, Run(c)
      PROVE  LoneAhead' /\ latest' >= latest
  <2> USE DEF TypeOK, Lone
  <2>0. /\ db' = db /\ Callers = {c} /\ Behind(latest, Node[c]) /\ Behind(version[c], Node[c])
        /\ pc[c] \in Imaged => version[c] >= latest
    BY <1>2 DEF LoneAhead, Run, Start, Acquired, Capture, ReadVersion, Check, CheckFails, WriteBlob,
       WriteLatest, List, Prune, Pruned, Release, Released, RequestFails, Crash
  <2>1. CASE /\ latest' = latest /\ version'[c] \in {version[c], 0}
             /\ pc'[c] \in Imaged => pc[c] \in Imaged /\ version'[c] = version[c]
    BY <1>0, <2>0, <2>1 DEF LoneAhead, Behind
  <2>2. CASE pc[c] = "latest" /\ latest' = version[c] /\ version' = version /\ pc'[c] \notin Imaged
    BY <1>0, <2>0, <2>2 DEF LoneAhead, Behind, Imaged
  <2>3. CASE Capture(c) \/ ReadVersion(c)
    <3>1. latest' = latest
      BY <2>3 DEF Capture, ReadVersion, storeVars
    <3>2. CASE version' = version /\ pc'[c] \notin Imaged
      BY <2>1, <3>1, <3>2
    <3>3. CASE db[Node[c]] # 0 /\ version'[c] = VersionOf[db[Node[c]]]
      <4>1. VersionOf[db[Node[c]]] \in Nat
        BY <1>0, <3>3
      <4> QED
        BY <1>0, <2>0, <3>1, <3>3, <4>1 DEF LoneAhead, Behind
    <3>4. pc[c] = "version" => db[Node[c]] # 0
      BY DEF Shape
    <3> QED
      BY <2>3, <3>2, <3>3, <3>4 DEF Capture, ReadVersion, Goto, ImageVersion, Imaged
  <2>4. CASE RequestFails(c)
    BY <2>1, <2>2, <2>4 DEF RequestFails, Goto, AfterFailure, Return, PutLatest, PutBlob, storeVars, Imaged
  <2>5. CASE WriteLatest(c)
    BY <2>2, <2>5 DEF WriteLatest, PutLatest, Goto, Imaged
  <2>6. CASE Start(c) \/ Acquired(c) \/ Check(c) \/ CheckFails(c) \/ WriteBlob(c)
    BY <2>1, <2>6 DEF Start, Acquired, Check, CheckFails, WriteBlob, PutBlob, Goto, storeVars, Imaged
  <2>7. CASE List(c) \/ Prune(c) \/ Pruned(c) \/ Release(c) \/ Released(c) \/ Crash(c)
    BY <2>1, <2>7 DEF List, Prune, Pruned, Release, Released, Crash, Return, Goto, storeVars, Imaged
  <2> QED
    BY <1>2, <2>3, <2>4, <2>5, <2>6, <2>7 DEF Run
<1>3. CASE UNCHANGED <<latest, version, pc, db>>
  BY <1>0, <1>3 DEF LoneAhead, Behind
<1>4. CASE Bucket \/ Bootstrap \/ UNCHANGED vars
  BY <1>3, <1>4 DEF Bucket, Bootstrap, BootLatest, BootLatestFails, BootBlob, BootReplay,
     storeVars, runVars, vars
<1> QED
  BY <1>1, <1>2, <1>4 DEF Next
-----------------------------------------------------------------------------
\* "A stalled compactor cannot clobber a newer snapshot" (snapshot.go), by a
\* second route: one compactor with the bucket to itself never writes
\* latest.json back, even when the GET that compares versions fails.
THEOREM LoneMovesForward ==
  ASSUME Lone
  PROVE  Spec => LatestNeverFalls
<1>1. Init => BlobInv /\ LoneAhead
  BY BlobInit DEF Init, LoneAhead, Behind, Imaged
<1>2. BlobInv /\ LoneAhead /\ [Next]_vars => (BlobInv /\ LoneAhead)'
  BY BlobStep, LoneStep
<1>3. BlobInv /\ LoneAhead /\ [Next]_vars => [latest' >= latest]_vars
  BY LoneStep
<1> QED
  BY <1>1, <1>2, <1>3, PTL DEF Spec, LatestNeverFalls

\* As long as latest.json does not go back, what the compactors prune and what
\* Bootstrap replays leave no change between them (pruneChangesets deletes
\* below, bootstrapReplayTail takes above the version), for any number of
\* compactors, with images and versions of one state or of two.
THEOREM JoinsComplete ==
  ASSUME ByUserVersion
  PROVE  Spec /\ LatestNeverFalls => []JoinComplete
<1> DEFINE JoinInv == BlobInv /\ Passed /\ Joined
<1>1. Init => JoinInv
  BY BlobInit, PrunedInit
<1>2. JoinInv /\ [Next]_vars /\ [latest' >= latest]_vars => JoinInv'
  <2> SUFFICES ASSUME JoinInv, [Next]_vars, [latest' >= latest]_vars
               PROVE  JoinInv'
    OBVIOUS
  <2>1. latest' >= latest
    BY NumberFacts DEF BlobInv, vars
  <2> QED
    BY <2>1, BlobStep, PassedStep, JoinedStep
<1>3. JoinInv => JoinComplete
  BY JoinedComplete
<1> QED
  BY <1>1, <1>2, <1>3, PTL DEF Spec, LatestNeverFalls

\* Pruning loses nothing (pruneChangesets): with images that hold what their
\* version says, every change is in the snapshot that latest.json names or its
\* changeset is still there, for any number of compactors on nodes of their own,
\* any number of changes, whatever crashes, fails or comes late.
THEOREM PruningLeavesAll ==
  ASSUME Exclusive, Atomic, ByUserVersion
  PROVE  Spec => []Recoverable
<1> DEFINE All == ExclusiveInv /\ Passed /\ Honest
<1>1. Init => All
  BY ExclusiveInit, PrunedInit
<1>2. All /\ [Next]_vars => All'
  BY ExclusiveStep, PassedStep, HonestStep DEF ExclusiveInv
<1>3. All => Recoverable
  BY PassedRecoverable DEF ExclusiveInv
<1> QED
  BY <1>1, <1>2, <1>3, PTL DEF Spec
-----------------------------------------------------------------------------
\* The owner of the lease goes by the fence of the object, and no compactor has
\* seen a later one.
FenceSound ==
  /\ \A c \in Callers : lastFence[c] <= doc.fence
  /\ \A c \in Callers : pc[c] \in Working => fence[c] = doc.fence
  /\ \A c \in Callers : pc[c] = "acquiring" /\ phase[c]["main"] = "served" =>
       put[c]["main"].body.fence = doc.fence

\* The bucket takes a PUT only while nobody owns the lease, and no fence is lower.
LEMMA DocMoves ==
  ASSUME ExclusiveInv, NEW q \in Puts, Live(q), Accepts(q, doc)
  PROVE  q.body.fence >= doc.fence /\ \A d \in Callers : ~Owner(d)
<1>1. Timely(q)
  BY DEF ExclusiveInv, LeaseSound, PutsTimely
<1>2. q.match = doc
  BY <1>1 DEF Timely, Accepts
<1>3. q.body.fence >= doc.fence
  <2>1. q.body.fence \in Nat /\ doc.fence \in Nat
    BY <1>2 DEF Puts, Docs
  <2> QED
    BY <1>1, <1>2, <2>1 DEF Timely, Rank
<1> QED
  BY <1>2, <1>3 DEF ExclusiveInv, LeaseSound, Owned

\* The bucket: a fence moves only while nobody owns the lease.
LEMMA FenceBucket ==
  ASSUME ExclusiveInv, FenceSound, Bucket
  PROVE  FenceSound'
<1> USE DEF ExclusiveInv, BlobInv, TypeOK
<1>0. UNCHANGED <<pc, fence, lastFence>> /\ doc.fence \in Nat /\ \A c \in Callers : lastFence[c] \in Nat
  BY DEF Bucket, runVars, Docs
<1>1. CASE \E c \in Callers : Serve(c, "main")
  <2> PICK c \in Callers : Serve(c, "main")
    BY <1>1
  <2>1. put[c]["main"] \in Puts /\ Live(put[c]["main"]) /\ put' = put
    BY DEF Serve, Live, Threads
  <2>2. CASE Accepts(put[c]["main"], doc)
    <3>1. /\ doc' = put[c]["main"].body /\ phase' = [phase EXCEPT ![c]["main"] = "served"]
          /\ doc'.fence \in Nat
      BY <2>1, <2>2 DEF Serve, Puts, Docs
    <3>2. doc'.fence >= doc.fence /\ \A d \in Callers : ~Owner(d)
      BY <2>1, <2>2, <3>1, DocMoves
    <3>3. \A d \in Callers : lastFence[d] <= doc'.fence
      BY <1>0, <3>1, <3>2 DEF FenceSound
    <3>4. \A d \in Callers : pc[d] \notin Working /\ (pc[d] = "acquiring" => phase[d]["main"] # "served")
      BY <3>2 DEF Owner
    <3> QED
      BY <1>0, <2>1, <3>1, <3>3, <3>4 DEF FenceSound, Threads
  <2>3. CASE ~Accepts(put[c]["main"], doc)
    <3>1. doc' = doc /\ phase' = [phase EXCEPT ![c]["main"] = "refused"]
      BY <2>3 DEF Serve
    <3>2. \A d \in Callers : phase'[d]["main"] = "served" => phase[d]["main"] = "served"
      BY <3>1 DEF Threads
    <3> QED
      BY <1>0, <2>1, <3>1, <3>2 DEF FenceSound
  <2> QED
    BY <2>2, <2>3
<1>2. CASE \E p \in stray : ServeStray(p)
  <2> PICK p \in stray : ServeStray(p)
    BY <1>2
  <2>1. p \in Puts /\ Live(p) /\ put' = put /\ phase' = phase
    BY DEF ServeStray, Live
  <2>2. CASE Accepts(p, doc)
    <3>1. doc' = p.body /\ doc'.fence \in Nat
      BY <2>1, <2>2 DEF ServeStray, Puts, Docs
    <3>2. doc'.fence >= doc.fence /\ \A d \in Callers : ~Owner(d)
      BY <2>1, <2>2, <3>1, DocMoves
    <3>3. \A d \in Callers : lastFence[d] <= doc'.fence
      BY <1>0, <3>1, <3>2 DEF FenceSound
    <3> QED
      BY <1>0, <2>1, <3>2, <3>3 DEF FenceSound, Owner
  <2>3. CASE ~Accepts(p, doc)
    BY <1>0, <2>1, <2>3 DEF ServeStray, FenceSound
  <2> QED
    BY <2>2, <2>3
<1> QED
  BY <1>1, <1>2 DEF Bucket

\* A Run learns the fence of the object, and remembers it as used.
LEMMA FenceRun ==
  ASSUME ExclusiveInv, FenceSound, NEW c \in Callers, Run(c)
  PROVE  FenceSound'
<1> USE DEF ExclusiveInv, BlobInv, TypeOK
<1>0. doc.fence \in Nat
  BY DEF Docs
<1>1. CASE /\ UNCHANGED leaseVars /\ fence' = fence /\ pc[c] \in Working
           /\ \E l \in PCs : pc' = [pc EXCEPT ![c] = l] /\ l # "acquiring"
           /\ lastFence' \in {lastFence, [lastFence EXCEPT ![c] = fence[c]]}
  <2>0. \A d \in Callers : lastFence'[d] = lastFence[d] \/ (d = c /\ lastFence'[d] = fence[c])
    <3>1. lastFence \in [Callers -> 0..MaxFence]
      OBVIOUS
    <3>2. CASE lastFence' = lastFence
      BY <3>2
    <3>3. CASE lastFence' = [lastFence EXCEPT ![c] = fence[c]]
      BY <3>1, <3>3, Zenon
    <3> QED
      BY <1>1, <3>2, <3>3
  <2>1. \A d \in Callers : lastFence'[d] <= doc.fence
    <3>1. fence[c] = doc.fence /\ \A d \in Callers : lastFence[d] <= doc.fence
      BY <1>1 DEF FenceSound
    <3> QED
      BY <1>0, <2>0, <3>1
  <2>2. \A d \in Callers : pc'[d] \in Working => pc[d] \in Working
    BY <1>1
  <2>3. \A d \in Callers : pc'[d] = "acquiring" => pc[d] = "acquiring"
    BY <1>1
  <2> QED
    BY <1>1, <2>1, <2>2, <2>3 DEF FenceSound, leaseVars
<1>2. CASE /\ Finish(c, {"main"}) \/ Finish(c, Threads)
           /\ \/ Return(c) /\ lastFence' \in {lastFence, [lastFence EXCEPT ![c] = 0]}
              \/ Acquired(c)
  <2>1. /\ doc' = doc /\ phase'[c]["main"] = "none"
        /\ \A d \in Callers \ {c} : put'[d] = put[d] /\ phase'[d] = phase[d]
    BY <1>2 DEF Finish, Threads
  <2>2. CASE Return(c) /\ lastFence' \in {lastFence, [lastFence EXCEPT ![c] = 0]}
    <3>1. pc' = [pc EXCEPT ![c] = "idle"] /\ fence' = [fence EXCEPT ![c] = 0]
      BY <2>2 DEF Return, Goto
    <3>2. \A d \in Callers : lastFence'[d] <= doc.fence
      <4>1. \A d \in Callers : lastFence'[d] = lastFence[d] \/ lastFence'[d] = 0
        <5>1. lastFence \in [Callers -> 0..MaxFence]
          OBVIOUS
        <5>2. CASE lastFence' = lastFence
          BY <5>2
        <5>3. CASE lastFence' = [lastFence EXCEPT ![c] = 0]
          BY <5>1, <5>3
        <5> QED
          BY <2>2, <5>2, <5>3
      <4>2. 0 <= doc.fence /\ \A d \in Callers : lastFence[d] <= doc.fence
        BY <1>0 DEF FenceSound
      <4> QED
        BY <4>1, <4>2
    <3> QED
      BY <2>1, <3>1, <3>2 DEF FenceSound, Working
  <2>3. CASE Acquired(c)
    <3>1. lastFence' = lastFence /\ pc[c] = "acquiring"
      BY <2>3 DEF Acquired
    <3>2. CASE phase[c]["main"] = "served"
      <4>1. fence' = [fence EXCEPT ![c] = doc.fence]
        BY <2>3, <3>2 DEF Acquired, FenceSound
      <4>2. \E l \in {"capture", "release"} : pc' = [pc EXCEPT ![c] = l]
        BY <2>3, <3>2 DEF Acquired, Goto
      <4> QED
        BY <2>1, <3>1, <4>1, <4>2 DEF FenceSound
    <3>3. CASE phase[c]["main"] # "served"
      <4>1. fence' = fence /\ pc' = [pc EXCEPT ![c] = "idle"]
        BY <2>3, <3>3 DEF Acquired, Goto
      <4> QED
        BY <2>1, <3>1, <4>1 DEF FenceSound, Working
    <3> QED
      BY <3>2, <3>3
  <2> QED
    BY <1>2, <2>2, <2>3
<1>3. CASE \E q \in Puts : Send(c, "main", q)
           /\ UNCHANGED <<fence, lastFence>>
           /\ \E l \in {"acquiring", "releasing"} : pc' = [pc EXCEPT ![c] = l]
  BY <1>3 DEF Send, FenceSound, Working, Threads
<1>4. CASE Start(c)
  <2>1. AcquirePut(c, Node[c], doc) \in Puts
    BY <1>4, PutTypes, VersionFacts DEF Start
  <2> QED
    BY <1>3, <1>4, <2>1 DEF Start, Goto
<1>5. CASE Release(c)
  <2>1. ReleasePut(c, doc) \in Puts
    BY PutTypes, VersionFacts
  <2>2. CASE StillHeld(doc, Node[c], fence[c])
    BY <1>3, <1>5, <2>1, <2>2 DEF Release, Goto
  <2>3. CASE ~StillHeld(doc, Node[c], fence[c])
    <3>1. /\ pc' = [pc EXCEPT ![c] = "idle"] /\ fence' = [fence EXCEPT ![c] = 0]
          /\ lastFence' = lastFence /\ UNCHANGED <<doc, put, phase>>
      BY <1>5, <2>3 DEF Release, Return, Goto, leaseVars
    <3> QED
      BY <3>1 DEF FenceSound, Working
  <2> QED
    BY <2>2, <2>3
<1>6. CASE Acquired(c) \/ Released(c) \/ Crash(c)
  BY <1>2, <1>6 DEF Acquired, Released, Crash
<1>7. CASE RequestFails(c)
  BY <1>1, <1>2, <1>7 DEF RequestFails, Goto, AfterFailure, Working, PCs
<1>8. CASE Prune(c)
  BY <1>8 DEF Prune, leaseVars, FenceSound
<1>9. CASE Capture(c) \/ ReadVersion(c) \/ Check(c) \/ CheckFails(c)
  BY <1>1, <1>9 DEF Capture, ReadVersion, Check, CheckFails, Goto, Working, PCs
<1>10. CASE WriteBlob(c) \/ WriteLatest(c) \/ List(c) \/ Pruned(c)
  BY <1>1, <1>10 DEF WriteBlob, WriteLatest, List, Pruned, Goto, Working, PCs
<1> QED
  BY <1>4, <1>5, <1>6, <1>7, <1>8, <1>9, <1>10 DEF Run

\* Every step.
LEMMA FenceStep ==
  ASSUME ExclusiveInv, FenceSound, [Next]_vars
  PROVE  FenceSound'
<1>1. CASE UNCHANGED <<leaseVars, pc, fence, lastFence>>
  BY <1>1 DEF FenceSound, leaseVars
<1>2. CASE Bootstrap \/ UNCHANGED vars
  BY <1>1, <1>2 DEF Bootstrap, BootLatest, BootLatestFails, BootBlob, BootReplay, runVars, leaseVars, vars
<1>3. CASE \E n \in Holders : Change(n) \/ CatchUp(n)
  BY <1>1, <1>3 DEF Change, CatchUp, runVars
<1> QED
  BY <1>2, <1>3, FenceBucket, FenceRun DEF Next

\* Step 4 ends in "release" only when the version is not newer.
LEMMA HeldBack ==
  ASSUME ExclusiveInv, FenceSound, Honest, Exclusive, [Next]_vars,
         NEW c \in Callers, pc[c] = "check", pc'[c] = "release"
  PROVE  image[c] <= Snapshotted
<1> USE DEF ExclusiveInv, BlobInv
<1>1. Check(c)
  <2>1. pc' # pc
    BY DEF TypeOK
  <2>2. PICK d \in Callers : Run(d)
    BY <2>1 DEF Next, Bucket, Change, CatchUp, Bootstrap, BootLatest, BootLatestFails, BootBlob,
       BootReplay, runVars, vars
  <2>3. \E l \in PCs : pc' = [pc EXCEPT ![d] = l]
    BY <2>2, <2>1 DEF Run, Start, Acquired, Capture, ReadVersion, Check, CheckFails, WriteBlob,
       WriteLatest, List, Prune, Pruned, Release, Released, RequestFails, Crash, Return, Goto,
       AfterFailure, PCs
  <2>4. d = c
    BY <2>3 DEF TypeOK
  <2>5. ~Crash(c) /\ ~CheckFails(c)
    BY DEF Crash, Return, Goto, CheckFails, Exclusive, TypeOK
  <2> QED
    BY <2>2, <2>4, <2>5 DEF Run, Start, Acquired, Capture, ReadVersion, WriteBlob,
       WriteLatest, List, Prune, Pruned, Release, Released, RequestFails
<1>2. fence[c] >= lastFence[c]
  <2>1. fence[c] = doc.fence /\ lastFence[c] <= doc.fence
    BY DEF FenceSound, Working
  <2>2. lastFence[c] \in Nat /\ fence[c] \in Nat
    BY DEF TypeOK
  <2> QED
    BY <2>1, <2>2
<1>3. ~Newer(version[c])
  BY <1>1, <1>2 DEF Check, Goto, ValidateFence, TypeOK
<1>4. image[c] = version[c] /\ version[c] # 0
  BY DEF Honest, Shape, Imaged
<1>5. latest # 0 => blobs[latest] = latest
  BY DEF TypeOK, Shape, Honest
<1> QED
  BY <1>3, <1>4, <1>5, NumberFacts DEF Newer, Snapshotted

\* "Changed content yields a different version (a new snapshot is written)"
\* (dbio.go): a Run that step 4 ends is one whose image latest.json already names
\* or a later one; a fence that has not passed is never the reason.
THEOREM ChangesAreWritten ==
  ASSUME Exclusive, Atomic, ByUserVersion
  PROVE  Spec => ChangedIsWritten
<1> DEFINE All == ExclusiveInv /\ FenceSound /\ Honest
<1>1. Init => All
  <2>1. Init => FenceSound
    BY DEF Init, FenceSound, FreeDoc, Working
  <2> QED
    BY <2>1, ExclusiveInit, PrunedInit
<1>2. All /\ [Next]_vars => All'
  BY ExclusiveStep, FenceStep, HonestStep DEF ExclusiveInv
<1>3. All /\ [Next]_vars =>
        [\A c \in Callers : pc[c] = "check" /\ pc'[c] = "release" => image[c] <= Snapshotted]_vars
  BY HeldBack
<1> QED
  BY <1>1, <1>2, <1>3, PTL DEF Spec, ChangedIsWritten
=============================================================================
