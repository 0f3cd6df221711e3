---------------------------- MODULE BucketProofs ----------------------------
(***************************************************************************)
(* The three parts of MCBucket together: what SnapshotProofs shows of      *)
(* compactors in general and LeaseProofs of runs in general, for the       *)
(* compactors of a cluster, for one compactor beside a node that joins     *)
(* while reads of the pointer fail and images are older than their         *)
(* versions, and for runs over a lease that nobody has created, under one  *)
(* specification.                                                          *)
(*                                                                         *)
(* The proof modules are instantiated with the constants that MCBucket     *)
(* gives the specifications; the first lemmas say that the instances have  *)
(* the same initial states and steps.                                      *)
(***************************************************************************)
EXTENDS MCBucket, SnapshotProofs

JoinP == INSTANCE SnapshotProofs WITH
           Callers <- {n1}, Holders <- {n1}, Node <- Alone, Atomic <- FALSE,
           Joining <- TRUE, Faults <- Faults \cup {"blind"}

FreshP == INSTANCE LeaseProofs WITH
            Jobs <- {n1}, Existing <- FALSE, Faults <- {"expiry"}

\* The constants of the instances are what their modules assume.
LEMMA InstanceConstants ==
  /\ Alone \in [{n1} -> {n1}]
  /\ NoHolder \notin {n1} /\ {n1} \subseteq Holders
  /\ Callers = Holders
BY LeaseConstants, BucketConstants DEF Alone

\* The joining instance, under both names.
LEMMA JoinSame ==
  /\ Join!Init => JoinP!Init
  /\ Join!Next => JoinP!Next
  /\ Join!TypeOK <=> JoinP!TypeOK
BY DEF Join!Init, JoinP!Init, Join!Next, JoinP!Next, Join!TypeOK, JoinP!TypeOK,
      Join!Threads, Join!Docs, Join!FreeDoc, Join!HeldDoc, Join!AbsentDoc, Join!Puts,
      Join!Phases, Join!leaseVars, Join!NoPut, Join!AcquirePut, Join!ReleasePut,
      Join!Refused, Join!StillHeld, Join!ValidateFence, Join!Accepts, Join!Send,
      Join!Serve, Join!ServeStray, Join!Finish, Join!Versions, Join!runVars,
      Join!storeVars, Join!bootVars, Join!PCs, Join!Goto, Join!Return, Join!Change,
      Join!CatchUp, Join!Start, Join!Acquired, Join!ImageVersion, Join!Capture,
      Join!ReadVersion, Join!Newer, Join!Check, Join!CheckFails, Join!PutBlob,
      Join!PutLatest, Join!WriteBlob, Join!WriteLatest, Join!Covered, Join!List,
      Join!Prune, Join!Pruned, Join!Release, Join!Released, Join!AfterFailure,
      Join!RequestFails, Join!Crash, Join!BootLatest, Join!BootLatestFails, Join!BootBlob,
      Join!Tail, Join!BootReplay, Join!Bucket, Join!Run, Join!Bootstrap,
      JoinP!Threads, JoinP!Docs, JoinP!FreeDoc, JoinP!HeldDoc, JoinP!AbsentDoc,
      JoinP!Puts, JoinP!Phases, JoinP!leaseVars, JoinP!NoPut, JoinP!AcquirePut,
      JoinP!ReleasePut, JoinP!Refused, JoinP!StillHeld, JoinP!ValidateFence,
      JoinP!Accepts, JoinP!Send, JoinP!Serve, JoinP!ServeStray, JoinP!Finish,
      JoinP!Versions, JoinP!runVars, JoinP!storeVars, JoinP!bootVars, JoinP!PCs,
      JoinP!Goto, JoinP!Return, JoinP!Change, JoinP!CatchUp, JoinP!Start, JoinP!Acquired,
      JoinP!ImageVersion, JoinP!Capture, JoinP!ReadVersion, JoinP!Newer, JoinP!Check,
      JoinP!CheckFails, JoinP!PutBlob, JoinP!PutLatest, JoinP!WriteBlob,
      JoinP!WriteLatest, JoinP!Covered, JoinP!List, JoinP!Prune, JoinP!Pruned,
      JoinP!Release, JoinP!Released, JoinP!AfterFailure, JoinP!RequestFails, JoinP!Crash,
      JoinP!BootLatest, JoinP!BootLatestFails, JoinP!BootBlob, JoinP!Tail,
      JoinP!BootReplay, JoinP!Bucket, JoinP!Run, JoinP!Bootstrap

\* The instance without a lease, under both names.
LEMMA FreshSame ==
  /\ Fresh!Init => FreshP!Init
  /\ Fresh!Next => FreshP!Next
  /\ Fresh!TypeOK <=> FreshP!TypeOK
BY DEF Fresh!Init, FreshP!Init, Fresh!Next, FreshP!Next, Fresh!TypeOK, FreshP!TypeOK,
      Fresh!Threads, Fresh!Docs, Fresh!FreeDoc, Fresh!HeldDoc, Fresh!AbsentDoc,
      Fresh!Puts, Fresh!Phases, Fresh!leaseVars, Fresh!NoPut, Fresh!CreatePut,
      Fresh!AcquirePut, Fresh!RenewPut, Fresh!ReleasePut, Fresh!Refused, Fresh!StillHeld,
      Fresh!ValidateFence, Fresh!Accepts, Fresh!Send, Fresh!Serve, Fresh!ServeStray,
      Fresh!Finish, Fresh!PCs, Fresh!runVars, Fresh!resVars, Fresh!Goto,
      Fresh!EnsureLease, Fresh!AcquireGet, Fresh!Acquired, Fresh!RenewFails,
      Fresh!Cancelled, Fresh!RenewGet, Fresh!Renewed, Fresh!RenewCut, Fresh!RenewStops,
      Fresh!Use, Fresh!RunEnds, Fresh!Drained, Fresh!ReleaseGet, Fresh!Released,
      Fresh!CallFails, Fresh!RenewGetFails, Fresh!Crash, Fresh!Bucket, Fresh!Loop,
      Fresh!Main,
      FreshP!Threads, FreshP!Docs, FreshP!FreeDoc, FreshP!HeldDoc, FreshP!AbsentDoc,
      FreshP!Puts, FreshP!Phases, FreshP!leaseVars, FreshP!NoPut, FreshP!CreatePut,
      FreshP!AcquirePut, FreshP!RenewPut, FreshP!ReleasePut, FreshP!Refused,
      FreshP!StillHeld, FreshP!ValidateFence, FreshP!Accepts, FreshP!Send, FreshP!Serve,
      FreshP!ServeStray, FreshP!Finish, FreshP!PCs, FreshP!runVars, FreshP!resVars,
      FreshP!Goto, FreshP!EnsureLease, FreshP!AcquireGet, FreshP!Acquired,
      FreshP!RenewFails, FreshP!Cancelled, FreshP!RenewGet, FreshP!Renewed,
      FreshP!RenewCut, FreshP!RenewStops, FreshP!Use, FreshP!RunEnds, FreshP!Drained,
      FreshP!ReleaseGet, FreshP!Released, FreshP!CallFails, FreshP!RenewGetFails,
      FreshP!Crash, FreshP!Bucket, FreshP!Loop, FreshP!Main

\* Each part begins as its specification says,
LEMMA PartsInit ==
  ASSUME BucketInit
  PROVE  /\ focus \in {"compact", "join", "fresh"}
         /\ focus = "compact" => Init
         /\ focus = "join" => JoinP!Init
         /\ focus = "fresh" => FreshP!Init /\ latest = 0 /\ boot = "idle"
BY JoinSame, FreshSame DEF BucketInit, NoCompactor

\* and takes its own steps.
LEMMA PartsStep ==
  ASSUME [BucketNext]_bucketVars
  PROVE  /\ focus' = focus
         /\ focus = "compact" => [Next]_vars
         /\ focus = "join" => [JoinP!Next]_(JoinP!vars)
         /\ focus = "fresh" => [FreshP!Next]_(FreshP!vars) /\ UNCHANGED <<latest, boot>>
<1>1. CASE BucketNext
  BY <1>1, JoinSame, FreshSame DEF BucketNext, compactorVars
<1>2. CASE UNCHANGED bucketVars
  BY <1>2 DEF bucketVars, vars, runnerVars, JoinP!vars, FreshP!vars
<1> QED
  BY <1>1, <1>2
-----------------------------------------------------------------------------
\* Types of each part, and no pointer without its blob.
PartsInv ==
  /\ focus \in {"compact", "join", "fresh"}
  /\ focus = "compact" => BlobInv
  /\ focus = "join" => JoinP!BlobInv
  /\ focus = "fresh" => FreshP!TypeOK /\ latest = 0 /\ boot = "idle"

\* The parts at the beginning.
LEMMA PartsInvInit ==
  ASSUME BucketInit
  PROVE  PartsInv
<1>1. JoinP!Init => JoinP!BlobInv
  BY JoinP!BlobInit, InstanceConstants, LeaseConstants, CompactorConstants
<1>2. FreshP!Init => FreshP!TypeOK
  BY FreshP!TypesInit, InstanceConstants, LeaseConstants
<1> QED
  BY <1>1, <1>2, BlobInit, PartsInit DEF PartsInv

\* And after a step.
LEMMA PartsInvStep ==
  ASSUME PartsInv, [BucketNext]_bucketVars
  PROVE  PartsInv'
<1>1. JoinP!BlobInv /\ [JoinP!Next]_(JoinP!vars) => JoinP!BlobInv'
  BY JoinP!BlobStep, InstanceConstants, LeaseConstants, CompactorConstants
<1>2. FreshP!TypeOK /\ [FreshP!Next]_(FreshP!vars) => FreshP!TypeOK'
  BY FreshP!TypesStep, InstanceConstants, LeaseConstants
<1> QED
  BY <1>1, <1>2, BlobStep, PartsStep DEF PartsInv

\* Every request, document and counter of the three parts keeps its type: no
\* fence leaves its range, and no PUT that is served late writes a document that
\* the manager would not.
THEOREM BucketTypes == BucketSpec => []BucketTypeOK
<1>1. PartsInv => BucketTypeOK
  BY JoinSame, FreshSame DEF PartsInv, BlobInv, JoinP!BlobInv, BucketTypeOK
<1>2. BucketInit => PartsInv
  BY PartsInvInit
<1>3. PartsInv /\ [BucketNext]_bucketVars => PartsInv'
  BY PartsInvStep
<1> QED
  BY <1>1, <1>2, <1>3, PTL DEF BucketSpec

\* latest.json never names a blob that is not there, in any of the parts: Run
\* writes the blob first, whatever fails or crashes between the two PUTs.
THEOREM BucketPointer == BucketSpec => []LatestHasBlob
<1>1. PartsInv => LatestHasBlob
  BY DEF PartsInv, BlobInv, JoinP!BlobInv, Shape, JoinP!Shape, LatestHasBlob, Snapshotted
<1>2. BucketInit => PartsInv
  BY PartsInvInit
<1>3. PartsInv /\ [BucketNext]_bucketVars => PartsInv'
  BY PartsInvStep
<1> QED
  BY <1>1, <1>2, <1>3, PTL DEF BucketSpec
-----------------------------------------------------------------------------
\* The cluster's compactors have the lease one at a time; the one beside the
\* joining node is alone.  In both, what is pruned lies below the pointer.
OrderInv ==
  /\ PartsInv
  /\ focus = "compact" => ExclusiveInv /\ Passed /\ Joined
  /\ focus = "join" => JoinP!LoneAhead /\ JoinP!Passed /\ JoinP!Joined

\* Versions that count the changes follow them.
LEMMA JoinLone ==
  ASSUME ByUserVersion
  PROVE  JoinP!Lone /\ JoinP!ByUserVersion
BY CompactorConstants DEF ByUserVersion, JoinP!Lone, JoinP!ByUserVersion

\* Nothing is pruned at the beginning.
LEMMA OrderInit ==
  ASSUME BucketInit
  PROVE  OrderInv
<1>1. JoinP!Init => JoinP!Passed /\ JoinP!Joined
  BY JoinP!PrunedInit, InstanceConstants, LeaseConstants, CompactorConstants
<1>2. JoinP!Init => JoinP!LoneAhead
  BY InstanceConstants DEF JoinP!Init, JoinP!LoneAhead, JoinP!Behind, JoinP!Imaged
<1> QED
  BY <1>1, <1>2, PartsInit, PartsInvInit, ExclusiveInit, PrunedInit DEF OrderInv

\* A step prunes below the pointer and does not set it back.
LEMMA OrderStep ==
  ASSUME Exclusive, ByUserVersion, OrderInv, [BucketNext]_bucketVars
  PROVE  OrderInv' /\ latest' >= latest
<1>1. CASE focus = "compact"
  <2>1. [Next]_vars /\ focus' = "compact" /\ BlobInv
    BY <1>1, PartsStep DEF OrderInv, PartsInv
  <2>2. ExclusiveInv' /\ latest' >= latest
    BY <1>1, <2>1, ExclusiveStep DEF OrderInv
  <2>3. Passed' /\ Joined'
    BY <1>1, <2>1, <2>2, PassedStep, JoinedStep DEF OrderInv
  <2> QED
    BY <2>1, <2>2, <2>3, PartsInvStep DEF OrderInv
<1>2. CASE focus = "join"
  <2> USE InstanceConstants, LeaseConstants, CompactorConstants
  <2>1. [JoinP!Next]_(JoinP!vars) /\ focus' = "join" /\ JoinP!BlobInv
    BY <1>2, PartsStep DEF OrderInv, PartsInv
  <2>2. JoinP!LoneAhead' /\ latest' >= latest
    BY <1>2, <2>1, JoinLone, JoinP!LoneStep DEF OrderInv
  <2>3. JoinP!Passed'
    BY <1>2, <2>1, <2>2, JoinP!PassedStep DEF OrderInv
  <2>4. JoinP!Joined'
    BY <1>2, <2>1, <2>2, JoinP!JoinedStep DEF OrderInv
  <2> QED
    BY <2>1, <2>2, <2>3, <2>4, PartsInvStep DEF OrderInv
<1>3. CASE focus = "fresh"
  <2>1. focus' = "fresh" /\ latest = 0 /\ latest' = latest
    BY <1>3, PartsStep DEF OrderInv, PartsInv
  <2> QED
    BY <2>1, PartsInvStep DEF OrderInv
<1> QED
  BY <1>1, <1>2, <1>3 DEF OrderInv, PartsInv

\* "A stalled compactor cannot clobber a newer snapshot" (snapshot.go): the
\* pointer never goes back, for any number of compactors that keep their lease to
\* the end, and for one alone whose reads of the pointer fail.
THEOREM BucketMovesForward ==
  ASSUME Exclusive, ByUserVersion
  PROVE  BucketSpec => LatestNeverFalls
<1>1. BucketInit => OrderInv
  BY OrderInit
<1>2. OrderInv /\ [BucketNext]_bucketVars => OrderInv'
  BY OrderStep
<1>3. OrderInv /\ [BucketNext]_bucketVars => [latest' >= latest]_vars
  BY OrderStep
<1> QED
  BY <1>1, <1>2, <1>3, PTL DEF BucketSpec, LatestNeverFalls

\* A node that bootstraps has every change made before it began, in the snapshot
\* or in the changesets it replays (bootstrap.go), although compactors prune
\* meanwhile, their reads fail and their images may be older than their versions.
THEOREM BucketJoins ==
  ASSUME Exclusive, ByUserVersion
  PROVE  BucketSpec => []JoinComplete
<1>1. OrderInv => JoinComplete
  <2>1. BlobInv /\ Joined => JoinComplete
    BY JoinedComplete
  <2>2. JoinP!BlobInv /\ JoinP!Joined => JoinP!JoinComplete
    BY JoinLone, JoinP!JoinedComplete, InstanceConstants, LeaseConstants, CompactorConstants
  <2>3. JoinP!JoinComplete => JoinComplete
    BY DEF JoinP!JoinComplete, JoinP!BaseHonest, JoinComplete, BaseHonest
  <2>4. boot = "idle" => JoinComplete
    BY DEF JoinComplete
  <2> QED
    BY <2>1, <2>2, <2>3, <2>4 DEF OrderInv, PartsInv
<1>2. BucketInit => OrderInv
  BY OrderInit
<1>3. OrderInv /\ [BucketNext]_bucketVars => OrderInv'
  BY OrderStep
<1> QED
  BY <1>1, <1>2, <1>3, PTL DEF BucketSpec

\* Pruning loses nothing (pruneChangesets): with images that hold what their
\* version says, every change is in the snapshot that latest.json names or its
\* changeset is still there, whatever crashes, fails or comes late.
THEOREM PruningLosesNothing ==
  ASSUME Exclusive, Atomic, ByUserVersion
  PROVE  BucketSpec => []PruneLosesNothing
<1> DEFINE PruneInv == focus = "compact" => Honest
<1>1. BucketInit => OrderInv /\ PruneInv
  BY OrderInit, PartsInit, PrunedInit
<1>2. OrderInv /\ PruneInv /\ [BucketNext]_bucketVars => (OrderInv /\ PruneInv)'
  BY OrderStep, PartsStep, HonestStep DEF OrderInv, PartsInv
<1>3. OrderInv /\ PruneInv => PruneLosesNothing
  BY PassedRecoverable DEF PruneLosesNothing, OrderInv, PartsInv
<1> QED
  BY <1>1, <1>2, <1>3, PTL DEF BucketSpec
=============================================================================
