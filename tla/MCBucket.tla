------------------------------- MODULE MCBucket -------------------------------
(* What boxes keep in a bucket, in one run: Init picks what is explored.     *)
(*   "compact"  compactors on two nodes, over a lease that exists;           *)
(*   "join"     one compactor, whose image and version may be of different   *)
(*              states, and a node that bootstraps meanwhile;                *)
(*   "fresh"    a job and an app over a lease that nobody has created yet.   *)
(* The last two are instances over the same variables with other constants.  *)
EXTENDS SnapshotCompactor

\* The nodes; a compactor is named after its node.
CONSTANTS n1, n2

ASSUME BucketConstants ==
  /\ Callers = Holders
  /\ n1 \in Holders

VARIABLES focus, renewing, lost, lastSeen, user, past, seized

runnerVars == <<renewing, lost, lastSeen, user, past, seized>>
compactorVars == <<made, db, changes, blobs, latest, lastFence, image, version, doomed,
                   boot, base, have, owed>>
bucketVars == <<focus, vars, runnerVars>>

\* One compactor on each of two nodes, and one alone.
OnTwoNodes == [n \in {n1, n2} |-> n]
Alone      == [n \in {n1} |-> n]

\* PRAGMA user_version, kept by the operator.
UserVersion == [k \in 1..MaxChange |-> k]

Join == INSTANCE SnapshotCompactor WITH
          Callers <- {n1}, Holders <- {n1}, Node <- Alone, Atomic <- FALSE,
          Joining <- TRUE, Faults <- Faults \cup {"blind"}

Fresh == INSTANCE LeaseRunner WITH
           Jobs <- {n1}, Existing <- FALSE, Faults <- {"expiry"}

Unused == renewing = 0 /\ lost = 0 /\ lastSeen = 0 /\ user = 0 /\ past = 0 /\ seized = 0
NoCompactor ==
  /\ made = 0 /\ db = 0 /\ changes = 0 /\ blobs = 0 /\ latest = 0 /\ lastFence = 0
  /\ image = 0 /\ version = 0 /\ doomed = 0 /\ boot = "idle" /\ base = 0 /\ have = 0 /\ owed = 0

BucketInit ==
  \/ focus = "compact" /\ Init /\ Unused
  \/ focus = "join" /\ Join!Init /\ Unused
  \/ focus = "fresh" /\ Fresh!Init /\ NoCompactor

BucketNext ==
  /\ UNCHANGED focus
  /\ \/ focus = "compact" /\ Next /\ UNCHANGED runnerVars
     \/ focus = "join" /\ Join!Next /\ UNCHANGED runnerVars
     \/ focus = "fresh" /\ Fresh!Next /\ UNCHANGED compactorVars

BucketSpec == BucketInit /\ [][BucketNext]_bucketVars

\* Types of the three.
BucketTypeOK ==
  /\ focus = "compact" => TypeOK
  /\ focus = "join" => Join!TypeOK
  /\ focus = "fresh" => Fresh!TypeOK

\* Recoverable of the two compactors, whose images have the version they are
\* reported with.
PruneLosesNothing == focus = "compact" => Recoverable
===============================================================================
