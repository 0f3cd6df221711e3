----------------------------- MODULE SyncRounds ------------------------------
(***************************************************************************)
(* The sync protocol over the replicated store (crdtsync/syncer.go,        *)
(* handlers.go, policy.go).  Each box runs one loop: for every peer it can *)
(* dial and every domain it replicates it pulls a delta, merges it, pushes *)
(* what the peer lacked when it answered, and repeats while either delta   *)
(* was cut at the limit, at most MaxRounds times.  The first error ends    *)
(* the work with that peer, for this domain and for those after it.        *)
(*                                                                         *)
(* Ops are numbers per domain and origin: CrdtStore shows what a box's     *)
(* tables hold once its version vector has reached a number, and that its  *)
(* queries may be taken as one step.  Domains are numbers in the order in  *)
(* which SyncableDomains sorts them.                                       *)
(***************************************************************************)
EXTENDS Integers, FiniteSets, FiniteSetsExt

CONSTANTS
  N,          \* number of boxes
  D,          \* number of domains
  Allowed,    \* Store.allowed: the domains each box replicates
  Dials,      \* the peers a box discovers and clientFor finds a client for
  DeltaLimit, \* ops per delta
  MaxRounds,  \* maxRoundsPerPeer
  Budget,     \* bound: ops each box originates, per domain
  MaxSeq,     \* bound: the largest of them
  MaxCrashes, \* bound: how often a process dies
  Faults      \* the failures of a run: "network", "compact"

Boxes   == 1..N
Domains == 1..D

ASSUME SyncConstants ==
  /\ N \in Nat \ {0}
  /\ D \in Nat \ {0}
  /\ Allowed \in [Boxes -> SUBSET Domains]
  /\ Dials \in [Boxes -> SUBSET Boxes]
  /\ \A b \in Boxes : b \notin Dials[b]      \* isSelf
  /\ \A b \in Boxes : Allowed[b] # {}        \* NewSyncer
  /\ DeltaLimit \in Nat \ {0}
  /\ MaxRounds \in Nat \ {0}
  /\ MaxSeq \in Nat
  /\ MaxCrashes \in Nat
  /\ Budget \in [Boxes -> [Domains -> 0..MaxSeq]]

VVs == [Boxes -> 0..MaxSeq]
NoVV == [a \in Boxes |-> 0]

VARIABLES
  vv,    \* Store.VersionVector of each box and domain
  floor, \* the compaction floors
  loop,  \* Syncer.Run of each box
  crashes

vars == <<vv, floor, loop, crashes>>
-----------------------------------------------------------------------------
(* Store.Delta and Store.Merge on version vectors                          *)

\* How many ops of an actor, and of all those in S, a peer at pv lacks.
Missing(have, pv, a) == IF have[a] > pv[a] THEN have[a] - pv[a] ELSE 0
MissingOps(have, pv, S) ==
  {o \in S \X (1..MaxSeq) : pv[o[1]] < o[2] /\ o[2] <= have[o[1]]}
MissingOf(have, pv, S) == Cardinality(MissingOps(have, pv, S))

\* Fault: a delta that ends at the limit is not marked as cut.
Cut_Unnoticed(have, pv) == FALSE

\* Delta.Truncated: more is missing than fits.
Cut(have, pv) == MissingOf(have, pv, Boxes) > DeltaLimit

\* Fault: one op less than fits.
Share_OneShort(have, pv, a) ==
  Min({Missing(have, pv, a),
       Max({0, DeltaLimit - 1 - MissingOf(have, pv, {c \in Boxes : c < a})})})

\* The ops a delta carries of actor a: the actors are served in their order,
\* each with a prefix of what is missing, until the limit is spent.
Share(have, pv, a) ==
  Min({Missing(have, pv, a),
       Max({0, DeltaLimit - MissingOf(have, pv, {c \in Boxes : c < a})})})

\* An answer: from where and to where it leads, and the sender's own vector.
Delta(b, d, pv) ==
  LET have == vv[b][d]
      snap == \E a \in Boxes : pv[a] < floor[b][d][a] /\ have[a] > pv[a]
  IN  IF snap
      THEN [from |-> NoVV, to |-> have, sender |-> have, cut |-> FALSE, snap |-> TRUE]
      ELSE [from |-> pv, to |-> [a \in Boxes |-> pv[a] + Share(have, pv, a)],
            sender |-> have, cut |-> Cut(have, pv), snap |-> FALSE]

NoDelta == [from |-> NoVV, to |-> NoVV, sender |-> NoVV, cut |-> FALSE, snap |-> FALSE]
Deltas == [from : VVs, to : VVs, sender : VVs, cut : BOOLEAN, snap : BOOLEAN]

Carries(delta) == delta.snap \/ \E a \in Boxes : delta.to[a] > delta.from[a]

\* Fault: the vector is set to where the delta leads.
Merged_Overwrites(have, delta) == delta.to

\* Merge: a run of ops counts only where it joins what the box has.
Merged(have, delta) ==
  [a \in Boxes |-> IF delta.from[a] <= have[a]
                   THEN Max({have[a], delta.to[a]}) ELSE have[a]]

\* ApplySnapshot: the rows it stands for never reach this log.
MergedFloor(fl, delta) ==
  IF delta.snap THEN [a \in Boxes |-> Max({fl[a], delta.to[a]})] ELSE fl

MergeAt(b, d, delta) ==
  /\ vv' = [vv EXCEPT ![b][d] = Merged(@, delta)]
  /\ floor' = [floor EXCEPT ![b][d] = MergedFloor(@, delta)]
  /\ UNCHANGED crashes
-----------------------------------------------------------------------------
(* The loop of a box                                                       *)

Idle == [pc |-> "idle", todo |-> {}, peer |-> 0, dom |-> 0, round |-> 0,
         ask |-> NoVV, in |-> NoDelta, out |-> NoDelta]

Init ==
  /\ vv = [b \in Boxes |-> [d \in Domains |-> NoVV]]
  /\ floor = [b \in Boxes |-> [d \in Domains |-> NoVV]]
  /\ loop = [b \in Boxes |-> Idle]
  /\ crashes = 0

\* A local transaction, of the SQL bridge or the application.
Write(b, d) ==
  /\ d \in Allowed[b]
  /\ vv[b][d][b] < Budget[b][d]
  /\ vv' = [vv EXCEPT ![b][d][b] = @ + 1]
  /\ UNCHANGED <<floor, loop, crashes>>

\* SyncOnce is done with a peer: the next one, or the end of the cycle.
NextPeer(todo) ==
  IF todo = {} THEN Idle ELSE [Idle EXCEPT !.pc = "peer", !.todo = todo]

\* Run's ticker, or a nudge: SyncOnce with the peers discovered.
StartCycle(b) ==
  /\ loop[b].pc = "idle"
  /\ Dials[b] # {}
  /\ loop' = [loop EXCEPT ![b] = NextPeer(Dials[b])]
  /\ UNCHANGED <<vv, floor, crashes>>

\* syncDomain reads the version vector and posts the pull.
Pull(b, l, d, round) ==
  [l EXCEPT !.pc = "pull", !.dom = d, !.round = round, !.ask = vv[b][d],
            !.in = NoDelta, !.out = NoDelta]

\* syncPeer begins with the first domain.
DialPeer(b, p) ==
  /\ loop[b].pc = "peer"
  /\ p \in loop[b].todo
  /\ loop' = [loop EXCEPT ![b] =
       Pull(b, [loop[b] EXCEPT !.peer = p, !.todo = @ \ {p}], Min(Allowed[b]), 0)]
  /\ UNCHANGED <<vv, floor, crashes>>

\* The peer's handler answers with a delta.
PullServed(b, p, d) ==
  /\ loop[b].pc = "pull"
  /\ loop[b].peer = p
  /\ loop[b].dom = d
  /\ d \in Allowed[p]
  /\ loop' = [loop EXCEPT ![b].pc = "merge",
                          ![b].in = Delta(p, d, loop[b].ask)]
  /\ UNCHANGED <<vv, floor, crashes>>

\* An error of syncDomain ends syncPeer.
Abandon(b, l) == NextPeer(l.todo)

\* The handler answers 403: the peer does not replicate the domain.
PullRefused(b) ==
  /\ loop[b].pc = "pull"
  /\ loop[b].dom \notin Allowed[loop[b].peer]
  /\ loop' = [loop EXCEPT ![b] = Abandon(b, loop[b])]
  /\ UNCHANGED <<vv, floor, crashes>>

\* A pull or a push that never reaches the peer, or a pull whose answer is lost.
PostFails(b) ==
  /\ "network" \in Faults
  /\ loop[b].pc \in {"pull", "push"}
  /\ loop' = [loop EXCEPT ![b] = Abandon(b, loop[b])]
  /\ UNCHANGED <<vv, floor, crashes>>

MergePulled(b) ==
  /\ loop[b].pc = "merge"
  /\ MergeAt(b, loop[b].dom, loop[b].in)
  /\ loop' = [loop EXCEPT ![b].pc = "reverse"]

\* The end of one round of syncDomain: another one if something was cut, else
\* the next domain, else the next peer.
EndRound(b, l) ==
  LET later == {d \in Allowed[b] : d > l.dom}
  IN  IF (l.in.cut \/ l.out.cut) /\ l.round + 1 < MaxRounds
      THEN Pull(b, l, l.dom, l.round + 1)
      ELSE IF later = {} THEN NextPeer(l.todo) ELSE Pull(b, l, Min(later), 0)

\* Fault: the push is computed from the vector this box asked with.
ReverseFrom_OwnVector(l) == l.ask

\* The reverse direction starts from what the peer had when it answered.
ReverseFrom(l) == l.in.sender

\* The reverse delta; a push only when it carries something.
ReverseDelta(b) ==
  /\ loop[b].pc = "reverse"
  /\ LET l == [loop[b] EXCEPT !.out = Delta(b, loop[b].dom, ReverseFrom(loop[b]))]
     IN  loop' = [loop EXCEPT ![b] =
                    IF Carries(l.out) THEN [l EXCEPT !.pc = "push"] ELSE EndRound(b, l)]
  /\ UNCHANGED <<vv, floor, crashes>>

\* The peer's handler merges; its domain check has passed with the pull.
PushServed(b, p, d) ==
  /\ loop[b].pc = "push"
  /\ loop[b].peer = p
  /\ loop[b].dom = d
  /\ MergeAt(p, d, loop[b].out)
  /\ loop' = [loop EXCEPT ![b].pc = "pushed"]

PushAnswered(b) ==
  /\ loop[b].pc = "pushed"
  /\ loop' = [loop EXCEPT ![b] = EndRound(b, loop[b])]
  /\ UNCHANGED <<vv, floor, crashes>>

\* The peer has merged and the answer is lost.
PushAnswerLost(b) ==
  /\ "network" \in Faults
  /\ loop[b].pc = "pushed"
  /\ loop' = [loop EXCEPT ![b] = Abandon(b, loop[b])]
  /\ UNCHANGED <<vv, floor, crashes>>

\* The process dies; the database stays.
Crash(b) ==
  /\ loop[b].pc # "idle"
  /\ crashes < MaxCrashes
  /\ crashes' = crashes + 1
  /\ loop' = [loop EXCEPT ![b] = Idle]
  /\ UNCHANGED <<vv, floor>>

\* Store.Compact, to the version vector less what is kept of each actor.
Compact(b, d, keep) ==
  /\ "compact" \in Faults
  /\ floor' = [floor EXCEPT ![b][d] =
       [a \in Boxes |-> Max({@[a], vv[b][d][a] - keep})]]
  /\ floor' # floor
  /\ UNCHANGED <<vv, loop, crashes>>

\* Whatever the loop of a box does next, be it that a post fails.
Step(b) ==
  \/ StartCycle(b)
  \/ \E p \in Boxes : DialPeer(b, p)
  \/ \E p \in Boxes, d \in Domains : PullServed(b, p, d) \/ PushServed(b, p, d)
  \/ PullRefused(b)
  \/ PostFails(b)
  \/ MergePulled(b)
  \/ ReverseDelta(b)
  \/ PushAnswered(b)
  \/ PushAnswerLost(b)

Next ==
  \E b \in Boxes :
    \/ Step(b)
    \/ Crash(b)
    \/ \E d \in Domains : Write(b, d)
    \/ \E d \in Domains, keep \in 0..MaxSeq : Compact(b, d, keep)

Spec == Init /\ [][Next]_vars

(***************************************************************************)
(* The ticker fires and a post ends, with an answer or an error: the loop  *)
(* never hangs.  Posts may fail again and again, but one that is repeated  *)
(* for ever gets through at last.                                          *)
(***************************************************************************)
Fairness ==
  /\ \A b \in {c \in Boxes : Dials[c] # {}} :
       WF_vars(Step(b)) /\ SF_vars(PushAnswered(b))
  /\ \A b \in Boxes : \A p \in Dials[b] : \A d \in Allowed[b] \cap Allowed[p] :
       SF_vars(PullServed(b, p, d)) /\ SF_vars(PushServed(b, p, d))

FairSpec == Spec /\ Fairness
-----------------------------------------------------------------------------
\* Every variable has its type.
TypeOK ==
  /\ vv \in [Boxes -> [Domains -> VVs]]
  /\ floor \in [Boxes -> [Domains -> VVs]]
  /\ loop \in [Boxes -> [pc : {"idle", "peer", "pull", "merge", "reverse", "push",
                               "pushed"},
                         todo : SUBSET Boxes, peer : Boxes \cup {0},
                         dom : Domains \cup {0}, round : 0..(MaxRounds - 1),
                         ask : VVs, in : Deltas, out : Deltas]]
  /\ crashes \in 0..MaxCrashes

\* A delta joins what its receiver has: no merge leaves ops stranded behind a
\* gap, whatever has been written, merged and compacted since the vector it
\* was computed from was read.
NoGap ==
  \A b \in Boxes : \A a \in Boxes :
    LET l == loop[b] IN
      /\ l.pc = "merge" => l.in.from[a] <= vv[b][l.dom][a]
      /\ l.pc = "push" => l.out.from[a] <= vv[l.peer][l.dom][a]

\* Unless a delta was cut, a round leaves each side with everything the other
\* had at the exchange: syncDomain stops for this reason alone, or because its
\* rounds are used up.
RoundExchanges ==
  \A b \in Boxes :
    LET l == loop[b] IN
      /\ l.pc \in {"reverse", "push", "pushed"} /\ ~l.in.cut =>
           \A a \in Boxes : vv[b][l.dom][a] >= l.in.sender[a]
      /\ l.pc = "pushed" /\ ~l.out.cut =>
           \A a \in Boxes : vv[l.peer][l.dom][a] >= l.out.sender[a]

\* A write reaches every box that shares its domain with the writer and can
\* exchange it: one of the two dials the other, and the dialled one refuses no
\* domain that comes before it in the dialler's list.
Reaches(b, p, d) ==
  /\ p \in Dials[b]
  /\ d \in Allowed[p]
  /\ \A e \in Allowed[b] : e < d => e \in Allowed[p]

CaughtUp ==
  \A b, a \in Boxes, d \in Domains, n \in 1..MaxSeq :
    d \in Allowed[a] \cap Allowed[b] /\ (Reaches(a, b, d) \/ Reaches(b, a, d)) =>
      (vv[a][d][a] >= n ~> vv[b][d][a] >= n)
-----------------------------------------------------------------------------
(* The protocol implements OpSets, with one op per domain, origin, number. *)

OpsOf(b, d, a) == {[actor |-> a, dom |-> d, seq |-> n] : n \in 1..vv[b][d][a]}
issued == UNION {OpsOf(a, d, a) : a \in Boxes, d \in Domains}
known == [b \in Boxes |-> UNION {OpsOf(b, d, a) : a \in Boxes, d \in Domains}]

EarlierOp(p, o) == p.actor = o.actor /\ p.dom = o.dom /\ p.seq < o.seq

Abstract == INSTANCE OpSets WITH Precedes <- EarlierOp

\* Rounds, lost answers, crashes and compactions only ever add to what a box
\* has acknowledged, of each origin in order, and only what was written.
ImplementsOpSets == Abstract!Spec
=============================================================================
