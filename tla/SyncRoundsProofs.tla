--------------------------- MODULE SyncRoundsProofs ---------------------------
(***************************************************************************)
(* The sync protocol leaves no gap and no uncut exchange unfinished, and   *)
(* implements OpSets: for any number of boxes and domains, any limits, any *)
(* topology, and lost posts, crashes and compactions at any time.          *)
(*                                                                         *)
(* The vectors a box works with are stale: it asks with its own, is told   *)
(* the peer's, and both go on changing until the merge.  RoundInv says     *)
(* what is left of each reading, and every part of it lasts because no     *)
(* step lowers a version vector (Grown).                                   *)
(***************************************************************************)
EXTENDS SyncRounds, FiniteSetTheorems, WellFoundedInduction, TLAPS

Leq(v, w) == \A a \in Boxes : v[a] <= w[a]

\* Nobody has more of an origin's ops than the origin.
Authored ==
  \A b, a \in Boxes, d \in Domains : vv[b][d][a] <= vv[a][d][a]

\* A delta on its way to box r in domain d: it joins what r has, carries only
\* what was written, and carries everything the sender had unless it was cut.
Joins(delta, r, d) ==
  /\ Leq(delta.from, vv[r][d])
  /\ \A a \in Boxes : delta.to[a] <= vv[a][d][a]
  /\ ~delta.cut => Leq(delta.sender, delta.to)

\* Where the loop of box b stands.
Leg(b) ==
  LET l == loop[b] IN
  /\ l.pc \notin {"idle", "peer"} => l.peer \in Boxes /\ l.dom \in Domains
  /\ l.pc = "pull" => Leq(l.ask, vv[b][l.dom])
  /\ l.pc = "merge" => Joins(l.in, b, l.dom)
  /\ l.pc \in {"merge", "reverse"} => Leq(l.in.sender, vv[l.peer][l.dom])
  /\ l.pc \in {"reverse", "push", "pushed"} /\ ~l.in.cut => Leq(l.in.sender, vv[b][l.dom])
  /\ l.pc = "push" => Joins(l.out, l.peer, l.dom)
  /\ l.pc = "pushed" /\ ~l.out.cut => Leq(l.out.sender, vv[l.peer][l.dom])

RoundInv == TypeOK /\ Authored /\ \A b \in Boxes : Leg(b)

-----------------------------------------------------------------------------
(* The operators.                                                          *)

\* A set of naturals that is not empty has a least element, and Min returns it.
LEMMA LeastNat ==
  ASSUME NEW S \in SUBSET Nat, S # {}
  PROVE  Min(S) \in S /\ \A y \in S : Min(S) <= y
<1>1. PICK x \in S : \A y \in S : ~(<<y, x>> \in OpToRel(<, Nat))
  BY NatLessThanWellFounded, WFMin, Zenon
<1>2. \A y \in S : ~(y < x)
  BY <1>1 DEF OpToRel
<1>3. \A y \in S : x <= y
  BY <1>2
<1> QED
  BY <1>3 DEF Min

\* The smaller and the larger of two numbers.
LEMMA MinMaxOfTwo ==
  ASSUME NEW x \in Int, NEW y \in Int
  PROVE  /\ Min({x, y}) = IF x <= y THEN x ELSE y
         /\ Max({x, y}) = IF x <= y THEN y ELSE x
<1>1. CASE x <= y
  BY <1>1 DEF Min, Max
<1>2. CASE ~(x <= y)
  BY <1>2 DEF Min, Max
<1> QED
  BY <1>1, <1>2

\* Boxes, domains and bounds are numbers, and the boxes finitely many.
LEMMA BoxesFinite ==
  /\ Boxes \subseteq Nat \ {0} /\ IsFiniteSet(Boxes)
  /\ Domains \subseteq Nat \ {0}
  /\ MaxSeq \in Nat
  /\ NoVV \in VVs
<1>1. IsFiniteSet(Boxes)
  BY SyncConstants, FS_Interval DEF Boxes
<1> QED
  BY <1>1, SyncConstants DEF Boxes, Domains, NoVV, VVs

\* What a peer lacks is a finite set, so that Delta can count it.
LEMMA MissingFinite ==
  ASSUME NEW have \in VVs, NEW pv \in VVs, NEW S \in SUBSET Boxes
  PROVE  /\ IsFiniteSet(MissingOps(have, pv, S))
         /\ MissingOf(have, pv, S) \in Nat
<1>1. IsFiniteSet(S) /\ IsFiniteSet(1..MaxSeq)
  <2>1. 1 \in Int /\ MaxSeq \in Int
    BY BoxesFinite
  <2>2. IsFiniteSet(1..MaxSeq)
    BY <2>1, FS_Interval
  <2> QED
    BY <2>2, BoxesFinite, FS_Subset
<1>2. IsFiniteSet(S \X (1..MaxSeq))
  BY <1>1, FS_Product
<1>3. MissingOps(have, pv, S) \in SUBSET (S \X (1..MaxSeq))
  BY DEF MissingOps
<1>4. IsFiniteSet(MissingOps(have, pv, S))
  BY <1>2, <1>3, FS_Subset
<1> QED
  BY <1>4, FS_CardinalityType DEF MissingOf

\* What is missing of one actor comes on top of what is missing of those before.
LEMMA MissingAdds ==
  ASSUME NEW have \in VVs, NEW pv \in VVs, NEW a \in Boxes
  PROVE  Missing(have, pv, a) + MissingOf(have, pv, {c \in Boxes : c < a})
           <= MissingOf(have, pv, Boxes)
<1> DEFINE I == (pv[a] + 1) .. have[a]
           O == MissingOps(have, pv, {a})
           P == MissingOps(have, pv, {c \in Boxes : c < a})
           A == MissingOps(have, pv, Boxes)
           f == [n \in I |-> <<a, n>>]
<1>1. have[a] \in 0..MaxSeq /\ pv[a] \in 0..MaxSeq /\ MaxSeq \in Nat /\ a \in Nat
  BY BoxesFinite DEF VVs
<1>2. IsFiniteSet(O) /\ IsFiniteSet(P) /\ IsFiniteSet(A)
  BY MissingFinite
<1>3. Cardinality(I) = Missing(have, pv, a)
  <2>1. pv[a] + 1 \in Int /\ have[a] \in Int
    BY <1>1
  <2>2. Cardinality(I) = IF pv[a] + 1 > have[a] THEN 0 ELSE have[a] - (pv[a] + 1) + 1
    BY <2>1, FS_Interval
  <2> QED
    BY <1>1, <2>2 DEF Missing
<1>4. f \in Injection(I, O)
  <2>1. f \in [I -> O]
    BY <1>1 DEF MissingOps
  <2>2. \A m, n \in I : f[m] = f[n] => m = n
    OBVIOUS
  <2> QED
    BY <2>1, <2>2 DEF Injection, IsInjective
<1>5. Cardinality(I) <= Cardinality(O)
  BY <1>2, <1>4, FS_Injection
<1>6. O \cap P = {} /\ O \cup P \subseteq A
  BY <1>1 DEF MissingOps
<1>7. Cardinality(O \cup P) = Cardinality(O) + Cardinality(P)
  <2>1. Cardinality(O \cup P) = Cardinality(O) + Cardinality(P) - Cardinality(O \cap P)
    BY <1>2, FS_Union
  <2>2. Cardinality(O \cap P) = 0
    BY <1>6, FS_EmptySet
  <2>3. Cardinality(O) \in Nat /\ Cardinality(P) \in Nat
    BY <1>2, FS_CardinalityType
  <2> HIDE DEF O, P
  <2> QED
    BY <2>1, <2>2, <2>3
<1>8. Cardinality(O \cup P) <= Cardinality(A)
  BY <1>2, <1>6, FS_Subset
<1>9. /\ Cardinality(I) \in Nat /\ Cardinality(O) \in Nat /\ Cardinality(P) \in Nat
      /\ Cardinality(A) \in Nat
  BY <1>1, <1>2, <1>3, FS_CardinalityType DEF Missing
<1> HIDE DEF I, O, P, A, f
<1>10. Missing(have, pv, a) + Cardinality(P) <= Cardinality(A)
  BY <1>3, <1>5, <1>7, <1>8, <1>9
<1> QED
  BY <1>10 DEF MissingOf, P, A

\* A share is part of what is missing, and all of it unless the delta is cut.
LEMMA ShareSound ==
  ASSUME NEW have \in VVs, NEW pv \in VVs, NEW a \in Boxes
  PROVE  /\ Share(have, pv, a) \in 0..Missing(have, pv, a)
         /\ ~Cut(have, pv) => Share(have, pv, a) = Missing(have, pv, a)
<1> DEFINE m == Missing(have, pv, a)
           p == MissingOf(have, pv, {c \in Boxes : c < a})
<1>1. m \in Nat /\ p \in Nat /\ MissingOf(have, pv, Boxes) \in Nat /\ DeltaLimit \in Nat
  BY MissingFinite, SyncConstants, BoxesFinite DEF Missing, VVs
<1>2. Max({0, DeltaLimit - p}) = IF 0 <= DeltaLimit - p THEN DeltaLimit - p ELSE 0
  <2>1. 0 \in Int /\ DeltaLimit - p \in Int
    BY <1>1
  <2> HIDE DEF p
  <2> QED
    BY <2>1, MinMaxOfTwo
<1>3. Max({0, DeltaLimit - p}) \in Nat
  BY <1>1, <1>2
<1>4. Share(have, pv, a) = IF m <= Max({0, DeltaLimit - p}) THEN m ELSE Max({0, DeltaLimit - p})
  BY <1>1, <1>3, MinMaxOfTwo DEF Share
<1>5. Share(have, pv, a) \in 0..m
  BY <1>1, <1>3, <1>4
<1>6. ASSUME ~Cut(have, pv)
      PROVE  Share(have, pv, a) = m
  <2>1. m + p <= DeltaLimit
    BY <1>1, <1>6, MissingAdds DEF Cut
  <2>2. m <= DeltaLimit - p /\ 0 <= DeltaLimit - p
    BY <1>1, <2>1
  <2> QED
    BY <1>1, <1>2, <1>4, <2>2
<1> QED
  BY <1>5, <1>6

\* The empty delta is a delta.
LEMMA NoDeltaType == NoDelta \in Deltas
BY BoxesFinite DEF NoDelta, Deltas

\* What an answer to a peer at pv is: nothing in it goes beyond what its origin
\* has written (top), and if it is not cut it leads to all the sender has.
LEMMA DeltaSound ==
  ASSUME TypeOK, NEW b \in Boxes, NEW d \in Domains, NEW pv \in VVs, NEW top \in VVs,
         Leq(pv, top), Leq(vv[b][d], top), NEW q, q = Delta(b, d, pv)
  PROVE  /\ q \in Deltas /\ q.sender = vv[b][d]
         /\ Leq(q.from, pv) /\ Leq(q.to, top)
         /\ ~q.cut => Leq(q.sender, q.to)
<1> DEFINE have == vv[b][d]
           to == [a \in Boxes |-> pv[a] + Share(have, pv, a)]
<1>1. have \in VVs /\ MaxSeq \in Nat
  BY BoxesFinite DEF TypeOK
<1>2. \A a \in Boxes : have[a] \in 0..MaxSeq /\ pv[a] \in 0..MaxSeq /\ top[a] \in 0..MaxSeq
  BY <1>1 DEF VVs
<1>3. CASE q = [from |-> NoVV, to |-> have, sender |-> have, cut |-> FALSE, snap |-> TRUE]
  <2>1. NoVV \in VVs /\ \A a \in Boxes : NoVV[a] = 0
    BY BoxesFinite DEF NoVV
  <2> HIDE DEF have
  <2> QED
    BY <1>1, <1>2, <1>3, <2>1 DEF Deltas, Leq, have
<1>4. CASE q = [from |-> pv, to |-> to, sender |-> have, cut |-> Cut(have, pv), snap |-> FALSE]
  <2>1. \A a \in Boxes : Missing(have, pv, a) = IF have[a] > pv[a] THEN have[a] - pv[a] ELSE 0
    BY DEF Missing
  <2>2. \A a \in Boxes : /\ Share(have, pv, a) \in 0..Missing(have, pv, a)
                         /\ ~Cut(have, pv) => Share(have, pv, a) = Missing(have, pv, a)
    BY <1>1, ShareSound
  <2> HIDE DEF have
  <2>3. \A a \in Boxes : /\ to[a] \in 0..MaxSeq /\ to[a] <= top[a]
                         /\ ~Cut(have, pv) => have[a] <= to[a]
    BY <1>1, <1>2, <2>1, <2>2 DEF Leq, have
  <2>4. to \in VVs
    BY <2>3 DEF VVs
  <2>5. Cut(have, pv) \in BOOLEAN
    BY DEF Cut
  <2>6. Leq(pv, pv)
    BY <1>2 DEF Leq
  <2> HIDE DEF to
  <2> QED
    BY <1>1, <1>4, <2>3, <2>4, <2>5, <2>6 DEF Deltas, Leq, have
<1>5. \/ q = [from |-> NoVV, to |-> have, sender |-> have, cut |-> FALSE, snap |-> TRUE]
      \/ q = [from |-> pv, to |-> to, sender |-> have, cut |-> Cut(have, pv), snap |-> FALSE]
  BY DEF Delta
<1> QED
  BY <1>3, <1>4, <1>5

\* Merging adds, within the bounds of both, and all of a delta that joins.
LEMMA MergedSound ==
  ASSUME NEW have \in VVs, NEW q \in Deltas, NEW fl \in VVs
  PROVE  /\ Merged(have, q) \in VVs
         /\ Leq(have, Merged(have, q))
         /\ \A a \in Boxes : Merged(have, q)[a] \in {have[a], q.to[a]}
         /\ Leq(q.from, have) => Leq(q.to, Merged(have, q))
         /\ MergedFloor(fl, q) \in VVs
<1>1. \A a \in Boxes : /\ have[a] \in 0..MaxSeq /\ q.to[a] \in 0..MaxSeq
                       /\ q.from[a] \in 0..MaxSeq /\ fl[a] \in 0..MaxSeq
  BY DEF VVs, Deltas
<1>2. MaxSeq \in Nat
  BY BoxesFinite
<1>3. \A a \in Boxes :
        /\ Max({have[a], q.to[a]}) = IF have[a] <= q.to[a] THEN q.to[a] ELSE have[a]
        /\ Max({fl[a], q.to[a]}) = IF fl[a] <= q.to[a] THEN q.to[a] ELSE fl[a]
  <2> TAKE a \in Boxes
  <2>1. have[a] \in Int /\ q.to[a] \in Int /\ fl[a] \in Int
    BY <1>1, <1>2
  <2> QED
    BY <2>1, MinMaxOfTwo
<1>4. \A a \in Boxes : Merged(have, q)[a] =
        IF q.from[a] <= have[a] THEN IF have[a] <= q.to[a] THEN q.to[a] ELSE have[a] ELSE have[a]
  BY <1>3 DEF Merged
<1>5. Merged(have, q) \in VVs
  BY <1>1, <1>3 DEF Merged, VVs
<1>6. MergedFloor(fl, q) \in VVs
  BY <1>1, <1>3 DEF MergedFloor, VVs
<1> QED
  BY <1>1, <1>2, <1>4, <1>5, <1>6 DEF Leq

-----------------------------------------------------------------------------
(* What lasts.                                                             *)

Loops == [pc : {"idle", "peer", "pull", "merge", "reverse", "push", "pushed"},
          todo : SUBSET Boxes, peer : Boxes \cup {0}, dom : Domains \cup {0},
          round : 0..(MaxRounds - 1), ask : VVs, in : Deltas, out : Deltas]

\* No version vector has fallen.
Grown == \A b \in Boxes, d \in Domains : Leq(vv[b][d], vv'[b][d])

\* A step that leaves the vectors alone.
LEMMA SameVectors ==
  ASSUME RoundInv, vv' = vv
  PROVE  Grown /\ Authored'
<1>1. \A b \in Boxes, d \in Domains, a \in Boxes : vv[b][d][a] \in Int
  BY BoxesFinite DEF RoundInv, TypeOK, VVs
<1> QED
  BY <1>1 DEF Grown, Leq, RoundInv, Authored

\* Vectors are ordered.
LEMMA LeqTransitive ==
  ASSUME NEW u \in VVs, NEW v \in VVs, NEW w \in VVs, Leq(u, v), Leq(v, w)
  PROVE  Leq(u, w)
<1>1. \A a \in Boxes : u[a] \in Int /\ v[a] \in Int /\ w[a] \in Int
  BY BoxesFinite DEF VVs
<1> QED
  BY <1>1 DEF Leq

\* A delta that joins what a box has still joins it when the box has more.
LEMMA JoinsLasts ==
  ASSUME TypeOK, TypeOK', Grown, NEW q \in Deltas, NEW r \in Boxes, NEW d \in Domains,
         Joins(q, r, d)
  PROVE  Joins(q, r, d)'
<1>1. q.from \in VVs /\ q.to \in VVs /\ vv[r][d] \in VVs /\ vv'[r][d] \in VVs
  BY DEF Deltas, TypeOK
<1>2. Leq(q.from, vv'[r][d])
  BY <1>1, LeqTransitive DEF Joins, Grown
<1>3. ASSUME NEW a \in Boxes
      PROVE  q.to[a] <= vv'[a][d][a]
  <2>1. q.to[a] \in Int /\ vv[a][d][a] \in Int /\ vv'[a][d][a] \in Int
    BY <1>1, BoxesFinite DEF TypeOK, VVs
  <2>2. q.to[a] <= vv[a][d][a] /\ vv[a][d][a] <= vv'[a][d][a]
    BY DEF Joins, Grown, Leq
  <2> QED
    BY <2>1, <2>2
<1> QED
  BY <1>2, <1>3 DEF Joins, Leq

\* What a loop knows of its round stays true while others go on.
LEMMA LegLasts ==
  ASSUME TypeOK, TypeOK', Grown, NEW b \in Boxes, Leg(b), loop'[b] = loop[b]
  PROVE  Leg(b)'
<1> DEFINE l == loop[b]
<1>1. l \in Loops
  BY DEF TypeOK, Loops
<1>2. /\ l.ask \in VVs /\ l.in \in Deltas /\ l.out \in Deltas
      /\ l.in.sender \in VVs /\ l.out.sender \in VVs
  BY <1>1 DEF Loops, Deltas
<1>3. \A r \in Boxes, d \in Domains : vv[r][d] \in VVs /\ vv'[r][d] \in VVs
  BY DEF TypeOK
<1>4. \A v \in VVs, r \in Boxes, d \in Domains : Leq(v, vv[r][d]) => Leq(v, vv'[r][d])
  BY <1>3, LeqTransitive DEF Grown
<1>5. l.pc = "merge" => Joins(l.in, b, l.dom)'
  BY <1>2, JoinsLasts DEF Leg
<1>6. l.pc = "push" => Joins(l.out, l.peer, l.dom)'
  BY <1>2, JoinsLasts DEF Leg
<1> QED
  BY <1>2, <1>4, <1>5, <1>6 DEF Leg

\* So a step of one loop is to be looked at for that loop.
LEMMA OneLoop ==
  ASSUME RoundInv, TypeOK', Authored', Grown, NEW b \in Boxes,
         \A c \in Boxes \ {b} : loop'[c] = loop[c], Leg(b)'
  PROVE  RoundInv'
BY LegLasts DEF RoundInv

\* A loop that has just asked a peer, or has none.
AtStart(b, l) ==
  /\ l \in Loops
  /\ \/ l.pc \in {"idle", "peer"}
     \/ l.pc = "pull" /\ l.peer \in Boxes /\ l.dom \in Domains /\ l.ask = vv[b][l.dom]

\* A loop that turns to its next peer, or rests, owes nothing yet;
LEMMA NextPeerStarts ==
  ASSUME NEW b \in Boxes, NEW todo \in SUBSET Boxes
  PROVE  AtStart(b, NextPeer(todo)) /\ AtStart(b, Idle)
<1>1. Idle \in Loops /\ Idle.pc = "idle"
  BY NoDeltaType, BoxesFinite, SyncConstants DEF Idle, Loops
<1>2. [Idle EXCEPT !.pc = "peer", !.todo = todo] \in Loops
      /\ [Idle EXCEPT !.pc = "peer", !.todo = todo].pc = "peer"
  BY <1>1 DEF Loops
<1> QED
  BY <1>1, <1>2 DEF AtStart, NextPeer

\* nor does one that begins a round with its own vector,
LEMMA PullStarts ==
  ASSUME TypeOK, NEW b \in Boxes, NEW l \in Loops, l.peer \in Boxes, NEW d \in Domains,
         NEW round \in 0..(MaxRounds - 1)
  PROVE  AtStart(b, Pull(b, l, d, round))
<1>1. vv[b][d] \in VVs
  BY DEF TypeOK
<1> QED
  BY <1>1, NoDeltaType DEF AtStart, Pull, Loops

\* in the first of some domains,
LEMMA FirstDomain ==
  ASSUME NEW S \in SUBSET Domains, S # {}
  PROVE  Min(S) \in Domains
BY LeastNat, BoxesFinite

\* or ends one.
LEMMA EndRoundStarts ==
  ASSUME TypeOK, NEW b \in Boxes, NEW l \in Loops, l.peer \in Boxes, l.dom \in Domains
  PROVE  AtStart(b, EndRound(b, l))
<1> DEFINE later == {d \in Allowed[b] : d > l.dom}
<1>1. later \in SUBSET Domains /\ l.todo \in SUBSET Boxes
  BY SyncConstants DEF Loops
<1>2. AtStart(b, NextPeer(l.todo))
  BY <1>1, NextPeerStarts
<1>3. later # {} => AtStart(b, Pull(b, l, Min(later), 0))
  <2>1. 0 \in 0..(MaxRounds - 1)
    BY SyncConstants
  <2> HIDE DEF later
  <2> QED
    BY <1>1, <2>1, FirstDomain, PullStarts
<1>4. l.round + 1 < MaxRounds => AtStart(b, Pull(b, l, l.dom, l.round + 1))
  <2>1. l.round + 1 < MaxRounds => l.round + 1 \in 0..(MaxRounds - 1)
    BY SyncConstants DEF Loops
  <2> QED
    BY <2>1, PullStarts
<1> QED
  BY <1>2, <1>3, <1>4 DEF EndRound

\* A loop starts over, for whatever reason.
LEMMA Restarts ==
  ASSUME RoundInv, NEW b \in Boxes, NEW l, AtStart(b, l), loop' = [loop EXCEPT ![b] = l],
         UNCHANGED <<vv, floor>>, crashes' \in 0..MaxCrashes
  PROVE  RoundInv'
<1>1. l \in Loops
  BY DEF AtStart
<1>2. TypeOK'
  BY <1>1 DEF RoundInv, TypeOK, Loops
<1>3. loop'[b] = l /\ \A c \in Boxes \ {b} : loop'[c] = loop[c]
  BY DEF RoundInv, TypeOK
<1>4. \A r \in Boxes, d \in Domains : Leq(vv[r][d], vv[r][d])
  BY SameVectors DEF Grown
<1>5. Leg(b)'
  <2>1. CASE l.pc \in {"idle", "peer"}
    BY <1>3, <2>1 DEF Leg
  <2>2. CASE l.pc = "pull"
    BY <1>3, <1>4, <2>2 DEF Leg, AtStart
  <2> QED
    BY <2>1, <2>2 DEF AtStart
<1> QED
  BY <1>2, <1>3, <1>5, SameVectors, OneLoop

-----------------------------------------------------------------------------
(* The actions.                                                            *)

LEMMA RestartSteps ==
  ASSUME RoundInv, NEW b \in Boxes,
         \/ StartCycle(b) \/ (\E p \in Boxes : DialPeer(b, p)) \/ PullRefused(b) \/ PostFails(b)
         \/ PushAnswered(b) \/ PushAnswerLost(b) \/ Crash(b)
  PROVE  RoundInv'
<1> DEFINE l == loop[b]
<1>0. TypeOK /\ l \in Loops /\ l.todo \in SUBSET Boxes /\ crashes \in 0..MaxCrashes
  BY DEF RoundInv, TypeOK, Loops
<1>1. CASE StartCycle(b)
  <2>1. Dials[b] \in SUBSET Boxes
    BY SyncConstants
  <2> QED
    BY <1>0, <1>1, <2>1, NextPeerStarts, Restarts DEF StartCycle
<1>2. ASSUME NEW p \in Boxes, DialPeer(b, p)
      PROVE  RoundInv'
  <2> DEFINE k == [l EXCEPT !.peer = p, !.todo = @ \ {p}]
  <2>1. k \in Loops /\ k.peer = p
    BY <1>0 DEF Loops
  <2>2. Min(Allowed[b]) \in Domains
    BY SyncConstants, FirstDomain
  <2>3. 0 \in 0..(MaxRounds - 1)
    BY SyncConstants
  <2>4. loop' = [loop EXCEPT ![b] = Pull(b, k, Min(Allowed[b]), 0)] /\ UNCHANGED <<vv, floor, crashes>>
    BY <1>2 DEF DialPeer
  <2> HIDE DEF k
  <2>5. AtStart(b, Pull(b, k, Min(Allowed[b]), 0))
    BY <1>0, <2>1, <2>2, <2>3, PullStarts
  <2> QED
    BY <1>0, <2>4, <2>5, Restarts
<1>3. CASE PullRefused(b) \/ PostFails(b) \/ PushAnswerLost(b)
  BY <1>0, <1>3, NextPeerStarts, Restarts DEF PullRefused, PostFails, PushAnswerLost, Abandon
<1>4. CASE PushAnswered(b)
  <2>1. l.peer \in Boxes /\ l.dom \in Domains
    BY <1>4 DEF PushAnswered, RoundInv, Leg
  <2> QED
    BY <1>0, <1>4, <2>1, EndRoundStarts, Restarts DEF PushAnswered
<1>5. CASE Crash(b)
  <2>1. crashes' \in 0..MaxCrashes
    BY <1>0, <1>5, SyncConstants DEF Crash
  <2> QED
    BY <1>0, <1>5, <2>1, NextPeerStarts, Restarts DEF Crash
<1> QED
  BY <1>1, <1>2, <1>3, <1>4, <1>5

\* The ops of a domain that have been written, by origin.
Written(d) == [a \in Boxes |-> vv[a][d][a]]

\* What was written bounds what any box has.
LEMMA WrittenBounds ==
  ASSUME RoundInv, NEW d \in Domains
  PROVE  /\ Written(d) \in VVs
         /\ \A b \in Boxes : Leq(vv[b][d], Written(d))
         /\ \A v \in VVs, b \in Boxes : Leq(v, vv[b][d]) => Leq(v, Written(d))
<1>1. Written(d) \in VVs /\ \A b \in Boxes : vv[b][d] \in VVs
  BY DEF RoundInv, TypeOK, Written, VVs
<1>2. \A b \in Boxes : Leq(vv[b][d], Written(d))
  BY DEF RoundInv, Authored, Written, Leq
<1> QED
  BY <1>1, <1>2, LeqTransitive

\* The peer answers: what the asking box had then, it still has.
LEMMA PullServedStep ==
  ASSUME RoundInv, NEW b \in Boxes, NEW p \in Boxes, NEW d \in Domains, PullServed(b, p, d)
  PROVE  RoundInv'
<1> DEFINE l == loop[b]
<1>0. PICK q : q = Delta(p, d, l.ask)
  OBVIOUS
<1>1. TypeOK /\ l \in Loops /\ l.ask \in VVs /\ l.peer = p /\ l.dom = d /\ l.pc = "pull"
  BY DEF RoundInv, TypeOK, Loops, PullServed
<1>2. Leq(l.ask, vv[b][d])
  BY <1>1 DEF RoundInv, Leg
<1>3. /\ q \in Deltas /\ q.sender = vv[p][d] /\ Leq(q.from, l.ask) /\ Leq(q.to, Written(d))
      /\ ~q.cut => Leq(q.sender, q.to)
  <2>1. /\ Written(d) \in VVs /\ Leq(l.ask, Written(d)) /\ Leq(vv[p][d], Written(d))
    BY <1>1, <1>2, WrittenBounds
  <2> QED
    BY <1>0, <1>1, <2>1, DeltaSound
<1>4. loop' = [loop EXCEPT ![b].pc = "merge", ![b].in = q] /\ UNCHANGED <<vv, floor, crashes>>
  BY <1>0, <1>1 DEF PullServed
<1>5. /\ loop'[b] \in Loops /\ loop'[b].pc = "merge" /\ loop'[b].in = q
      /\ loop'[b].peer = p /\ loop'[b].dom = d
      /\ loop' \in [Boxes -> Loops] /\ \A c \in Boxes \ {b} : loop'[c] = loop[c]
  BY <1>1, <1>3, <1>4 DEF TypeOK, Loops
<1>6. TypeOK'
  BY <1>1, <1>4, <1>5 DEF TypeOK, Loops
<1>7. Joins(q, b, d)
  <2>1. q.from \in VVs /\ vv[b][d] \in VVs
    BY <1>1, <1>3 DEF Deltas, TypeOK
  <2>2. Leq(q.from, vv[b][d])
    BY <1>1, <1>2, <1>3, <2>1, LeqTransitive
  <2>3. \A a \in Boxes : q.to[a] <= vv[a][d][a]
    BY <1>3 DEF Leq, Written
  <2> QED
    BY <1>3, <2>2, <2>3 DEF Joins
<1>8. Joins(q, b, d)' /\ Leq(q.sender, vv'[p][d])
  <2>1. \A r \in Boxes, e \in Domains : Leq(vv[r][e], vv[r][e])
    BY <1>4, SameVectors DEF Grown
  <2> QED
    BY <1>3, <1>4, <1>7, <2>1 DEF Joins, Leq
<1>9. Leg(b)'
  BY <1>5, <1>8 DEF Leg
<1> QED
  BY <1>4, <1>5, <1>6, <1>9, SameVectors, OneLoop

\* A merge only adds, and only what was written.
LEMMA MergeGrows ==
  ASSUME RoundInv, NEW r \in Boxes, NEW d \in Domains, NEW q \in Deltas, Joins(q, r, d),
         MergeAt(r, d, q)
  PROVE  /\ vv' \in [Boxes -> [Domains -> VVs]] /\ floor' \in [Boxes -> [Domains -> VVs]]
         /\ Grown /\ Authored' /\ Leq(q.to, vv'[r][d])
         /\ \A b \in Boxes, e \in Domains : <<b, e>> # <<r, d>> => vv'[b][e] = vv[b][e]
<1> DEFINE m == Merged(vv[r][d], q)
<1>1. /\ vv \in [Boxes -> [Domains -> VVs]] /\ floor \in [Boxes -> [Domains -> VVs]]
      /\ vv[r][d] \in VVs /\ floor[r][d] \in VVs
  BY DEF RoundInv, TypeOK
<1>2. /\ m \in VVs /\ Leq(vv[r][d], m) /\ (\A a \in Boxes : m[a] \in {vv[r][d][a], q.to[a]})
      /\ Leq(q.to, m) /\ MergedFloor(floor[r][d], q) \in VVs
  BY <1>1, MergedSound DEF Joins
<1>3. /\ vv' = [vv EXCEPT ![r][d] = m]
      /\ floor' = [floor EXCEPT ![r][d] = MergedFloor(floor[r][d], q)]
  BY <1>1 DEF MergeAt
<1> HIDE DEF m
<1>4. /\ vv' \in [Boxes -> [Domains -> VVs]] /\ floor' \in [Boxes -> [Domains -> VVs]]
      /\ vv'[r][d] = m
      /\ \A b \in Boxes, e \in Domains : <<b, e>> # <<r, d>> => vv'[b][e] = vv[b][e]
  BY <1>1, <1>2, <1>3
<1>5. \A b \in Boxes, e \in Domains : Leq(vv[b][e], vv[b][e])
  BY <1>1, BoxesFinite DEF Leq, VVs
<1>6. Grown
  BY <1>2, <1>4, <1>5 DEF Grown
<1>7. Authored'
  <2> SUFFICES ASSUME NEW b \in Boxes, NEW a \in Boxes, NEW e \in Domains
               PROVE  vv'[b][e][a] <= vv'[a][e][a]
    BY DEF Authored
  <2>1. vv[b][e][a] \in Int /\ vv[a][e][a] \in Int /\ vv'[a][e][a] \in Int
    BY <1>1, <1>4, BoxesFinite DEF VVs
  <2>2. vv[a][e][a] <= vv'[a][e][a] /\ vv[b][e][a] <= vv[a][e][a]
    BY <1>6 DEF Grown, Leq, RoundInv, Authored
  <2>3. vv'[b][e][a] = vv[b][e][a] \/ (e = d /\ vv'[b][e][a] = q.to[a])
    BY <1>2, <1>4
  <2>4. q.to[a] <= vv[a][d][a] /\ q.to[a] \in Int
    BY BoxesFinite DEF Joins, Deltas, VVs
  <2> QED
    BY <2>1, <2>2, <2>3, <2>4
<1> QED
  BY <1>2, <1>4, <1>6, <1>7

\* A pulled delta is merged: no gap opens, for it joins what the box has.
LEMMA MergePulledStep ==
  ASSUME RoundInv, NEW b \in Boxes, MergePulled(b)
  PROVE  RoundInv' /\ Grown
<1> DEFINE l == loop[b]
           d == l.dom
<1>1. TypeOK /\ l \in Loops /\ l.pc = "merge" /\ l.in \in Deltas
  BY DEF RoundInv, TypeOK, Loops, MergePulled
<1>2. l.peer \in Boxes /\ d \in Domains /\ Joins(l.in, b, d) /\ Leq(l.in.sender, vv[l.peer][d])
  BY <1>1 DEF RoundInv, Leg
<1>3. MergeAt(b, d, l.in) /\ loop' = [loop EXCEPT ![b].pc = "reverse"] /\ crashes' = crashes
  BY DEF MergePulled, MergeAt
<1>4. /\ vv' \in [Boxes -> [Domains -> VVs]] /\ floor' \in [Boxes -> [Domains -> VVs]]
      /\ Grown /\ Authored' /\ Leq(l.in.to, vv'[b][d])
  BY <1>1, <1>2, <1>3, MergeGrows
<1>5. /\ loop' \in [Boxes -> Loops] /\ loop'[b] = [l EXCEPT !.pc = "reverse"]
      /\ \A c \in Boxes \ {b} : loop'[c] = loop[c]
  BY <1>1, <1>3 DEF TypeOK, Loops
<1>6. loop'[b].pc = "reverse" /\ loop'[b].in = l.in /\ loop'[b].peer = l.peer /\ loop'[b].dom = d
  BY <1>1, <1>5 DEF Loops
<1>7. TypeOK'
  BY <1>1, <1>3, <1>4, <1>5 DEF TypeOK, Loops
<1>8. /\ l.in.sender \in VVs /\ l.in.to \in VVs /\ vv'[b][d] \in VVs
      /\ vv[l.peer][d] \in VVs /\ vv'[l.peer][d] \in VVs
  BY <1>1, <1>2, <1>4 DEF Deltas, TypeOK
<1>9. Leq(l.in.sender, vv'[l.peer][d])
  BY <1>2, <1>4, <1>8, LeqTransitive DEF Grown
<1>10. ~l.in.cut => Leq(l.in.sender, vv'[b][d])
  BY <1>2, <1>4, <1>8, LeqTransitive DEF Joins
<1>11. Leg(b)'
  BY <1>2, <1>6, <1>9, <1>10 DEF Leg
<1> QED
  BY <1>4, <1>5, <1>7, <1>11, OneLoop

\* The reverse delta is computed from what the peer had when it answered.
LEMMA ReverseDeltaStep ==
  ASSUME RoundInv, NEW b \in Boxes, ReverseDelta(b)
  PROVE  RoundInv'
<1> DEFINE k == loop[b]
<1>0. PICK q, d, r : q = Delta(b, d, k.in.sender) /\ d = k.dom /\ r = k.peer
  OBVIOUS
<1> DEFINE l == [k EXCEPT !.out = q]
<1>1. TypeOK /\ k \in Loops /\ k.pc = "reverse" /\ k.in.sender \in VVs /\ crashes \in 0..MaxCrashes
  BY DEF RoundInv, TypeOK, Loops, ReverseDelta, Deltas
<1>2. /\ r \in Boxes /\ d \in Domains /\ Leq(k.in.sender, vv[r][d])
      /\ ~k.in.cut => Leq(k.in.sender, vv[b][d])
  BY <1>0, <1>1 DEF RoundInv, Leg
<1>3. /\ q \in Deltas /\ q.sender = vv[b][d] /\ Leq(q.from, k.in.sender) /\ Leq(q.to, Written(d))
      /\ ~q.cut => Leq(q.sender, q.to)
  <2>1. Written(d) \in VVs /\ Leq(k.in.sender, Written(d)) /\ Leq(vv[b][d], Written(d))
    BY <1>1, <1>2, WrittenBounds
  <2> QED
    BY <1>0, <1>1, <1>2, <2>1, DeltaSound
<1>4. /\ loop' = [loop EXCEPT ![b] = IF Carries(l.out) THEN [l EXCEPT !.pc = "push"] ELSE EndRound(b, l)]
      /\ UNCHANGED <<vv, floor, crashes>>
  BY <1>0 DEF ReverseDelta, ReverseFrom
<1>5. l \in Loops /\ l.peer = r /\ l.dom = d /\ l.out = q /\ l.in = k.in
  BY <1>0, <1>1, <1>3 DEF Loops
<1>6. CASE ~Carries(l.out)
  <2> HIDE DEF l
  <2>1. AtStart(b, EndRound(b, l))
    BY <1>1, <1>2, <1>5, EndRoundStarts
  <2> QED
    BY <1>1, <1>4, <1>6, <2>1, Restarts
<1>7. CASE Carries(l.out)
  <2> DEFINE n == [l EXCEPT !.pc = "push"]
  <2>1. n \in Loops /\ n.pc = "push" /\ n.peer = r /\ n.dom = d /\ n.out = q /\ n.in = k.in
    BY <1>5 DEF Loops
  <2>2. loop' = [loop EXCEPT ![b] = n]
    BY <1>4, <1>7
  <2> HIDE DEF n, l
  <2>3. /\ loop' \in [Boxes -> Loops] /\ loop'[b] = n
        /\ \A c \in Boxes \ {b} : loop'[c] = loop[c]
    BY <1>1, <2>1, <2>2 DEF TypeOK, Loops
  <2>4. TypeOK'
    BY <1>1, <1>4, <2>3 DEF TypeOK, Loops
  <2>5. Joins(q, r, d)
    <3>1. q.from \in VVs /\ vv[r][d] \in VVs
      BY <1>1, <1>2, <1>3 DEF Deltas, TypeOK
    <3>2. Leq(q.from, vv[r][d])
      BY <1>1, <1>2, <1>3, <3>1, LeqTransitive
    <3> QED
      BY <1>3, <3>2 DEF Joins, Leq, Written
  <2>6. Joins(q, r, d)' /\ (~k.in.cut => Leq(k.in.sender, vv'[b][d]))
    BY <1>2, <1>4, <2>5 DEF Joins, Leq
  <2>7. Leg(b)'
    BY <1>2, <2>1, <2>3, <2>6 DEF Leg
  <2> QED
    BY <1>4, <2>3, <2>4, <2>7, SameVectors, OneLoop
<1> QED
  BY <1>6, <1>7

\* A pushed delta is merged at the peer.
LEMMA PushServedStep ==
  ASSUME RoundInv, NEW b \in Boxes, NEW p \in Boxes, NEW d \in Domains, PushServed(b, p, d)
  PROVE  RoundInv' /\ Grown
<1> DEFINE l == loop[b]
<1>1. TypeOK /\ l \in Loops /\ l.pc = "push" /\ l.out \in Deltas /\ l.peer = p /\ l.dom = d
  BY DEF RoundInv, TypeOK, Loops, PushServed
<1>2. Joins(l.out, p, d) /\ (~l.in.cut => Leq(l.in.sender, vv[b][d]))
  BY <1>1 DEF RoundInv, Leg
<1>3. MergeAt(p, d, l.out) /\ loop' = [loop EXCEPT ![b].pc = "pushed"] /\ crashes' = crashes
  BY DEF PushServed, MergeAt
<1>4. /\ vv' \in [Boxes -> [Domains -> VVs]] /\ floor' \in [Boxes -> [Domains -> VVs]]
      /\ Grown /\ Authored' /\ Leq(l.out.to, vv'[p][d])
  BY <1>1, <1>2, <1>3, MergeGrows
<1>5. /\ loop' \in [Boxes -> Loops] /\ loop'[b] = [l EXCEPT !.pc = "pushed"]
      /\ \A c \in Boxes \ {b} : loop'[c] = loop[c]
  BY <1>1, <1>3 DEF TypeOK, Loops
<1>6. /\ loop'[b].pc = "pushed" /\ loop'[b].in = l.in /\ loop'[b].out = l.out
      /\ loop'[b].peer = p /\ loop'[b].dom = d
  BY <1>1, <1>5 DEF Loops
<1>7. TypeOK'
  BY <1>1, <1>3, <1>4, <1>5 DEF TypeOK, Loops
<1>8. /\ l.in.sender \in VVs /\ l.out.sender \in VVs /\ l.out.to \in VVs
      /\ vv[b][d] \in VVs /\ vv'[b][d] \in VVs /\ vv'[p][d] \in VVs
  BY <1>1, <1>4 DEF Loops, Deltas, TypeOK
<1>9. ~l.in.cut => Leq(l.in.sender, vv'[b][d])
  BY <1>2, <1>4, <1>8, LeqTransitive DEF Grown
<1>10. ~l.out.cut => Leq(l.out.sender, vv'[p][d])
  BY <1>2, <1>4, <1>8, LeqTransitive DEF Joins
<1>11. Leg(b)'
  BY <1>6, <1>9, <1>10 DEF Leg
<1> QED
  BY <1>4, <1>5, <1>7, <1>11, OneLoop

\* A box writes an op of its own.
LEMMA WriteStep ==
  ASSUME RoundInv, NEW b \in Boxes, NEW d \in Domains, Write(b, d)
  PROVE  RoundInv' /\ Grown
<1>1. /\ vv \in [Boxes -> [Domains -> VVs]] /\ MaxSeq \in Nat
      /\ vv[b][d] \in VVs /\ vv[b][d][b] \in 0..MaxSeq
  BY BoxesFinite DEF RoundInv, TypeOK, VVs
<1>2. vv' = [vv EXCEPT ![b][d][b] = vv[b][d][b] + 1] /\ UNCHANGED <<floor, loop, crashes>>
  BY <1>1 DEF Write
<1>3. vv[b][d][b] + 1 \in 0..MaxSeq
  <2>1. Budget[b][d] \in 0..MaxSeq
    BY SyncConstants
  <2> QED
    BY <1>1, <2>1 DEF Write
<1>4. /\ vv' \in [Boxes -> [Domains -> VVs]]
      /\ vv'[b][d][b] = vv[b][d][b] + 1
      /\ \A c, a \in Boxes, e \in Domains : <<c, e, a>> # <<b, d, b>> => vv'[c][e][a] = vv[c][e][a]
  BY <1>1, <1>2, <1>3 DEF VVs
<1>5. \A c, a \in Boxes, e \in Domains : vv[c][e][a] \in Int
  BY <1>1 DEF VVs
<1>6. \A c, a \in Boxes, e \in Domains : vv[c][e][a] <= vv'[c][e][a]
  BY <1>4, <1>5
<1>7. TypeOK'
  BY <1>2, <1>4 DEF RoundInv, TypeOK
<1>8. Grown
  BY <1>6 DEF Grown, Leq
<1>9. Authored'
  <2> SUFFICES ASSUME NEW c \in Boxes, NEW a \in Boxes, NEW e \in Domains
               PROVE  vv'[c][e][a] <= vv'[a][e][a]
    BY DEF Authored
  <2>1. vv[c][e][a] <= vv[a][e][a] /\ vv[a][e][a] <= vv'[a][e][a] /\ vv'[a][e][a] \in Int
    BY <1>4, <1>6 DEF RoundInv, Authored, VVs
  <2> QED
    BY <1>4, <1>5, <2>1
<1>10. \A c \in Boxes : loop'[c] = loop[c] /\ Leg(c)'
  BY <1>2, <1>7, <1>8, LegLasts DEF RoundInv
<1> QED
  BY <1>7, <1>8, <1>9, <1>10 DEF RoundInv

\* A box compacts its log.
LEMMA CompactStep ==
  ASSUME RoundInv, NEW b \in Boxes, NEW d \in Domains, NEW keep \in 0..MaxSeq, Compact(b, d, keep)
  PROVE  RoundInv' /\ Grown
<1> DEFINE f == [a \in Boxes |-> Max({floor[b][d][a], vv[b][d][a] - keep})]
<1>1. TypeOK /\ MaxSeq \in Nat
  BY BoxesFinite DEF RoundInv
<1>2. f \in VVs
  <2> SUFFICES ASSUME NEW a \in Boxes
               PROVE  Max({floor[b][d][a], vv[b][d][a] - keep}) \in 0..MaxSeq
    BY DEF VVs
  <2>1. floor[b][d][a] \in 0..MaxSeq /\ vv[b][d][a] \in 0..MaxSeq
    BY <1>1 DEF TypeOK, VVs
  <2>2. floor[b][d][a] \in Int /\ vv[b][d][a] - keep \in Int /\ vv[b][d][a] - keep <= MaxSeq
    BY <1>1, <2>1
  <2>3. Max({floor[b][d][a], vv[b][d][a] - keep}) =
          IF floor[b][d][a] <= vv[b][d][a] - keep THEN vv[b][d][a] - keep ELSE floor[b][d][a]
    BY <2>2, MinMaxOfTwo
  <2> QED
    BY <1>1, <2>1, <2>2, <2>3
<1>3. floor' = [floor EXCEPT ![b][d] = f] /\ UNCHANGED <<vv, loop, crashes>>
  BY <1>1 DEF Compact, TypeOK
<1> HIDE DEF f
<1>4. TypeOK'
  BY <1>1, <1>2, <1>3 DEF TypeOK
<1>5. Grown /\ Authored'
  BY <1>3, SameVectors
<1>6. \A c \in Boxes : Leg(c)'
  BY <1>1, <1>3, <1>4, <1>5, LegLasts DEF RoundInv
<1> QED
  BY <1>4, <1>5, <1>6 DEF RoundInv

\* Every step.
LEMMA RoundStep == RoundInv /\ [Next]_vars => RoundInv' /\ Grown
<1> SUFFICES ASSUME RoundInv, [Next]_vars
             PROVE  RoundInv' /\ Grown
  OBVIOUS
<1>1. CASE UNCHANGED vars
  <2>1. TypeOK' /\ \A c \in Boxes : loop'[c] = loop[c]
    BY <1>1 DEF RoundInv, TypeOK, vars
  <2>2. Grown /\ Authored'
    BY <1>1, SameVectors DEF vars
  <2> QED
    BY <2>1, <2>2, LegLasts DEF RoundInv
<1>2. ASSUME NEW b \in Boxes,
             \/ StartCycle(b) \/ (\E p \in Boxes : DialPeer(b, p)) \/ PullRefused(b) \/ PostFails(b)
             \/ PushAnswered(b) \/ PushAnswerLost(b) \/ Crash(b)
      PROVE  RoundInv' /\ Grown
  <2>1. vv' = vv
    BY <1>2 DEF StartCycle, DialPeer, PullRefused, PostFails, PushAnswered, PushAnswerLost, Crash
  <2> QED
    BY <1>2, <2>1, RestartSteps, SameVectors
<1>3. ASSUME NEW b \in Boxes, NEW p \in Boxes, NEW d \in Domains, PullServed(b, p, d)
      PROVE  RoundInv' /\ Grown
  BY <1>3, PullServedStep, SameVectors DEF PullServed
<1>4. ASSUME NEW b \in Boxes, ReverseDelta(b)
      PROVE  RoundInv' /\ Grown
  BY <1>4, ReverseDeltaStep, SameVectors DEF ReverseDelta
<1> QED
  BY <1>1, <1>2, <1>3, <1>4, PushServedStep, MergePulledStep, WriteStep, CompactStep DEF Next, Step

\* Empty stores, and no round.
LEMMA RoundStart == Init => RoundInv
<1> SUFFICES ASSUME Init PROVE RoundInv
  OBVIOUS
<1>1. \A b \in Boxes : loop[b] = Idle /\ Idle \in Loops /\ Idle.pc = "idle"
  BY NoDeltaType, BoxesFinite, SyncConstants DEF Init, Idle, Loops
<1>2. TypeOK
  BY <1>1, BoxesFinite, SyncConstants DEF Init, TypeOK, Loops
<1>3. Authored
  BY DEF Init, Authored, NoVV
<1>4. \A b \in Boxes : Leg(b)
  BY <1>1 DEF Leg
<1> QED
  BY <1>2, <1>3, <1>4 DEF RoundInv

\* RoundInv holds of every instance of the protocol: what a round has read stays
\* true, as a lower bound, of the vectors it has read (Syncer.syncDomain).
THEOREM RoundInvariant == Spec => []RoundInv
BY RoundStart, RoundStep, PTL DEF Spec

\* No step of the protocol takes back what a box has acknowledged of an origin:
\* not a late delta, a snapshot, a compaction or a crash (Store.Merge).
THEOREM VectorsGrow == Spec => [][Grown]_vars
BY RoundInvariant, RoundStep, PTL DEF Spec

\* Every variable keeps its type; no delta leads past the largest number written.
THEOREM RoundsTypeOK == Spec => []TypeOK
<1>1. RoundInv => TypeOK
  BY DEF RoundInv
<1> QED
  BY <1>1, RoundInvariant, PTL

\* Store.Merge never meets a delta that begins after what the receiver has,
\* although both vectors were read before the posts.
THEOREM NoGapHolds == Spec => []NoGap
<1>1. RoundInv => NoGap
  BY DEF RoundInv, Leg, Joins, Leq, NoGap
<1> QED
  BY <1>1, RoundInvariant, PTL

\* When syncDomain ends a round with neither delta cut, each side has all that the
\* other had at the exchange: the limit (Share) loses nothing silently.
THEOREM RoundsExchange == Spec => []RoundExchanges
<1>1. RoundInv => RoundExchanges
  <2> SUFFICES ASSUME RoundInv, NEW b \in Boxes, NEW a \in Boxes
               PROVE  LET l == loop[b] IN
                      /\ l.pc \in {"reverse", "push", "pushed"} /\ ~l.in.cut =>
                           vv[b][l.dom][a] >= l.in.sender[a]
                      /\ l.pc = "pushed" /\ ~l.out.cut =>
                           vv[l.peer][l.dom][a] >= l.out.sender[a]
    BY DEF RoundExchanges
  <2>1. Leg(b)
    BY DEF RoundInv
  <2> QED
    BY <2>1 DEF Leg, Leq
<1> QED
  BY <1>1, RoundInvariant, PTL

-----------------------------------------------------------------------------
(* The protocol implements OpSets.                                         *)

Ops == [actor : Boxes, dom : Domains, seq : Nat \ {0}]

\* The sets of ops that the version vectors stand for.
OpsMatch ==
  /\ \A o : o \in issued <=> o \in Ops /\ o.seq <= vv[o.actor][o.dom][o.actor]
  /\ known = [b \in Boxes |-> known[b]]
  /\ \A b \in Boxes : \A o :
       o \in known[b] <=> o \in Ops /\ o.seq <= vv[b][o.dom][o.actor]

\* The ops that vectors stand for.
LEMMA OpsOfVectors ==
  ASSUME TypeOK
  PROVE  /\ \A o : o \in issued <=> o \in Ops /\ o.seq <= vv[o.actor][o.dom][o.actor]
         /\ known = [b \in Boxes |-> known[b]]
         /\ \A b \in Boxes : \A o :
              o \in known[b] <=> o \in Ops /\ o.seq <= vv[b][o.dom][o.actor]
<1>1. \A b, a \in Boxes, d \in Domains : vv[b][d][a] \in Nat
  BY BoxesFinite DEF TypeOK, VVs
<1>2. ASSUME NEW b \in Boxes, NEW a \in Boxes, NEW d \in Domains, NEW o
      PROVE  o \in OpsOf(b, d, a) <=>
               o \in Ops /\ o.actor = a /\ o.dom = d /\ o.seq <= vv[b][d][a]
  <2>1. vv[b][d][a] \in Nat
    BY <1>1
  <2>2. ASSUME NEW n \in 1..vv[b][d][a], o = [actor |-> a, dom |-> d, seq |-> n]
        PROVE  o \in Ops /\ o.actor = a /\ o.dom = d /\ o.seq <= vv[b][d][a]
    BY <2>1, <2>2 DEF Ops
  <2>3. ASSUME o \in Ops, o.actor = a, o.dom = d, o.seq <= vv[b][d][a]
        PROVE  \E n \in 1..vv[b][d][a] : o = [actor |-> a, dom |-> d, seq |-> n]
    <3>1. o.seq \in 1..vv[b][d][a] /\ o = [actor |-> a, dom |-> d, seq |-> o.seq]
      BY <2>1, <2>3 DEF Ops
    <3> QED
      BY <3>1
  <2> QED
    BY <2>2, <2>3 DEF OpsOf
<1>3. \A o \in Ops : o.actor \in Boxes /\ o.dom \in Domains
  BY DEF Ops
<1>4. \A o : o \in issued <=> \E a \in Boxes, d \in Domains : o \in OpsOf(a, d, a)
  BY DEF issued
<1>5. \A b \in Boxes : \A o : o \in known[b] <=> \E a \in Boxes, d \in Domains : o \in OpsOf(b, d, a)
  BY DEF known
<1>6. \A o : o \in issued <=> o \in Ops /\ o.seq <= vv[o.actor][o.dom][o.actor]
  BY <1>2, <1>3, <1>4
<1>7. \A b \in Boxes : \A o : o \in known[b] <=> o \in Ops /\ o.seq <= vv[b][o.dom][o.actor]
  BY <1>2, <1>3, <1>5
<1> QED
  BY <1>6, <1>7 DEF known

\* The same, as a state predicate,
LEMMA VectorsMatch == TypeOK => OpsMatch
BY OpsOfVectors DEF OpsMatch

\* in the next state,
LEMMA VectorsMatchNext == TypeOK' => OpsMatch'
BY VectorsMatch, PTL

\* and as facts about it.
LEMMA OpsOfVectorsNext ==
  ASSUME TypeOK'
  PROVE  /\ \A o : o \in issued' <=> o \in Ops /\ o.seq <= vv'[o.actor][o.dom][o.actor]
         /\ known' = [b \in Boxes |-> known'[b]]
         /\ \A b \in Boxes : \A o :
              o \in known'[b] <=> o \in Ops /\ o.seq <= vv'[b][o.dom][o.actor]
BY VectorsMatchNext DEF OpsMatch

\* A merge at r: what it adds exists and leaves no gap.
LEMMA LearnStep ==
  ASSUME RoundInv, RoundInv', Grown, NEW r \in Boxes,
         \A b \in Boxes \ {r}, d \in Domains : vv'[b][d] = vv[b][d],
         \A d \in Domains : vv'[r][d][r] = vv[r][d][r]
  PROVE  Abstract!Learn(r, known'[r])
<1>1. TypeOK /\ TypeOK' /\ Authored'
  BY DEF RoundInv
<1>2. \A b, a \in Boxes, d \in Domains :
        vv[b][d][a] \in Int /\ vv'[b][d][a] \in Int /\ vv[b][d][a] <= vv'[b][d][a]
  BY <1>1, BoxesFinite DEF TypeOK, VVs, Grown, Leq
<1>3. \A a \in Boxes, d \in Domains : vv'[a][d][a] = vv[a][d][a]
  OBVIOUS
<1>4. \A o \in Ops : o.actor \in Boxes /\ o.dom \in Domains /\ o.seq \in Int
  BY DEF Ops
<1>5. issued' = issued
  BY <1>1, <1>3, <1>4, OpsOfVectors, OpsOfVectorsNext
<1>6. known'[r] \subseteq issued
  <2> SUFFICES ASSUME NEW o \in known'[r]
               PROVE  o \in issued
    OBVIOUS
  <2>1. o \in Ops /\ o.seq <= vv'[r][o.dom][o.actor]
    BY <1>1, OpsOfVectorsNext
  <2>2. vv'[r][o.dom][o.actor] <= vv[o.actor][o.dom][o.actor]
    BY <1>1, <1>3, <1>4, <2>1 DEF Authored
  <2> QED
    BY <1>1, <1>2, <1>4, <2>1, <2>2, OpsOfVectors
<1>7. \A o \in known'[r] : Abstract!Before(issued, o) \subseteq known[r] \cup known'[r]
  <2> SUFFICES ASSUME NEW o \in known'[r], NEW q \in issued, EarlierOp(q, o)
               PROVE  q \in known'[r]
    BY DEF Abstract!Before
  <2>1. o \in Ops /\ o.seq <= vv'[r][o.dom][o.actor] /\ q \in Ops
    BY <1>1, OpsOfVectors, OpsOfVectorsNext
  <2>2. q.actor = o.actor /\ q.dom = o.dom /\ q.seq < o.seq
    BY DEF EarlierOp
  <2>3. q.seq <= vv'[r][q.dom][q.actor]
    BY <1>2, <1>4, <2>1, <2>2
  <2> QED
    BY <1>1, <2>1, <2>3, OpsOfVectorsNext
<1>8. known' = [known EXCEPT ![r] = known[r] \cup known'[r]]
  <2>1. known[r] \subseteq known'[r]
    <3> SUFFICES ASSUME NEW o \in known[r]
                 PROVE  o \in known'[r]
      OBVIOUS
    <3>1. o \in Ops /\ o.seq <= vv[r][o.dom][o.actor]
      BY <1>1, OpsOfVectors
    <3>2. o.seq <= vv'[r][o.dom][o.actor]
      BY <1>2, <1>4, <3>1
    <3> QED
      BY <1>1, <3>1, <3>2, OpsOfVectorsNext
  <2>2. ASSUME NEW b \in Boxes \ {r}
        PROVE  known'[b] = known[b]
    <3>1. \A o : o \in known'[b] <=> o \in known[b]
      BY <1>1, <1>4, OpsOfVectors, OpsOfVectorsNext
    <3> QED
      BY <3>1
  <2>3. known' = [b \in Boxes |-> known'[b]] /\ known = [b \in Boxes |-> known[b]]
    BY <1>1, OpsOfVectors, OpsOfVectorsNext
  <2> QED
    BY <2>1, <2>2, <2>3
<1> QED
  BY <1>5, <1>6, <1>7, <1>8 DEF Abstract!Learn

\* A write at b: the next number of b's.
LEMMA OriginateStep ==
  ASSUME RoundInv, RoundInv', NEW b \in Boxes, NEW d \in Domains, Write(b, d)
  PROVE  \E o \in issued' \ issued : Abstract!Originate(b, o)
<1> DEFINE n == vv[b][d][b] + 1
<1>1. TypeOK /\ TypeOK' /\ Authored
  BY DEF RoundInv
<1>2. \A c, a \in Boxes, e \in Domains : vv[c][e][a] \in Nat /\ vv'[c][e][a] \in Nat
  BY <1>1, BoxesFinite DEF TypeOK, VVs
<1>3. /\ vv'[b][d][b] = n
      /\ \A c, a \in Boxes, e \in Domains : <<c, e, a>> # <<b, d, b>> => vv'[c][e][a] = vv[c][e][a]
  BY <1>1 DEF Write, TypeOK, VVs
<1>4. PICK o : o = [actor |-> b, dom |-> d, seq |-> n]
  OBVIOUS
<1>5. o \in Ops /\ o.actor = b /\ o.dom = d /\ o.seq = n /\ n \in Nat
  BY <1>2, <1>4 DEF Ops
<1>6. \A q \in Ops : /\ q.actor \in Boxes /\ q.dom \in Domains /\ q.seq \in Nat
                     /\ q.actor = b /\ q.dom = d /\ q.seq = n => q = o
  BY <1>4 DEF Ops
<1>7. ASSUME NEW c \in Boxes, NEW q \in Ops
      PROVE  q.seq <= vv'[c][q.dom][q.actor] <=> q.seq <= vv[c][q.dom][q.actor] \/ (c = b /\ q = o)
  <2>1. CASE <<c, q.dom, q.actor>> = <<b, d, b>>
    BY <1>2, <1>3, <1>5, <1>6, <2>1
  <2>2. CASE <<c, q.dom, q.actor>> # <<b, d, b>>
    BY <1>3, <1>5, <1>6, <2>2
  <2> QED
    BY <2>1, <2>2
<1>8. o \notin issued /\ issued' = issued \cup {o}
  <2>1. o \notin issued
    BY <1>1, <1>2, <1>5, OpsOfVectors
  <2>2. \A q : q \in issued' <=> q \in issued \/ q = o
    BY <1>1, <1>5, <1>6, <1>7, OpsOfVectors, OpsOfVectorsNext
  <2> QED
    BY <2>1, <2>2
<1>9. known' = [known EXCEPT ![b] = known[b] \cup {o}]
  <2>1. known' = [c \in Boxes |-> known'[c]] /\ known = [c \in Boxes |-> known[c]]
    BY <1>1, OpsOfVectors, OpsOfVectorsNext
  <2>2. ASSUME NEW c \in Boxes
        PROVE  known'[c] = IF c = b THEN known[b] \cup {o} ELSE known[c]
    <3>1. \A q : q \in known'[c] <=> q \in known[c] \/ (c = b /\ q = o)
      BY <1>1, <1>5, <1>7, OpsOfVectors, OpsOfVectorsNext
    <3> QED
      BY <3>1
  <2> QED
    BY <2>1, <2>2
<1>10. \A q \in issued : q # o /\ ~EarlierOp(o, q)
  <2> SUFFICES ASSUME NEW q \in issued, EarlierOp(o, q)
               PROVE  FALSE
    BY <1>8
  <2>1. q \in Ops /\ q.seq <= vv[q.actor][q.dom][q.actor] /\ q.actor = b /\ q.dom = d /\ n < q.seq
    BY <1>1, <1>5, OpsOfVectors DEF EarlierOp
  <2> QED
    BY <1>2, <1>6, <2>1
<1>11. Abstract!Before(issued, o) \subseteq known[b]
  <2> SUFFICES ASSUME NEW q \in issued, EarlierOp(q, o)
               PROVE  q \in known[b]
    BY DEF Abstract!Before
  <2>1. q \in Ops /\ q.seq <= vv[q.actor][q.dom][q.actor] /\ q.actor = b
    BY <1>1, <1>5, OpsOfVectors DEF EarlierOp
  <2> QED
    BY <1>1, <2>1, OpsOfVectors
<1> QED
  BY <1>5, <1>8, <1>9, <1>10, <1>11 DEF Abstract!Originate

\* A step issues an op, exchanges ops or changes nothing that OpSets sees.
LEMMA RoundRefines == RoundInv /\ RoundInv' /\ [Next]_vars => [Abstract!Next]_<<issued, known>>
<1> SUFFICES ASSUME RoundInv, RoundInv', [Next]_vars
             PROVE  [Abstract!Next]_<<issued, known>>
  OBVIOUS
<1>1. CASE vv' = vv
  <2>1. issued' = issued /\ known' = known
    BY <1>1 DEF issued, known, OpsOf
  <2> QED
    BY <2>1
<1>2. ASSUME NEW b \in Boxes, NEW d \in Domains, Write(b, d)
      PROVE  [Abstract!Next]_<<issued, known>>
  BY <1>2, OriginateStep DEF Abstract!Next
<1>3. ASSUME NEW r \in Boxes, NEW d \in Domains, NEW q \in Deltas, Joins(q, r, d), MergeAt(r, d, q)
      PROVE  [Abstract!Next]_<<issued, known>>
  <2>1. /\ Grown /\ TypeOK /\ TypeOK'
        /\ \A b \in Boxes, e \in Domains : <<b, e>> # <<r, d>> => vv'[b][e] = vv[b][e]
    BY <1>3, MergeGrows DEF RoundInv
  <2>2. \A b \in Boxes \ {r}, e \in Domains : vv'[b][e] = vv[b][e]
    BY <2>1
  <2>3. \A e \in Domains : vv'[r][e][r] = vv[r][e][r]
    <3>1. Merged(vv[r][d], q)[r] \in {vv[r][d][r], q.to[r]} /\ vv'[r][d] = Merged(vv[r][d], q)
      <4>1. vv[r][d] \in VVs /\ floor[r][d] \in VVs
        BY <2>1 DEF TypeOK
      <4> QED
        BY <1>3, <2>1, <4>1, MergedSound DEF MergeAt, TypeOK
    <3>2. q.to[r] <= vv[r][d][r] /\ vv[r][d][r] <= vv'[r][d][r]
      BY <1>3, <2>1 DEF Joins, Grown, Leq
    <3>3. q.to[r] \in Int /\ vv[r][d][r] \in Int
      BY <1>3, <2>1, BoxesFinite DEF Deltas, TypeOK, VVs
    <3> QED
      BY <2>1, <3>1, <3>2, <3>3
  <2> QED
    BY <2>1, <2>2, <2>3, LearnStep DEF Abstract!Next
<1>4. ASSUME NEW b \in Boxes, MergePulled(b)
      PROVE  [Abstract!Next]_<<issued, known>>
  <2>1. loop[b].in \in Deltas /\ loop[b].dom \in Domains /\ Joins(loop[b].in, b, loop[b].dom)
    BY <1>4 DEF RoundInv, TypeOK, Leg, MergePulled
  <2> QED
    BY <1>3, <1>4, <2>1 DEF MergePulled
<1>5. ASSUME NEW b \in Boxes, NEW p \in Boxes, NEW d \in Domains, PushServed(b, p, d)
      PROVE  [Abstract!Next]_<<issued, known>>
  <2>1. loop[b].out \in Deltas /\ Joins(loop[b].out, p, d)
    BY <1>5 DEF RoundInv, TypeOK, Leg, PushServed
  <2> QED
    BY <1>3, <1>5, <2>1 DEF PushServed
<1> QED
  BY <1>1, <1>2, <1>4, <1>5
     DEF Next, Step, StartCycle, DialPeer, PullServed, PullRefused, PostFails, ReverseDelta,
         PushAnswered, PushAnswerLost, Crash, Compact, vars

\* Pull, merge, reverse delta and push, with posts and answers lost, boxes
\* restarting and logs compacted, are steps of OpSets (syncer.go, handlers.go).
THEOREM RoundsImplementOpSets == Spec => ImplementsOpSets
<1>1. Init => Abstract!Init
  <2> SUFFICES ASSUME Init PROVE Abstract!Init
    OBVIOUS
  <2>1. \A b, a \in Boxes, d \in Domains : vv[b][d][a] = 0
    BY DEF Init, NoVV
  <2>2. \A b, a \in Boxes, d \in Domains : OpsOf(b, d, a) = {}
    BY <2>1 DEF OpsOf
  <2>3. issued = {}
    BY <2>2 DEF issued
  <2>4. known = [b \in Boxes |-> {}]
    <3>1. \A b \in Boxes : UNION {OpsOf(b, d, a) : a \in Boxes, d \in Domains} = {}
      BY <2>2
    <3> QED
      BY <3>1 DEF known
  <2> QED
    BY <2>3, <2>4 DEF Abstract!Init
<1> QED
  BY <1>1, RoundInvariant, RoundRefines, PTL DEF Spec, ImplementsOpSets, Abstract!Spec
===============================================================================
