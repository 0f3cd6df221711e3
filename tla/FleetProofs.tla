----------------------------- MODULE FleetProofs -----------------------------
(***************************************************************************)
(* CountGrows for any fleet; OwnReportStands and CursorLosesNothing for a  *)
(* fleet of two, where they hold.                                          *)
(*                                                                         *)
(* The actions change the tables in four ways: not at all, by merging rows *)
(* of a peer, by a report and perhaps a desire of the box itself, or by    *)
(* losing them.  FleetTypes is inductive for each; with it a count never   *)
(* falls, whatever the signatures and the clocks.                          *)
(*                                                                         *)
(* OwnReportStands needs ReportInv: EntryOK, that an entry which says      *)
(* installed is of the generation of its own stamp and has noted only      *)
(* removals from before it, so that one box's removal is a quorum exactly  *)
(* when it is later; and that a box's report is copied, never outdated,    *)
(* elsewhere.  CursorLosesNothing needs CursorInv: of a round that has     *)
(* pulled and not yet pushed, what the peer still has over the box is      *)
(* above the peer's own cursor, since it was below the one of the pull.    *)
(***************************************************************************)
EXTENDS AppFleet, FiniteSetTheorems, WellFoundedInduction, TLAPS

\* What a table holds, whatever the count; a plan's actions; a round.
EntryRows == [on : BOOLEAN, by : Boxes \cup {0}, at : Nat, state : States, again : Nat]
Entries   == [row : EntryRows, gen : [n : Nat, at : Nat],
              obs : [Boxes -> [at : Nat, epoch : Nat \cup {-1}]]]
Actions   == [app : Apps, install : BOOLEAN, again : Nat, deferred : BOOLEAN]
Rounds    == [peer : Boxes, seen : Nat] \cup {NoRound}

\* No clock is further ahead than this.
Top == Max({Ahead[b] : b \in Boxes})

\* No row is from the future of the fastest clock, and a desire has no count.
Rowed(T, now) ==
  /\ T \in [Boxes -> [Keys -> Entries]]
  /\ \A b \in Boxes, k \in Keys : T[b][k].row.at <= now + Top
  /\ \A b \in Boxes, a \in Apps : T[b][<<Fleet, a>>].row.again = 0

\* An entry stands at the stamp of its row; when it says installed, it is of
\* the generation of that install, and every removal noted is from before.
EntryOK(e) ==
  /\ e.gen.at <= e.row.at
  /\ \A o \in Boxes : e.obs[o].at <= e.row.at
  /\ e.row.on => /\ e.row.at > 0 /\ e.gen.at = e.row.at /\ e.gen.n >= 1
                 /\ \A o \in Boxes : e.obs[o].at < e.row.at

\* What a box has in memory.
Memory ==
  /\ cursor \in [Boxes -> [Boxes -> Nat]]
  /\ \A b, p \in Boxes : cursor[b][p] <= clock + Top
  /\ round \in [Boxes -> Rounds]
  /\ \A b \in Boxes : round[b].seen <= clock + Top
  /\ plan \in [Boxes -> SUBSET Actions]
  /\ click \in [Boxes -> [app : Apps, want : BOOLEAN] \cup {NoClick}]

FleetTypes == Rowed(table, clock) /\ clock \in Nat /\ Memory
-----------------------------------------------------------------------------
(* Numbers                                                                 *)

\* A set of naturals that is not empty has a least element.
LEMMA LeastNat ==
  ASSUME NEW S \in SUBSET Nat, S # {}
  PROVE  \E x \in S : \A y \in S : x <= y
<1>1. PICK x \in S : \A y \in S : ~(<<y, x>> \in OpToRel(<, Nat))
  BY NatLessThanWellFounded, WFMin, Zenon
<1>2. \A y \in S : ~(y < x)
  BY <1>1 DEF OpToRel
<1> QED
  BY <1>2

\* Max of a set of naturals that is bounded.
LEMMA MaxBounded ==
  ASSUME NEW n \in Nat, NEW S \in SUBSET (0..n), S # {}
  PROVE  Max(S) \in S /\ \A y \in S : y <= Max(S)
<1> DEFINE T == {n - x : x \in S}
<1>1. \A x \in S : x \in Nat /\ n - x \in Nat /\ n - x \in T
  OBVIOUS
<1>2. T \in SUBSET Nat /\ T # {}
  BY <1>1
<1>3. PICK d \in T : \A e \in T : d <= e
  BY <1>2, LeastNat
<1>4. PICK x \in S : d = n - x
  OBVIOUS
<1>5. \A y \in S : n - x <= n - y
  BY <1>1, <1>3, <1>4
<1> HIDE DEF T
<1>6. \A y \in S : x >= y
  BY <1>1, <1>5
<1> QED
  BY <1>6 DEF Max

\* Max of two.
LEMMA MaxOfTwo ==
  ASSUME NEW x \in Nat, NEW y \in Nat
  PROVE  Max({x, y}) = IF x <= y THEN y ELSE x
<1>1. CASE x <= y
  BY <1>1 DEF Max
<1>2. CASE ~(x <= y)
  BY <1>2 DEF Max
<1> QED
  BY <1>1, <1>2

\* Of finitely many clocks one is the fastest: the largest number of boxes whose
\* clocks have a bound is the number of all.
LEMMA TopIsTop ==
  /\ Top \in Nat /\ \A b \in Boxes : Ahead[b] <= Top
  /\ \E b \in Boxes : Ahead[b] = Top
<1> DEFINE T == {n \in 0..N : \E m \in Nat : \A b \in 1..n : Ahead[b] <= m}
<1>1. N \in Nat \ {0} /\ \A b \in 1..N : Ahead[b] \in Nat
  BY FleetConstants DEF Boxes
<1>2. 0 \in T
  <2>1. \A b \in 1..0 : Ahead[b] <= 0
    OBVIOUS
  <2> QED
    BY <1>1, <2>1
<1>3. T \in SUBSET (0..N) /\ T # {}
  BY <1>2
<1>4. PICK n \in T : \A y \in T : y <= n
  BY <1>1, <1>3, MaxBounded
<1>5. PICK m \in Nat : \A b \in 1..n : Ahead[b] <= m
  BY <1>4
<1>6. n = N
  <2> SUFFICES ASSUME n # N
               PROVE  FALSE
    OBVIOUS
  <2>1. n \in Nat /\ n + 1 \in 1..N
    BY <1>1, <1>4
  <2>2. Ahead[n + 1] \in Nat
    BY <1>1, <2>1
  <2>3. PICK k \in Nat : k >= m /\ k >= Ahead[n + 1]
    <3>1. m + Ahead[n + 1] \in Nat /\ m + Ahead[n + 1] >= m /\ m + Ahead[n + 1] >= Ahead[n + 1]
      BY <1>5, <2>2
    <3> QED
      BY <3>1
  <2>4. \A b \in 1..(n + 1) : Ahead[b] <= k
    <3> TAKE b \in 1..(n + 1)
    <3>1. CASE b = n + 1
      BY <2>3, <3>1
    <3>2. CASE b # n + 1
      <4>1. b \in 1..n /\ b \in 1..N
        BY <1>1, <2>1, <3>2
      <4>2. Ahead[b] \in Nat /\ Ahead[b] <= m
        BY <1>1, <1>5, <4>1
      <4> QED
        BY <1>5, <2>3, <4>2
    <3> QED
      BY <3>1, <3>2, Zenon
  <2>5. n + 1 \in T
    BY <1>1, <2>1, <2>3, <2>4
  <2> QED
    BY <1>4, <2>1, <2>5
<1> HIDE DEF T
<1>7. \A b \in Boxes : Ahead[b] \in 0..m
  BY <1>1, <1>5, <1>6 DEF Boxes
<1> DEFINE S == {Ahead[b] : b \in Boxes}
<1>8. S \in SUBSET (0..m) /\ S # {}
  BY <1>1, <1>7 DEF Boxes
<1>9. Max(S) \in S /\ \A y \in S : y <= Max(S)
  BY <1>5, <1>8, MaxBounded
<1> QED
  BY <1>5, <1>8, <1>9 DEF Top
-----------------------------------------------------------------------------
(* Entries                                                                 *)

\* upsertEntry keeps the count, or raises it.
LEMMA Upserts ==
  ASSUME NEW e \in Entries, NEW r \in EntryRows
  PROVE  /\ Upsert(e, r) \in Entries
         /\ Upsert(e, r).row.again >= e.row.again
         /\ Upsert(e, r).row.at = r.at /\ Upsert(e, r).row.on = r.on
         /\ Upsert(e, r).gen = e.gen /\ Upsert(e, r).obs = e.obs
<1>1. r.again \in Nat /\ e.row.again \in Nat
  BY DEF Entries, EntryRows
<1>2. Max({r.again, e.row.again}) \in Nat /\ Max({r.again, e.row.again}) >= e.row.again
  BY <1>1, MaxOfTwo
<1> QED
  BY <1>2 DEF Upsert, Entries, EntryRows

\* The generation goes to the stamp of a newer install.
LEMMA Bumps ==
  ASSUME NEW e \in Entries, NEW at \in Nat
  PROVE  /\ BumpGeneration(e, at) \in Entries
         /\ BumpGeneration(e, at).row = e.row /\ BumpGeneration(e, at).obs = e.obs
         /\ at > e.gen.at \/ e.gen.n = 0 =>
              BumpGeneration(e, at).gen.at = at /\ BumpGeneration(e, at).gen.n >= 1
         /\ ~(at > e.gen.at \/ e.gen.n = 0) => BumpGeneration(e, at).gen = e.gen
BY DEF BumpGeneration, Entries

\* A removal is noted under the present generation.
LEMMA Observes ==
  ASSUME NEW e \in Entries, NEW o \in Boxes, NEW at \in Nat
  PROVE  /\ RecordObservation(e, o, at) \in Entries
         /\ RecordObservation(e, o, at).row = e.row /\ RecordObservation(e, o, at).gen = e.gen
         /\ \A p \in Boxes \ {o} : RecordObservation(e, o, at).obs[p] = e.obs[p]
         /\ RecordObservation(e, o, at).obs[o].epoch = e.gen.n
         /\ RecordObservation(e, o, at).obs[o].at = IF at <= e.obs[o].at THEN e.obs[o].at ELSE at
<1>1. e.obs[o].at \in Nat /\ e.gen.n \in Nat
  BY DEF Entries
<1>2. Max({at, e.obs[o].at}) = IF at <= e.obs[o].at THEN e.obs[o].at ELSE at
  BY <1>1, MaxOfTwo
<1> QED
  BY <1>1, <1>2 DEF RecordObservation, Entries

\* bumpReRealiseCounter.
LEMMA Counts ==
  ASSUME NEW e \in Entries, NEW r \in EntryRows
  PROVE  /\ Counted(e, r) \in Entries
         /\ Counted(e, r).row.again >= e.row.again
         /\ Counted(e, r).row.at = e.row.at /\ Counted(e, r).row.on = e.row.on
         /\ Counted(e, r).row.by = e.row.by
         /\ Counted(e, r).gen = e.gen /\ Counted(e, r).obs = e.obs
BY DEF Counted, Entries, EntryRows

\* What a merge notes before it compares stamps leaves the row but for its count.
LEMMA Notes ==
  ASSUME NEW e \in Entries, NEW r \in EntryRows, NEW o \in Boxes
  PROVE  /\ Noted(e, r, o) \in Entries
         /\ Noted(e, r, o).row.again >= e.row.again
         /\ Noted(e, r, o).row.at = e.row.at /\ Noted(e, r, o).row.on = e.row.on
         /\ r.on => /\ Noted(e, r, o).obs = e.obs
                    /\ r.at > e.gen.at \/ e.gen.n = 0 =>
                         Noted(e, r, o).gen.at = r.at /\ Noted(e, r, o).gen.n >= 1
                    /\ ~(r.at > e.gen.at \/ e.gen.n = 0) => Noted(e, r, o).gen = e.gen
         /\ ~r.on /\ o \in Verified =>
              /\ Noted(e, r, o).gen = e.gen
              /\ \A p \in Boxes \ {o} : Noted(e, r, o).obs[p] = e.obs[p]
              /\ Noted(e, r, o).obs[o].epoch = e.gen.n
              /\ Noted(e, r, o).obs[o].at = IF r.at <= e.obs[o].at THEN e.obs[o].at ELSE r.at
<1>1. PICK c : c = Counted(e, r)
  OBVIOUS
<1>2. /\ c \in Entries /\ c.row.again >= e.row.again /\ c.row.at = e.row.at
      /\ c.row.on = e.row.on /\ c.gen = e.gen /\ c.obs = e.obs
  BY <1>1, Counts
<1>3. r.at \in Nat /\ r.on \in BOOLEAN
  BY DEF EntryRows
<1>4. Noted(e, r, o) = IF r.on THEN BumpGeneration(c, r.at)
                       ELSE IF o \in Verified THEN RecordObservation(c, o, r.at) ELSE c
  BY <1>1 DEF Noted
<1>5. CASE r.on
  <2>1. PICK g : g = BumpGeneration(c, r.at)
    OBVIOUS
  <2>2. /\ g \in Entries /\ g.row = c.row /\ g.obs = c.obs
        /\ r.at > c.gen.at \/ c.gen.n = 0 => g.gen.at = r.at /\ g.gen.n >= 1
        /\ ~(r.at > c.gen.at \/ c.gen.n = 0) => g.gen = c.gen
    BY <1>2, <1>3, <2>1, Bumps
  <2>3. Noted(e, r, o) = g
    BY <1>4, <1>5, <2>1
  <2> QED
    BY <1>2, <1>5, <2>2, <2>3
<1>6. CASE ~r.on /\ o \in Verified
  <2>1. PICK g : g = RecordObservation(c, o, r.at)
    OBVIOUS
  <2>2. /\ g \in Entries /\ g.row = c.row /\ g.gen = c.gen
        /\ \A p \in Boxes \ {o} : g.obs[p] = c.obs[p]
        /\ g.obs[o].epoch = c.gen.n
        /\ g.obs[o].at = IF r.at <= c.obs[o].at THEN c.obs[o].at ELSE r.at
    BY <1>2, <1>3, <2>1, Observes, SMTT(30)
  <2>3. Noted(e, r, o) = g
    BY <1>4, <1>6, <2>1
  <2> QED
    BY <1>2, <1>6, <2>2, <2>3
<1>7. CASE ~r.on /\ o \notin Verified
  BY <1>2, <1>4, <1>7
<1> QED
  BY <1>3, <1>5, <1>6, <1>7

\* One removal is a quorum of two boxes.
LEMMA QuorumOfTwo ==
  ASSUME N <= 2, NEW e
  PROVE  Quorum(e) <=> Origins(e) # {}
<1>1. N \in Nat
  BY FleetConstants
<1>2. IsFiniteSet(1..N)
  BY <1>1, FS_Interval
<1>3. IsFiniteSet(Origins(e))
  BY <1>2, FS_Subset DEF Origins, Boxes
<1>4. Cardinality(Origins(e)) \in Nat
  BY <1>3, FS_CardinalityType
<1>5. Cardinality(Origins(e)) = 0 <=> Origins(e) = {}
  BY <1>3, FS_EmptySet
<1> QED
  BY <1>4, <1>5 DEF Quorum, Threshold

\* mergeEntry: the later stamp stays, and the count, whichever row wins.
LEMMA MergeReports ==
  ASSUME NEW old \in Entries, NEW r \in EntryRows, NEW o \in Boxes
  PROVE  /\ MergeReport(old, r, o) \in Entries
         /\ MergeReport(old, r, o).row.again >= old.row.again
         /\ MergeReport(old, r, o).row.at = IF r.at > old.row.at THEN r.at ELSE old.row.at
<1>1. PICK e : e = Noted(old, r, o)
  OBVIOUS
<1>2. e \in Entries /\ e.row.again >= old.row.again /\ e.row.at = old.row.at
  BY <1>1, Notes
<1>3. /\ e.row.again \in Nat /\ old.row.again \in Nat /\ e.row \in EntryRows
      /\ r.at \in Nat /\ e.row.at \in Nat /\ r.on \in BOOLEAN /\ e.row.on \in BOOLEAN
  BY <1>2 DEF Entries, EntryRows
<1>4. ASSUME NEW q \in EntryRows
      PROVE  /\ Upsert(e, q) \in Entries /\ Upsert(e, q).row.again >= old.row.again
             /\ Upsert(e, q).row.at = q.at
  <2>1. /\ Upsert(e, q) \in Entries /\ Upsert(e, q).row.again >= e.row.again
        /\ Upsert(e, q).row.at = q.at
    BY <1>2, Upserts
  <2>2. Upsert(e, q).row.again \in Nat
    BY <2>1 DEF Entries, EntryRows
  <2> QED
    BY <1>2, <1>3, <2>1, <2>2
<1>5. ASSUME NEW on \in BOOLEAN
      PROVE  /\ [r EXCEPT !.on = on] \in EntryRows /\ [r EXCEPT !.on = on].at = r.at
             /\ Row(on, e.row.by, e.row.at, "", 0) \in EntryRows
             /\ Row(on, e.row.by, e.row.at, "", 0).at = e.row.at
  BY <1>3 DEF EntryRows, Row, States
<1>6. [r EXCEPT !.by = Max({r.by, e.row.by})] \in EntryRows
      /\ [r EXCEPT !.by = Max({r.by, e.row.by})].at = r.at
  <2>1. r.by \in Boxes \cup {0} /\ e.row.by \in Boxes \cup {0} /\ Boxes \cup {0} \subseteq Nat
    BY <1>3 DEF EntryRows, Boxes
  <2>2. Max({r.by, e.row.by}) \in Boxes \cup {0}
    BY <2>1, MaxOfTwo
  <2> QED
    BY <2>2 DEF EntryRows
<1>7. PICK m : m = MergeReport(old, r, o)
  OBVIOUS
<1>8. CASE r.at > e.row.at
  <2>1. m = Upsert(e, [r EXCEPT !.on = r.on \/ ~Quorum(e)])
    BY <1>1, <1>7, <1>8 DEF MergeReport
  <2>2. PICK q : q = [r EXCEPT !.on = r.on \/ ~Quorum(e)]
    OBVIOUS
  <2>3. (r.on \/ ~Quorum(e)) \in BOOLEAN
    OBVIOUS
  <2>4. q \in EntryRows /\ q.at = r.at
    BY <1>5, <2>2, <2>3
  <2>5. m \in Entries /\ m.row.again >= old.row.again /\ m.row.at = r.at
    BY <1>4, <2>1, <2>2, <2>4
  <2> QED
    BY <1>2, <1>7, <1>8, <2>5
<1>9. CASE r.at = e.row.at
  <2>1. m = Tied(e, r)
    BY <1>1, <1>3, <1>7, <1>9 DEF MergeReport
  <2>2. \/ m = Upsert(e, [r EXCEPT !.by = Max({r.by, e.row.by})])
        \/ m = Upsert(e, [r EXCEPT !.on = e.row.on \/ r.on])
        \/ m = Upsert(e, Row(TRUE, e.row.by, e.row.at, "", 0))
        \/ m = e
    BY <2>1 DEF Tied, Flagged
  <2>3. (e.row.on \/ r.on) \in BOOLEAN
    OBVIOUS
  <2>4. m \in Entries /\ m.row.again >= old.row.again /\ m.row.at = e.row.at
    BY <1>2, <1>4, <1>5, <1>6, <1>9, <2>2, <2>3
  <2> QED
    BY <1>2, <1>3, <1>7, <1>9, <2>4
<1>10. CASE r.at < e.row.at
  <2>0. ~(r.at > e.row.at) /\ r.at # e.row.at
    BY <1>3, <1>10
  <2>1. m = Upsert(e, Row(FALSE, e.row.by, e.row.at, "", 0)) \/ m = e
    BY <1>1, <1>7, <2>0, Zenon DEF MergeReport, Flagged
  <2>2. m \in Entries /\ m.row.again >= old.row.again /\ m.row.at = e.row.at
    BY <1>2, <1>4, <1>5, <2>1
  <2> QED
    BY <1>2, <1>3, <1>7, <1>10, <2>2
<1> QED
  BY <1>3, <1>8, <1>9, <1>10

\* Of two boxes, a merge takes the report that is later and nothing else.
LEMMA MergeOfTwo ==
  ASSUME N <= 2, Verified = Boxes,
         NEW old \in Entries, NEW r \in EntryRows, NEW o \in Boxes,
         EntryOK(old), r.at > 0, r.at = old.row.at => r.on = old.row.on
  PROVE  /\ EntryOK(MergeReport(old, r, o))
         /\ MergeReport(old, r, o).row.on = IF r.at > old.row.at THEN r.on ELSE old.row.on
<1>1. PICK e : e = Noted(old, r, o)
  OBVIOUS
<1>2. PICK m : m = MergeReport(old, r, o)
  OBVIOUS
<1>3. /\ e \in Entries /\ e.row.at = old.row.at /\ e.row.on = old.row.on
      /\ r.on => /\ e.obs = old.obs
                 /\ r.at > old.gen.at \/ old.gen.n = 0 => e.gen.at = r.at /\ e.gen.n >= 1
                 /\ ~(r.at > old.gen.at \/ old.gen.n = 0) => e.gen = old.gen
      /\ ~r.on => /\ e.gen = old.gen
                  /\ \A p \in Boxes \ {o} : e.obs[p] = old.obs[p]
                  /\ e.obs[o].epoch = old.gen.n
                  /\ e.obs[o].at = IF r.at <= old.obs[o].at THEN old.obs[o].at ELSE r.at
  BY <1>1, Notes
<1>4. /\ r.at \in Nat /\ old.row.at \in Nat /\ r.on \in BOOLEAN /\ old.row.on \in BOOLEAN
      /\ e.row \in EntryRows /\ old.gen.at \in Nat /\ old.gen.n \in Nat
      /\ \A p \in Boxes : old.obs[p].at \in Nat
  BY <1>3 DEF Entries, EntryRows
<1>5. ASSUME NEW q \in EntryRows
      PROVE  /\ Upsert(e, q).row.at = q.at /\ Upsert(e, q).row.on = q.on
             /\ Upsert(e, q).gen = e.gen /\ Upsert(e, q).obs = e.obs
  BY <1>3, Upserts
<1>6. ASSUME NEW on \in BOOLEAN
      PROVE  /\ [r EXCEPT !.on = on] \in EntryRows
             /\ [r EXCEPT !.on = on].at = r.at /\ [r EXCEPT !.on = on].on = on
  BY DEF EntryRows
<1>7. /\ old.gen.at <= old.row.at
      /\ \A p \in Boxes : old.obs[p].at <= old.row.at
      /\ old.row.on => /\ old.row.at > 0 /\ old.gen.at = old.row.at /\ old.gen.n >= 1
                       /\ \A p \in Boxes : old.obs[p].at < old.row.at
  BY DEF EntryOK
<1>8. CASE r.at > old.row.at
  <2>1. m = Upsert(e, [r EXCEPT !.on = r.on \/ ~Quorum(e)])
    BY <1>1, <1>2, <1>3, <1>8 DEF MergeReport
  <2>2. ~r.on => Quorum(e)
    <3> SUFFICES ASSUME ~r.on
                 PROVE  Quorum(e)
      OBVIOUS
    <3>1. e.obs[o].epoch = e.gen.n /\ e.obs[o].at >= e.gen.at
      BY <1>3, <1>4, <1>7, <1>8
    <3>2. o \in Origins(e)
      BY <3>1 DEF Origins
    <3> QED
      BY <3>2, QuorumOfTwo
  <2>3. PICK q : q = [r EXCEPT !.on = r.on \/ ~Quorum(e)]
    OBVIOUS
  <2>4. (r.on \/ ~Quorum(e)) = r.on
    BY <1>4, <2>2, Zenon
  <2>5. q \in EntryRows /\ q.at = r.at /\ q.on = r.on
    BY <1>4, <1>6, <2>3, <2>4
  <2>6. m.row.at = r.at /\ m.row.on = r.on /\ m.gen = e.gen /\ m.obs = e.obs
    BY <1>5, <2>1, <2>3, <2>5
  <2>7. CASE r.on
    BY <1>2, <1>3, <1>4, <1>7, <1>8, <2>6, <2>7 DEF EntryOK
  <2>8. CASE ~r.on
    <3>1. \A p \in Boxes : e.obs[p].at <= r.at
      BY <1>3, <1>4, <1>7, <1>8, <2>8
    <3> QED
      BY <1>2, <1>3, <1>4, <1>7, <1>8, <2>6, <2>8, <3>1 DEF EntryOK
  <2> QED
    BY <1>4, <2>7, <2>8
<1>9. CASE r.at = old.row.at
  <2>1. r.on = old.row.on
    BY <1>9
  <2>2. m = Tied(e, r)
    BY <1>1, <1>2, <1>3, <1>4, <1>9 DEF MergeReport
  <2>3. (e.row.on \/ r.on) = r.on /\ ~(~e.row.on /\ r.on)
    BY <1>3, <1>4, <2>1
  <2>4. \/ m = Upsert(e, [r EXCEPT !.by = Max({r.by, e.row.by})])
        \/ m = Upsert(e, [r EXCEPT !.on = r.on])
        \/ m = e
    BY <2>2, <2>3, Zenon DEF Tied, Flagged
  <2>5. [r EXCEPT !.by = Max({r.by, e.row.by})] \in EntryRows
    <3>1. r.by \in Boxes \cup {0} /\ e.row.by \in Boxes \cup {0} /\ Boxes \cup {0} \subseteq Nat
      BY <1>4 DEF EntryRows, Boxes
    <3>2. Max({r.by, e.row.by}) \in Boxes \cup {0}
      BY <3>1, MaxOfTwo
    <3> QED
      BY <3>2 DEF EntryRows
  <2>6. /\ [r EXCEPT !.by = Max({r.by, e.row.by})].at = r.at
        /\ [r EXCEPT !.by = Max({r.by, e.row.by})].on = r.on
    BY DEF EntryRows
  <2>7. m.row.at = old.row.at /\ m.row.on = old.row.on /\ m.gen = e.gen /\ m.obs = e.obs
    <3>1. CASE m = Upsert(e, [r EXCEPT !.by = Max({r.by, e.row.by})])
      BY <1>5, <1>9, <2>1, <2>5, <2>6, <3>1
    <3>2. CASE m = Upsert(e, [r EXCEPT !.on = r.on])
      BY <1>4, <1>5, <1>6, <1>9, <2>1, <3>2
    <3>3. CASE m = e
      BY <1>3, <3>3
    <3> QED
      BY <2>4, <3>1, <3>2, <3>3
  <2>8. CASE r.on
    <3>1. e.gen = old.gen /\ e.obs = old.obs
      BY <1>3, <1>4, <1>7, <1>9, <2>1, <2>8
    <3> QED
      BY <1>2, <1>4, <1>7, <1>9, <2>1, <2>7, <3>1 DEF EntryOK
  <2>9. CASE ~r.on
    <3>1. e.gen = old.gen /\ \A p \in Boxes : e.obs[p].at <= old.row.at
      BY <1>3, <1>4, <1>7, <1>9, <2>9
    <3> QED
      BY <1>2, <1>4, <1>7, <1>9, <2>1, <2>7, <2>9, <3>1 DEF EntryOK
  <2> QED
    BY <1>4, <2>8, <2>9
<1>10. CASE r.at < old.row.at
  <2>0. ~(r.at > e.row.at) /\ r.at # e.row.at
    BY <1>3, <1>4, <1>10
  <2>1. CASE r.on
    <3>1. m = e
      BY <1>1, <1>2, <2>0, <2>1, Zenon DEF MergeReport
    <3>2. e.gen.at <= old.row.at /\ (old.row.on => e.gen = old.gen) /\ e.obs = old.obs
      BY <1>3, <1>4, <1>7, <1>10, <2>1
    <3> QED
      BY <1>2, <1>3, <1>4, <1>7, <1>10, <3>1, <3>2 DEF EntryOK
  <2>2. CASE ~r.on
    <3>1. /\ \A p \in Boxes : e.obs[p].at <= old.row.at
          /\ old.row.on => \A p \in Boxes : e.obs[p].at < old.row.at
          /\ \A p \in Boxes : e.obs[p].at \in Nat
      BY <1>3, <1>4, <1>7, <1>10, <2>2
    <3>2. old.row.on => ~Quorum(e)
      <4> SUFFICES ASSUME old.row.on
                   PROVE  ~Quorum(e)
        OBVIOUS
      <4>1. \A p \in Boxes : ~(e.obs[p].at >= e.gen.at)
        BY <1>3, <1>4, <1>7, <2>2, <3>1
      <4>2. Origins(e) = {}
        BY <4>1 DEF Origins
      <4> QED
        BY <4>2, QuorumOfTwo
    <3>3. ~(e.row.on /\ Quorum(e))
      BY <1>3, <3>2, Zenon
    <3>4. m = e
      BY <1>1, <1>2, <2>0, <3>3, Zenon DEF MergeReport
    <3> QED
      BY <1>2, <1>3, <1>4, <1>7, <1>10, <2>2, <3>1, <3>4 DEF EntryOK
  <2> QED
    BY <1>4, <2>1, <2>2
<1> QED
  BY <1>4, <1>8, <1>9, <1>10
-----------------------------------------------------------------------------
(* Tables                                                                  *)

\* mergeDesired: last writer wins, so the later stamp stays if it is verified.
LEMMA MergeDesires ==
  ASSUME NEW e \in Entries, NEW r \in EntryRows, NEW o \in Boxes,
         r.again = 0, e.row.again = 0
  PROVE  /\ MergeDesired(e, r, o) \in Entries
         /\ MergeDesired(e, r, o).row.again = 0
         /\ MergeDesired(e, r, o).row.at \in {r.at, e.row.at}
         /\ o \in Verified =>
              MergeDesired(e, r, o).row.at = IF r.at > e.row.at THEN r.at ELSE e.row.at
<1>1. r.at \in Nat /\ e.row.at \in Nat
  BY DEF Entries, EntryRows
<1>2. /\ [e EXCEPT !.row = r] \in Entries /\ [e EXCEPT !.row = r].row = r
  BY DEF Entries
<1>3. CASE o \in Verified /\ (r.at > e.row.at \/ (r.at = e.row.at /\ r.by > e.row.by))
  <2>1. MergeDesired(e, r, o) = [e EXCEPT !.row = r]
    BY <1>3 DEF MergeDesired
  <2> QED
    BY <1>1, <1>2, <1>3, <2>1
<1>4. CASE ~(o \in Verified /\ (r.at > e.row.at \/ (r.at = e.row.at /\ r.by > e.row.by)))
  <2>1. MergeDesired(e, r, o) = e
    BY <1>4 DEF MergeDesired
  <2> QED
    BY <1>1, <1>4, <2>1
<1> QED
  BY <1>3, <1>4

\* The keys of a table are those of desires and those of reports.
LEMMA KeyKinds ==
  /\ \A a \in Apps : <<Fleet, a>> \in Keys /\ <<Fleet, a>>[1] = Fleet
  /\ \A o \in Boxes, a \in Apps : /\ <<o, a>> \in Keys /\ <<o, a>>[1] # Fleet
                                  /\ \A x \in Apps : <<o, a>> # <<Fleet, x>>
  /\ \A k \in Keys : k[1] = Fleet => \E a \in Apps : k = <<Fleet, a>>
  /\ \A k \in Keys : k[1] # Fleet => \E o \in Boxes, a \in Apps : k = <<o, a>>
<1>1. \A o \in Boxes : o # Fleet
  BY FleetConstants DEF Boxes, Fleet
<1> QED
  BY <1>1 DEF Keys

\* The rows of a table, one by one.
LEMMA RowsOf ==
  ASSUME FleetTypes, NEW b \in Boxes, NEW k \in Keys
  PROVE  /\ table[b][k] \in Entries /\ table[b][k].row \in EntryRows
         /\ table[b][k].row.at \in Nat /\ table[b][k].row.again \in Nat
         /\ table[b][k].row.on \in BOOLEAN
         /\ table[b][k].row.at <= clock + Top
         /\ k[1] = Fleet => table[b][k].row.again = 0
<1>1. table[b][k] \in Entries /\ table[b][k].row.at <= clock + Top
  BY DEF FleetTypes, Rowed
<1>2. k[1] = Fleet => table[b][k].row.again = 0
  BY KeyKinds DEF FleetTypes, Rowed
<1> QED
  BY <1>1, <1>2 DEF Entries, EntryRows

\* ApplyChangeset leaves rows, counts that have not fallen, and stamps of one side or
\* the other.
LEMMA Applies ==
  ASSUME FleetTypes, NEW b \in Boxes, NEW o \in Boxes, NEW S \in SUBSET Keys,
         NEW T, T = Applied(table[b], o, table[o], S)
  PROVE  /\ T \in [Keys -> Entries]
         /\ \A k \in Keys :
              /\ T[k].row.again >= table[b][k].row.again
              /\ (T[k].row.at = table[b][k].row.at \/ T[k].row.at = table[o][k].row.at)
              /\ k[1] = Fleet => T[k].row.again = 0
<1>1. ASSUME NEW k \in Keys
      PROVE  /\ T[k] \in Entries
             /\ T[k].row.again >= table[b][k].row.again
             /\ (T[k].row.at = table[b][k].row.at \/ T[k].row.at = table[o][k].row.at)
             /\ k[1] = Fleet => T[k].row.again = 0
  <2>1. PICK e \in Entries : e = table[b][k]
    BY RowsOf
  <2>2. PICK r \in EntryRows : r = table[o][k].row
    BY RowsOf
  <2>3. /\ e.row.again \in Nat
        /\ k[1] = Fleet => e.row.again = 0 /\ r.again = 0
    BY <2>1, <2>2, RowsOf
  <2>4. PICK m : m = T[k]
    OBVIOUS
  <2>5. CASE k \notin S
    <3>1. m = e
      BY <2>1, <2>4, <2>5 DEF Applied
    <3> QED
      BY <2>1, <2>3, <2>4, <3>1
  <2>6. CASE k \in S /\ k[1] = Fleet
    <3>1. m = MergeDesired(e, r, o)
      BY <2>1, <2>2, <2>4, <2>6 DEF Applied, MergeEntry
    <3>2. m \in Entries /\ m.row.again = 0 /\ m.row.at \in {r.at, e.row.at}
      BY <2>3, <2>6, <3>1, MergeDesires
    <3> QED
      BY <2>1, <2>2, <2>3, <2>4, <2>6, <3>2
  <2>7. CASE k \in S /\ k[1] # Fleet
    <3>1. m = MergeReport(e, r, o)
      BY <2>1, <2>2, <2>4, <2>7 DEF Applied, MergeEntry
    <3>2. /\ m \in Entries /\ m.row.again >= e.row.again
          /\ m.row.at = IF r.at > e.row.at THEN r.at ELSE e.row.at
      BY <3>1, MergeReports
    <3>3. m.row.at \in {r.at, e.row.at}
      BY <3>2
    <3> QED
      BY <2>1, <2>2, <2>4, <2>7, <3>2, <3>3
  <2> QED
    BY <2>5, <2>6, <2>7
<1>2. T = [k \in Keys |-> T[k]]
  BY DEF Applied
<1>3. T \in [Keys -> Entries]
  BY <1>1, <1>2
<1>4. \A k \in Keys : /\ T[k].row.again >= table[b][k].row.again
                      /\ (T[k].row.at = table[b][k].row.at \/ T[k].row.at = table[o][k].row.at)
                      /\ k[1] = Fleet => T[k].row.again = 0
  BY <1>1, Zenon
<1> QED
  BY <1>3, <1>4, Zenon

\* localMutate: a report with the time of the box, after which the entry stands at it.
LEMMA Reports ==
  ASSUME FleetTypes, NEW b \in Boxes, NEW e \in Entries, NEW on \in BOOLEAN,
         NEW st \in States, NEW n \in Nat
  PROVE  /\ Reported(e, b, on, st, n) \in Entries
         /\ Reported(e, b, on, st, n).row.again >= e.row.again
         /\ Reported(e, b, on, st, n).row.at = clock + 1 + Ahead[b]
         /\ Reported(e, b, on, st, n).row.on = on
         /\ EntryOK(e) /\ e.row.at < clock + 1 + Ahead[b] => EntryOK(Reported(e, b, on, st, n))
<1>1. PICK t \in Nat : t = clock + 1 + Ahead[b]
  BY FleetConstants DEF FleetTypes
<1>2. Now(b) = t
  BY <1>1 DEF Now
<1>3. PICK q \in EntryRows : q = Row(on, b, t, st, n) /\ q.at = t /\ q.on = on
  <2>1. /\ Row(on, b, t, st, n) \in EntryRows
        /\ Row(on, b, t, st, n).at = t /\ Row(on, b, t, st, n).on = on
    BY <1>1 DEF Row, EntryRows
  <2> QED
    BY <2>1
<1>4. PICK u : u = Upsert(e, q)
  OBVIOUS
<1>5. /\ u \in Entries /\ u.row.again >= e.row.again
      /\ u.row.at = t /\ u.row.on = on /\ u.gen = e.gen /\ u.obs = e.obs
  BY <1>3, <1>4, Upserts
<1>6. /\ e.gen.at \in Nat /\ e.gen.n \in Nat /\ e.row.at \in Nat
      /\ \A o \in Boxes : e.obs[o].at \in Nat
  BY DEF Entries, EntryRows
<1>7. CASE on
  <2>1. Reported(e, b, on, st, n) = BumpGeneration(u, t)
    BY <1>2, <1>3, <1>4, <1>7 DEF Reported
  <2>2. PICK g : g = BumpGeneration(u, t)
    OBVIOUS
  <2>3. /\ g \in Entries /\ g.row = u.row /\ g.obs = u.obs
        /\ t > u.gen.at \/ u.gen.n = 0 => g.gen.at = t /\ g.gen.n >= 1
    BY <1>1, <1>5, <2>2, Bumps
  <2>4. EntryOK(e) /\ e.row.at < t => EntryOK(g)
    BY <1>1, <1>5, <1>6, <2>3 DEF EntryOK
  <2> QED
    BY <1>1, <1>5, <2>1, <2>2, <2>3, <2>4
<1>8. CASE ~on
  <2>1. Reported(e, b, on, st, n) = u
    BY <1>2, <1>3, <1>4, <1>8 DEF Reported
  <2>2. EntryOK(e) /\ e.row.at < t => EntryOK(u)
    BY <1>1, <1>5, <1>6, <1>8 DEF EntryOK
  <2> QED
    BY <1>1, <1>5, <2>1, <2>2
<1> QED
  BY <1>7, <1>8

\* desireMutate's stamp is not before the box's clock, nor past the fastest.
LEMMA Stamps ==
  ASSUME FleetTypes, NEW b \in Boxes
  PROVE  /\ DesireStamp(b) \in Nat
         /\ DesireStamp(b) >= clock + 1 + Ahead[b] /\ DesireStamp(b) <= clock + 1 + Top
<1> DEFINE S == {Now(b)} \cup {table[b][<<Fleet, a>>].row.at + 1 : a \in Apps}
<1>1. PICK n \in Nat : n = clock + 1 + Top
  BY TopIsTop DEF FleetTypes
<1>2. Ahead[b] \in Nat /\ Ahead[b] <= Top /\ clock \in Nat /\ Top \in Nat
  BY TopIsTop, FleetConstants DEF FleetTypes
<1>3. Now(b) = clock + 1 + Ahead[b] /\ Now(b) \in 0..n
  BY <1>1, <1>2 DEF Now
<1>4. \A a \in Apps : table[b][<<Fleet, a>>].row.at + 1 \in 0..n
  <2> TAKE a \in Apps
  <2>1. table[b][<<Fleet, a>>].row.at \in Nat /\ table[b][<<Fleet, a>>].row.at <= clock + Top
    BY KeyKinds, RowsOf
  <2> QED
    BY <1>1, <1>2, <2>1
<1>5. S \in SUBSET (0..n) /\ S # {} /\ Now(b) \in S
  BY <1>3, <1>4
<1>6. Max(S) \in S /\ \A y \in S : y <= Max(S)
  BY <1>5, MaxBounded
<1>7. DesireStamp(b) = Max(S)
  BY DEF DesireStamp
<1> HIDE DEF S
<1>8. DesireStamp(b) \in 0..n /\ Now(b) <= DesireStamp(b)
  BY <1>5, <1>6, <1>7
<1> QED
  BY <1>1, <1>3, <1>8

\* maxSeen is not before what was seen, nor past the fastest clock.
LEMMA Latests ==
  ASSUME FleetTypes, NEW b \in Boxes, NEW S \in SUBSET Keys, NEW seen \in Nat,
         seen <= clock + Top
  PROVE  Latest(table[b], S, seen) \in Nat /\ Latest(table[b], S, seen) <= clock + Top
<1> DEFINE R == {seen} \cup {table[b][k].row.at : k \in S}
<1>1. PICK n \in Nat : n = clock + Top
  BY TopIsTop DEF FleetTypes
<1>2. \A k \in S : table[b][k].row.at \in 0..n
  BY <1>1, RowsOf
<1>3. R \in SUBSET (0..n) /\ R # {}
  BY <1>1, <1>2
<1>4. Max(R) \in R
  BY <1>3, MaxBounded
<1>5. Latest(table[b], S, seen) = Max(R)
  BY DEF Latest
<1> HIDE DEF R
<1>6. Latest(table[b], S, seen) \in 0..n
  BY <1>3, <1>4, <1>5
<1> QED
  BY <1>1, <1>6
-----------------------------------------------------------------------------
(* What a step does to the tables                                          *)

\* The table of box b after it reported on app a, and perhaps wrote a desire.
Written(b, a, on, st, n, desired) ==
  [k \in Keys |->
     IF k = <<b, a>> THEN Reported(table[b][k], b, on, st, n)
     ELSE IF k = <<Fleet, a>> /\ desired THEN [table[b][k] EXCEPT !.row = Desire(b, a, on)]
     ELSE table[b][k]]

IdleStep == table' = table /\ clock' = clock
MergeStep ==
  \E b, o \in Boxes : \E S \in SUBSET Keys :
    /\ \A k \in S : table[o][k].row.at > 0
    /\ table' = [table EXCEPT ![b] = Applied(table[b], o, table[o], S)]
    /\ clock' = clock
WriteStep ==
  \E b \in Boxes, a \in Apps, on \in BOOLEAN, st \in States, n \in Nat, desired \in BOOLEAN :
    /\ table' = [table EXCEPT ![b] = Written(b, a, on, st, n, desired)]
    /\ clock' = clock + 1
WipeStep ==
  \E b \in Boxes : /\ table' = [table EXCEPT ![b] = [k \in Keys |-> NoEntry]]
                   /\ clock' = clock
TableStep == IdleStep \/ MergeStep \/ WriteStep \/ WipeStep

\* The step that CountGrows is about.
Grows ==
  \A b \in Boxes, k \in Keys :
    table'[b][k].row.at > 0 => table'[b][k].row.again >= table[b][k].row.again

\* The table of one box changes.
LEMMA OneTable ==
  ASSUME FleetTypes, NEW b \in Boxes, NEW T \in [Keys -> Entries],
         table' = [table EXCEPT ![b] = T], clock' \in Nat, clock' >= clock,
         \A k \in Keys : /\ T[k].row.at <= clock' + Top
                         /\ T[k].row.at > 0 => T[k].row.again >= table[b][k].row.again
                         /\ k[1] = Fleet => T[k].row.again = 0
  PROVE  Rowed(table, clock)' /\ Grows
<1>1. table' \in [Boxes -> [Keys -> Entries]] /\ table'[b] = T
  BY DEF FleetTypes, Rowed
<1>2. \A c \in Boxes \ {b} : table'[c] = table[c]
  BY DEF FleetTypes, Rowed
<1>3. Grows
  <2> SUFFICES ASSUME NEW c \in Boxes, NEW k \in Keys, table'[c][k].row.at > 0
               PROVE  table'[c][k].row.again >= table[c][k].row.again
    BY DEF Grows
  <2>1. CASE c = b
    BY <1>1, <2>1
  <2>2. CASE c # b
    <3>1. table'[c][k].row.again = table[c][k].row.again /\ table[c][k].row.again \in Nat
      BY <1>2, <2>2, RowsOf
    <3> QED
      BY <3>1
  <2> QED
    BY <2>1, <2>2
<1>4. \A c \in Boxes, k \in Keys : table'[c][k].row.at <= clock' + Top
  <2> TAKE c \in Boxes, k \in Keys
  <2>1. CASE c = b
    BY <1>1, <2>1
  <2>2. CASE c # b
    <3>1. table[c][k].row.at \in Nat /\ table[c][k].row.at <= clock + Top
      BY RowsOf
    <3>2. clock \in Nat /\ Top \in Nat
      BY TopIsTop DEF FleetTypes
    <3> QED
      BY <1>2, <2>2, <3>1, <3>2
  <2> QED
    BY <2>1, <2>2
<1>5. \A c \in Boxes, a \in Apps : table'[c][<<Fleet, a>>].row.again = 0
  <2> TAKE c \in Boxes, a \in Apps
  <2>1. <<Fleet, a>> \in Keys /\ <<Fleet, a>>[1] = Fleet
    BY KeyKinds
  <2>2. CASE c = b
    BY <1>1, <2>1, <2>2
  <2>3. CASE c # b
    BY <1>2, <2>1, <2>3, RowsOf
  <2> QED
    BY <2>2, <2>3
<1> QED
  BY <1>1, <1>3, <1>4, <1>5 DEF Rowed

\* An empty entry.
LEMMA NoEntryIsOne ==
  /\ NoEntry \in Entries /\ NoEntry.row = NoRow /\ NoRow.at = 0 /\ NoRow.again = 0
  /\ NoRow.on = FALSE /\ EntryOK(NoEntry)
<1>1. NoRow \in EntryRows /\ NoGen \in [n : Nat, at : Nat]
      /\ NoObs \in [Boxes -> [at : Nat, epoch : Nat \cup {-1}]]
  BY DEF NoRow, EntryRows, States, NoGen, NoObs
<1>2. NoEntry.row = NoRow /\ NoEntry.gen = NoGen /\ NoEntry.obs = NoObs
  BY DEF NoEntry
<1>3. NoEntry \in Entries
  BY <1>1 DEF NoEntry, Entries
<1>4. NoRow.at = 0 /\ NoRow.again = 0 /\ NoRow.on = FALSE /\ NoGen.at = 0
      /\ \A o \in Boxes : NoObs[o].at = 0
  BY DEF NoRow, NoGen, NoObs
<1> QED
  BY <1>2, <1>3, <1>4 DEF EntryOK

\* What a box writes itself, row by row.
LEMMA Writes ==
  ASSUME FleetTypes, NEW b \in Boxes, NEW a \in Apps, NEW on \in BOOLEAN, NEW st \in States,
         NEW n \in Nat, NEW desired \in BOOLEAN, NEW T, T = Written(b, a, on, st, n, desired)
  PROVE  /\ T \in [Keys -> Entries]
         /\ T[<<b, a>>] = Reported(table[b][<<b, a>>], b, on, st, n)
         /\ \A x \in Apps : T[<<Fleet, x>>].row =
              IF x = a /\ desired THEN Desire(b, a, on) ELSE table[b][<<Fleet, x>>].row
         /\ \A k \in Keys \ {<<b, a>>} : k[1] # Fleet => T[k] = table[b][k]
         /\ Desire(b, a, on).again = 0 /\ Desire(b, a, on).at = DesireStamp(b)
<1>1. /\ <<b, a>> \in Keys /\ <<b, a>>[1] # Fleet
      /\ \A x \in Apps : /\ <<Fleet, x>> \in Keys /\ <<Fleet, x>>[1] = Fleet
                         /\ <<b, a>> # <<Fleet, x>>
  BY KeyKinds
<1>2. PICK d : d = Desire(b, a, on)
  OBVIOUS
<1>3. d \in EntryRows /\ d.again = 0 /\ d.at = DesireStamp(b)
  <2>1. DesireStamp(b) \in Nat
    BY Stamps
  <2> QED
    BY <1>2, <2>1 DEF Desire, Row, EntryRows, States
<1>4. \A k \in Keys : table[b][k] \in Entries
  BY RowsOf
<1>5. \A k \in Keys : /\ [table[b][k] EXCEPT !.row = d] \in Entries
                      /\ [table[b][k] EXCEPT !.row = d].row = d
  BY <1>3, <1>4 DEF Entries
<1>6. PICK q : q = Reported(table[b][<<b, a>>], b, on, st, n)
  OBVIOUS
<1>7. q \in Entries
  BY <1>1, <1>4, <1>6, Reports
<1>8. T = [k \in Keys |-> IF k = <<b, a>> THEN q
                          ELSE IF k = <<Fleet, a>> /\ desired THEN [table[b][k] EXCEPT !.row = d]
                          ELSE table[b][k]]
  BY <1>2, <1>6 DEF Written
<1>9. T \in [Keys -> Entries]
  BY <1>4, <1>5, <1>7, <1>8
<1>10. T[<<b, a>>] = q
  BY <1>1, <1>8
<1>11. \A x \in Apps : T[<<Fleet, x>>].row =
         IF x = a /\ desired THEN d ELSE table[b][<<Fleet, x>>].row
  BY <1>1, <1>5, <1>8
<1>12. \A k \in Keys \ {<<b, a>>} : k[1] # Fleet => T[k] = table[b][k]
  BY <1>1, <1>8
<1> QED
  BY <1>2, <1>3, <1>6, <1>9, <1>10, <1>11, <1>12, Zenon

\* Every step leaves rows, and counts that have not fallen.
LEMMA StepRows ==
  ASSUME FleetTypes, TableStep
  PROVE  Rowed(table, clock)' /\ Grows /\ clock' \in Nat /\ clock' >= clock
<1>1. clock \in Nat /\ Top \in Nat
  BY TopIsTop DEF FleetTypes
<1>2. CASE IdleStep
  <2>1. Grows
    BY <1>2, RowsOf DEF IdleStep, Grows
  <2> QED
    BY <1>1, <1>2, <2>1 DEF IdleStep, FleetTypes, Rowed
<1>3. CASE MergeStep
  <2>1. PICK b \in Boxes, o \in Boxes, S \in SUBSET Keys :
          table' = [table EXCEPT ![b] = Applied(table[b], o, table[o], S)] /\ clock' = clock
    BY <1>3 DEF MergeStep
  <2>2. PICK T : T = Applied(table[b], o, table[o], S)
    OBVIOUS
  <2>3. /\ T \in [Keys -> Entries]
        /\ \A k \in Keys : /\ T[k].row.again >= table[b][k].row.again
                           /\ (T[k].row.at = table[b][k].row.at \/ T[k].row.at = table[o][k].row.at)
                           /\ k[1] = Fleet => T[k].row.again = 0
    <3>1. T \in [Keys -> Entries]
      BY <2>2, Applies
    <3>2. ASSUME NEW k \in Keys
          PROVE  /\ T[k].row.again >= table[b][k].row.again
                 /\ (T[k].row.at = table[b][k].row.at \/ T[k].row.at = table[o][k].row.at)
                 /\ k[1] = Fleet => T[k].row.again = 0
      BY <2>2, Applies
    <3> QED
      BY <3>1, <3>2, Zenon
  <2>4. clock' \in Nat /\ clock' >= clock /\ table' = [table EXCEPT ![b] = T]
    BY <1>1, <2>1, <2>2
  <2>5. \A k \in Keys : /\ T[k].row.at <= clock' + Top
                        /\ T[k].row.at > 0 => T[k].row.again >= table[b][k].row.again
                        /\ k[1] = Fleet => T[k].row.again = 0
    BY <2>1, <2>3, RowsOf
  <2> QED
    BY <2>3, <2>4, <2>5, OneTable, Zenon
<1>4. CASE WriteStep
  <2>1. PICK b \in Boxes, a \in Apps, on \in BOOLEAN, st \in States, n \in Nat,
             desired \in BOOLEAN :
          /\ table' = [table EXCEPT ![b] = Written(b, a, on, st, n, desired)]
          /\ clock' = clock + 1
    BY <1>4 DEF WriteStep
  <2>2. PICK T : T = Written(b, a, on, st, n, desired)
    OBVIOUS
  <2>3. /\ T \in [Keys -> Entries]
        /\ T[<<b, a>>] = Reported(table[b][<<b, a>>], b, on, st, n)
        /\ \A x \in Apps : T[<<Fleet, x>>].row =
             IF x = a /\ desired THEN Desire(b, a, on) ELSE table[b][<<Fleet, x>>].row
        /\ \A k \in Keys \ {<<b, a>>} : k[1] # Fleet => T[k] = table[b][k]
        /\ Desire(b, a, on).again = 0 /\ Desire(b, a, on).at = DesireStamp(b)
    BY <2>2, Writes
  <2>4. \A k \in Keys : /\ T[k].row.at <= clock + 1 + Top
                        /\ T[k].row.again >= table[b][k].row.again
                        /\ k[1] = Fleet => T[k].row.again = 0
    <3> TAKE k \in Keys
    <3>1. /\ table[b][k] \in Entries /\ table[b][k].row.at \in Nat
          /\ table[b][k].row.again \in Nat /\ table[b][k].row.at <= clock + Top
          /\ k[1] = Fleet => table[b][k].row.again = 0
      BY RowsOf
    <3>2. CASE k = <<b, a>>
      <4>0. PICK e \in Entries : e = table[b][k]
        BY <3>1
      <4>1. T[k] = Reported(e, b, on, st, n)
        BY <2>3, <3>2, <4>0
      <4>2. /\ T[k].row.at = clock + 1 + Ahead[b]
            /\ T[k].row.again >= table[b][k].row.again
        BY <4>0, <4>1, Reports
      <4>3. k[1] # Fleet
        BY <3>2, KeyKinds
      <4>4. Ahead[b] \in Nat /\ Ahead[b] <= Top
        BY TopIsTop, FleetConstants
      <4> QED
        BY <1>1, <4>2, <4>3, <4>4
    <3>3. CASE k[1] = Fleet
      <4>1. PICK x \in Apps : k = <<Fleet, x>>
        BY <3>3, KeyKinds
      <4>2. CASE x = a /\ desired
        <5>1. T[k].row.at = DesireStamp(b) /\ T[k].row.again = 0
          BY <2>3, <4>1, <4>2
        <5> QED
          BY <1>1, <3>1, <3>3, <5>1, Stamps
      <4>3. CASE ~(x = a /\ desired)
        <5>1. T[k].row = table[b][k].row
          BY <2>3, <4>1, <4>3
        <5> QED
          BY <1>1, <3>1, <3>3, <5>1
      <4> QED
        BY <4>2, <4>3
    <3>4. CASE k # <<b, a>> /\ k[1] # Fleet
      <4>1. T[k] = table[b][k]
        BY <2>3, <3>4
      <4> QED
        BY <1>1, <3>1, <3>4, <4>1
    <3> QED
      BY <3>2, <3>3, <3>4
  <2>5. clock' \in Nat /\ clock' >= clock /\ table' = [table EXCEPT ![b] = T]
    BY <1>1, <2>1, <2>2
  <2>6. \A k \in Keys : /\ T[k].row.at <= clock' + Top
                        /\ T[k].row.at > 0 => T[k].row.again >= table[b][k].row.again
                        /\ k[1] = Fleet => T[k].row.again = 0
    BY <2>1, <2>4
  <2> QED
    BY <2>3, <2>5, <2>6, OneTable, Zenon
<1>5. CASE WipeStep
  <2>1. PICK b \in Boxes : /\ table' = [table EXCEPT ![b] = [k \in Keys |-> NoEntry]]
                           /\ clock' = clock
    BY <1>5 DEF WipeStep
  <2>2. PICK T : T = [k \in Keys |-> NoEntry]
    OBVIOUS
  <2>3. /\ T \in [Keys -> Entries]
        /\ \A k \in Keys : T[k].row.at = 0 /\ T[k].row.again = 0
    BY <2>2, NoEntryIsOne
  <2>4. clock' \in Nat /\ clock' >= clock /\ table' = [table EXCEPT ![b] = T]
    BY <1>1, <2>1, <2>2
  <2>5. \A k \in Keys : /\ T[k].row.at <= clock' + Top
                        /\ T[k].row.at > 0 => T[k].row.again >= table[b][k].row.again
                        /\ k[1] = Fleet => T[k].row.again = 0
    BY <1>1, <2>1, <2>3
  <2> QED
    BY <2>3, <2>4, <2>5, OneTable, Zenon
<1> QED
  BY <1>2, <1>3, <1>4, <1>5 DEF TableStep
-----------------------------------------------------------------------------
(* The actions                                                             *)

\* No round is open with nobody, and one that is open is with a box.
LEMMA RoundPeers ==
  ASSUME FleetTypes, NEW b \in Boxes
  PROVE  /\ round[b].seen \in Nat
         /\ round[b] # NoRound => round[b].peer \in Boxes
         /\ round[b].peer \in Boxes => round[b] # NoRound
<1>1. round[b] \in Rounds
  BY DEF FleetTypes, Memory
<1>2. NoRound.peer = 0 /\ NoRound.seen = 0 /\ 0 \notin Boxes
  BY DEF NoRound, Boxes
<1> QED
  BY <1>1, <1>2 DEF Rounds

\* Time does not take anything from memory.
LEMMA MemoryStays ==
  ASSUME FleetTypes, clock' \in Nat, clock' >= clock, cursor' = cursor, round' = round,
         plan' \in [Boxes -> SUBSET Actions],
         click' \in [Boxes -> [app : Apps, want : BOOLEAN] \cup {NoClick}]
  PROVE  Memory'
<1>1. clock \in Nat /\ Top \in Nat
  BY TopIsTop DEF FleetTypes
<1>2. /\ cursor \in [Boxes -> [Boxes -> Nat]]
      /\ \A b, p \in Boxes : cursor[b][p] <= clock + Top
      /\ round \in [Boxes -> Rounds]
      /\ \A b \in Boxes : round[b].seen <= clock + Top
  BY DEF FleetTypes, Memory
<1>3. \A b \in Boxes : round[b].seen \in Nat
  BY RoundPeers
<1>4. \A b, p \in Boxes : cursor[b][p] <= clock' + Top
  BY <1>1, <1>2
<1>5. \A b \in Boxes : round[b].seen <= clock' + Top
  BY <1>1, <1>2, <1>3
<1> QED
  BY <1>2, <1>4, <1>5 DEF Memory

\* Click, in the store.
LEMMA ClickTypes ==
  ASSUME FleetTypes, NEW b \in Boxes, NEW a \in Apps, Click(b, a)
  PROVE  IdleStep /\ Memory'
<1>1. PICK want \in BOOLEAN : click' = [click EXCEPT ![b] = [app |-> a, want |-> want]]
  BY DEF Click
<1>2. click' \in [Boxes -> [app : Apps, want : BOOLEAN] \cup {NoClick}]
  BY <1>1 DEF FleetTypes, Memory
<1>3. /\ plan' \in [Boxes -> SUBSET Actions] /\ clock' \in Nat /\ clock' >= clock
      /\ cursor' = cursor /\ round' = round
  BY DEF Click, FleetTypes, Memory
<1> QED
  BY <1>2, <1>3, MemoryStays DEF Click, IdleStep

\* recordAppDesire and recordAppRealised.
LEMMA RecordTypes ==
  ASSUME FleetTypes, NEW b \in Boxes, Record(b)
  PROVE  WriteStep /\ Memory'
<1>1. PICK a \in Apps, want \in BOOLEAN : click[b].app = a /\ click[b].want = want
  BY DEF FleetTypes, Memory, Record
<1>2. <<b, a>> \in Keys /\ <<Fleet, a>> \in Keys /\ <<b, a>> # <<Fleet, a>>
  BY KeyKinds
<1>3. PICK st \in States : st = IF want THEN "realised" ELSE "removed"
  BY DEF States
<1>4. table' = [table EXCEPT
                  ![b][<<Fleet, a>>].row = Desire(b, a, want),
                  ![b][<<b, a>>] = Reported(table[b][<<b, a>>], b, want, st, 0)]
  BY <1>1, <1>2, <1>3 DEF Record, FleetTypes, Rowed
<1>5. PICK d : d = Desire(b, a, want)
  OBVIOUS
<1>6. PICK q : q = Reported(table[b][<<b, a>>], b, want, st, 0)
  OBVIOUS
<1>7. PICK T : T = Written(b, a, want, st, 0, TRUE)
  OBVIOUS
<1>8. T = [k \in Keys |-> IF k = <<b, a>> THEN q
                          ELSE IF k = <<Fleet, a>> THEN [table[b][k] EXCEPT !.row = d]
                          ELSE table[b][k]]
  BY <1>5, <1>6, <1>7 DEF Written
<1>9. table \in [Boxes -> [Keys -> Entries]]
  BY DEF FleetTypes, Rowed
<1>10. table' = [table EXCEPT ![b] = T]
  <2>1. table' = [table EXCEPT ![b] = [table[b] EXCEPT ![<<Fleet, a>>].row = d, ![<<b, a>>] = q]]
    BY <1>2, <1>4, <1>5, <1>6, <1>9
  <2>2. [table[b] EXCEPT ![<<Fleet, a>>].row = d, ![<<b, a>>] = q] = T
    BY <1>2, <1>8, <1>9
  <2> QED
    BY <2>1, <2>2
<1>11. clock' = clock + 1
  BY DEF Record, Ticks
<1>12. WriteStep
  BY <1>7, <1>10, <1>11 DEF WriteStep
<1>13. /\ click' \in [Boxes -> [app : Apps, want : BOOLEAN] \cup {NoClick}]
       /\ plan' \in [Boxes -> SUBSET Actions] /\ clock' \in Nat /\ clock' >= clock
       /\ cursor' = cursor /\ round' = round
  BY <1>11 DEF Record, FleetTypes, Memory
<1> QED
  BY <1>12, <1>13, MemoryStays

\* PlanReconcile.
LEMMA PlanTypes ==
  ASSUME FleetTypes, NEW b \in Boxes, PlanReconcile(b)
  PROVE  IdleStep /\ Memory'
<1>1. \A a \in Apps : table[b][<<b, a>>].row.again \in Nat
  BY KeyKinds, RowsOf
<1>2. PlanFrom(b) \in SUBSET Actions
  <2>1. \A x \in Installs(b) : x \in Actions
    <3> TAKE x \in Installs(b)
    <3>1. PICK a \in Apps :
            x = [app |-> a, install |-> TRUE,
                 again |-> IF Had(b, a) THEN table[b][<<b, a>>].row.again + 1 ELSE 0,
                 deferred |-> Had(b, a) /\ table[b][<<b, a>>].row.again > 0 /\ a \in soon[b]]
      BY DEF Installs
    <3>2. PICK n \in Nat : n = IF Had(b, a) THEN table[b][<<b, a>>].row.again + 1 ELSE 0
      BY <1>1
    <3>3. PICK d \in BOOLEAN :
            d = (Had(b, a) /\ table[b][<<b, a>>].row.again > 0 /\ a \in soon[b])
      OBVIOUS
    <3>4. x = [app |-> a, install |-> TRUE, again |-> n, deferred |-> d]
      BY <3>1, <3>2, <3>3
    <3> QED
      BY <3>4 DEF Actions
  <2>2. \A x \in Removals(b) : x \in Actions
    <3> TAKE x \in Removals(b)
    <3>1. PICK a \in Apps : x = [app |-> a, install |-> FALSE, again |-> 0, deferred |-> FALSE]
      BY DEF Removals
    <3> QED
      BY <3>1 DEF Actions
  <2> QED
    BY <2>1, <2>2 DEF PlanFrom
<1>3. plan' \in [Boxes -> SUBSET Actions]
  BY <1>2 DEF PlanReconcile, FleetTypes, Memory
<1>4. /\ click' \in [Boxes -> [app : Apps, want : BOOLEAN] \cup {NoClick}]
      /\ clock' \in Nat /\ clock' >= clock /\ cursor' = cursor /\ round' = round
  BY DEF PlanReconcile, FleetTypes, Memory
<1> QED
  BY <1>3, <1>4, MemoryStays DEF PlanReconcile, IdleStep

\* The actions of a plan are sorted by app: one is the first.
LEMMA FirstOfPlan ==
  ASSUME FleetTypes, NEW b \in Boxes, plan[b] # {}
  PROVE  First(b) \in plan[b] /\ First(b) \in Actions
<1>1. plan[b] \in SUBSET Actions
  BY DEF FleetTypes, Memory
<1> DEFINE A == {x.app : x \in plan[b]}
<1>2. A \in SUBSET Nat /\ A # {}
  <2>1. \A x \in plan[b] : x.app \in Nat
    BY <1>1, FleetConstants DEF Actions
  <2> QED
    BY <2>1
<1>3. PICK m \in A : \A y \in A : m <= y
  BY <1>2, LeastNat
<1>4. PICK x \in plan[b] : x.app = m
  OBVIOUS
<1>5. \A y \in plan[b] : x.app <= y.app
  BY <1>3, <1>4
<1>6. First(b) \in plan[b]
  BY <1>5 DEF First
<1> QED
  BY <1>1, <1>6

\* Reconcile, one action of the plan.
LEMMA PerformTypes ==
  ASSUME FleetTypes, NEW b \in Boxes, Perform(b)
  PROVE  (IdleStep \/ WriteStep) /\ Memory'
<1>1. plan[b] # {}
  BY DEF Perform
<1>2. PICK x : x = First(b)
  OBVIOUS
<1>3. x \in plan[b] /\ x \in Actions
  BY <1>1, <1>2, FirstOfPlan
<1>4. /\ x.app \in Apps /\ x.install \in BOOLEAN /\ x.again \in Nat
  BY <1>3 DEF Actions
<1>5. /\ plan' = [plan EXCEPT ![b] = @ \ {x}]
      /\ cursor' = cursor /\ round' = round /\ click' = click
  BY <1>2 DEF Perform
<1>6. IdleStep \/ WriteStep
  <2>1. CASE x.deferred
    BY <1>2, <2>1 DEF Perform, IdleStep
  <2>2. CASE ~x.deferred
    <3>1. PICK out \in Outcomes(b, x) :
            IF Unchanged(b, x.app, out)
              THEN UNCHANGED <<table, clock>>
              ELSE Ticks /\ table' = [table EXCEPT ![b][<<b, x.app>>] = ReportOf(b, x, out)]
      BY <1>2, <2>2 DEF Perform
    <3>2. CASE Unchanged(b, x.app, out)
      BY <3>1, <3>2 DEF IdleStep
    <3>3. CASE ~Unchanged(b, x.app, out)
      <4>1. clock' = clock + 1 /\ table' = [table EXCEPT ![b][<<b, x.app>>] = ReportOf(b, x, out)]
        BY <3>1, <3>3 DEF Ticks
      <4>2. out \in {"", "arch", "io"}
        BY <3>1 DEF Outcomes
      <4>3. PICK on \in BOOLEAN : on = (x.install /\ out = "")
        BY <1>4
      <4>4. PICK st \in States : st = IF out # "" THEN out ELSE IF x.install THEN "realised"
                                      ELSE "removed"
        BY <4>2 DEF States
      <4>5. PICK n \in Nat : n = IF out = "" THEN x.again ELSE 0
        BY <1>4
      <4>6. PICK a \in Apps : a = x.app
        BY <1>4
      <4>7. PICK q : q = Reported(table[b][<<b, a>>], b, on, st, n)
        OBVIOUS
      <4>8. ReportOf(b, x, out) = q
        BY <4>3, <4>4, <4>5, <4>6, <4>7 DEF ReportOf
      <4>9. PICK T : T = Written(b, a, on, st, n, FALSE)
        OBVIOUS
      <4>10. T = [k \in Keys |-> IF k = <<b, a>> THEN q ELSE table[b][k]]
        BY <4>7, <4>9 DEF Written
      <4>11. <<b, a>> \in Keys /\ table \in [Boxes -> [Keys -> Entries]]
        BY KeyKinds DEF FleetTypes, Rowed
      <4>12. table' = [table EXCEPT ![b] = T]
        <5>1. table' = [table EXCEPT ![b] = [table[b] EXCEPT ![<<b, a>>] = q]]
          BY <4>1, <4>6, <4>8, <4>11
        <5>2. [table[b] EXCEPT ![<<b, a>>] = q] = T
          BY <4>10, <4>11
        <5> QED
          BY <5>1, <5>2
      <4>13. WriteStep
        <5> USE DEF WriteStep
        <5> WITNESS b \in Boxes, a \in Apps, on \in BOOLEAN, st \in States, n \in Nat,
                    FALSE \in BOOLEAN
        <5> QED
          BY <4>1, <4>9, <4>12
      <4> QED
        BY <4>13
    <3> QED
      BY <3>2, <3>3
  <2> QED
    BY <2>1, <2>2
<1>7. clock' \in Nat /\ clock' >= clock
  BY <1>6 DEF IdleStep, WriteStep, FleetTypes
<1>8. /\ plan' \in [Boxes -> SUBSET Actions]
      /\ click' \in [Boxes -> [app : Apps, want : BOOLEAN] \cup {NoClick}]
  BY <1>5 DEF FleetTypes, Memory
<1> QED
  BY <1>5, <1>6, <1>7, <1>8, MemoryStays

\* The window since the last re-realisation is over.
LEMMA ElapseTypes ==
  ASSUME FleetTypes, NEW b \in Boxes, Elapse(b)
  PROVE  IdleStep /\ Memory'
<1>1. /\ plan' \in [Boxes -> SUBSET Actions] /\ clock' \in Nat /\ clock' >= clock
      /\ cursor' = cursor /\ round' = round
      /\ click' \in [Boxes -> [app : Apps, want : BOOLEAN] \cup {NoClick}]
  BY DEF Elapse, FleetTypes, Memory
<1> QED
  BY <1>1, MemoryStays DEF Elapse, IdleStep

\* The cursors are times.
LEMMA CursorsOf ==
  ASSUME FleetTypes, NEW b \in Boxes, NEW p \in Boxes
  PROVE  cursor[b][p] \in Nat /\ cursor[b][p] <= clock + Top
BY DEF FleetTypes, Memory

\* The pull of syncPeer: rows of the peer above the cursor are merged.
LEMMA PullTypes ==
  ASSUME FleetTypes, NEW b \in Boxes, NEW p \in Boxes, Pull(b, p)
  PROVE  /\ \A k \in Changed(table[p], cursor[b][p]) : table[p][k].row.at > 0
         /\ table' = [table EXCEPT ![b] = Applied(table[b], p, table[p],
                                                  Changed(table[p], cursor[b][p]))]
         /\ clock' = clock /\ Changed(table[p], cursor[b][p]) \in SUBSET Keys
         /\ cursor' = cursor /\ round'[b].peer = p /\ \A c \in Boxes \ {b} : round'[c] = round[c]
         /\ MergeStep /\ Memory'
<1>1. PICK S \in SUBSET Keys : S = Changed(table[p], cursor[b][p])
  BY DEF Changed
<1>2. cursor[b][p] \in Nat /\ cursor[b][p] <= clock + Top
  BY CursorsOf
<1>3. \A k \in S : table[p][k].row.at > 0
  BY <1>1, <1>2, RowsOf DEF Changed
<1>4. table' = [table EXCEPT ![b] = Applied(table[b], p, table[p], S)] /\ clock' = clock
  BY <1>1 DEF Pull
<1>5. MergeStep
  BY <1>3, <1>4 DEF MergeStep
<1>6. PICK n \in Nat : n = Latest(table[p], S, cursor[b][p]) /\ n <= clock + Top
  BY <1>2, Latests
<1>7. round' = [round EXCEPT ![b] = [peer |-> p, seen |-> n]]
  BY <1>1, <1>6 DEF Pull
<1>8. round \in [Boxes -> Rounds] /\ \A c \in Boxes : round[c].seen <= clock + Top
  BY DEF FleetTypes, Memory
<1>9. /\ round' \in [Boxes -> Rounds] /\ round'[b].peer = p
      /\ \A c \in Boxes \ {b} : round'[c] = round[c]
  BY <1>7, <1>8 DEF Rounds
<1>10. \A c \in Boxes : round'[c].seen <= clock + Top
  BY <1>6, <1>7, <1>8
<1>11. cursor' = cursor /\ plan' = plan /\ click' = click
  BY DEF Pull
<1>12. Memory'
  BY <1>4, <1>9, <1>10, <1>11 DEF FleetTypes, Memory
<1> QED
  BY <1>1, <1>3, <1>4, <1>5, <1>9, <1>11, <1>12

\* The push: rows of this box above the cursor are merged there, and the cursor moves.
LEMMA PushTypes ==
  ASSUME FleetTypes, NEW b \in Boxes, Push(b)
  PROVE  \E p \in Boxes :
         /\ p = round[b].peer
         /\ \A k \in Changed(table[b], cursor[b][p]) : table[b][k].row.at > 0
         /\ table' = [table EXCEPT ![p] = Applied(table[p], b, table[b],
                                                  Changed(table[b], cursor[b][p]))]
         /\ clock' = clock /\ Changed(table[b], cursor[b][p]) \in SUBSET Keys
         /\ \A c, d \in Boxes : c # b \/ d # p => cursor'[c][d] = cursor[c][d]
         /\ round'[b] = NoRound /\ \A c \in Boxes \ {b} : round'[c] = round[c]
         /\ MergeStep /\ Memory'
<1>1. PICK p \in Boxes : p = round[b].peer
  BY RoundPeers DEF Push
<1>2. PICK S \in SUBSET Keys : S = Changed(table[b], cursor[b][p])
  BY DEF Changed
<1>3. cursor[b][p] \in Nat /\ cursor[b][p] <= clock + Top
  BY CursorsOf
<1>4. \A k \in S : table[b][k].row.at > 0
  BY <1>2, <1>3, RowsOf DEF Changed
<1>5. table' = [table EXCEPT ![p] = Applied(table[p], b, table[b], S)] /\ clock' = clock
  BY <1>1, <1>2 DEF Push
<1>6. MergeStep
  BY <1>4, <1>5 DEF MergeStep
<1>7. round[b].seen \in Nat /\ round[b].seen <= clock + Top
  BY RoundPeers DEF FleetTypes, Memory
<1>8. PICK n \in Nat : n = Latest(table[b], S, round[b].seen) /\ n <= clock + Top
  BY <1>7, Latests
<1>9. PICK m \in Nat : m = Max({cursor[b][p], n}) /\ m <= clock + Top
  <2>1. Max({cursor[b][p], n}) = IF cursor[b][p] <= n THEN n ELSE cursor[b][p]
    BY <1>3, MaxOfTwo
  <2> QED
    BY <1>3, <1>8, <2>1
<1>10. cursor' = [cursor EXCEPT ![b][p] = m]
  BY <1>1, <1>2, <1>8, <1>9 DEF Push
<1>11. cursor \in [Boxes -> [Boxes -> Nat]] /\ \A c, d \in Boxes : cursor[c][d] <= clock + Top
  BY DEF FleetTypes, Memory
<1>12. cursor' \in [Boxes -> [Boxes -> Nat]]
  BY <1>10, <1>11
<1>13. \A c, d \in Boxes : cursor'[c][d] = IF c = b /\ d = p THEN m ELSE cursor[c][d]
  BY <1>10, <1>11
<1>14. \A c, d \in Boxes : cursor'[c][d] <= clock + Top
  BY <1>9, <1>11, <1>13
<1>15. round' = [round EXCEPT ![b] = NoRound] /\ plan' = plan /\ click' = click
  BY DEF Push
<1>16. round \in [Boxes -> Rounds] /\ \A c \in Boxes : round[c].seen <= clock + Top
  BY DEF FleetTypes, Memory
<1>17. clock + Top >= 0
  BY TopIsTop DEF FleetTypes
<1>18. /\ round' \in [Boxes -> Rounds] /\ round'[b] = NoRound
       /\ \A c \in Boxes \ {b} : round'[c] = round[c]
       /\ \A c \in Boxes : round'[c].seen <= clock + Top
  BY <1>15, <1>16, <1>17 DEF Rounds, NoRound
<1>19. Memory'
  BY <1>5, <1>12, <1>14, <1>15, <1>18 DEF FleetTypes, Memory
<1> WITNESS p \in Boxes
<1> QED
  BY <1>1, <1>2, <1>4, <1>5, <1>6, <1>13, <1>18, <1>19

\* The push fails.
LEMMA PushFailsTypes ==
  ASSUME FleetTypes, NEW b \in Boxes, PushFails(b)
  PROVE  /\ IdleStep /\ Memory' /\ cursor' = cursor
         /\ round'[b] = NoRound /\ \A c \in Boxes \ {b} : round'[c] = round[c]
<1>1. round' = [round EXCEPT ![b] = NoRound] /\ table' = table /\ cursor' = cursor
      /\ plan' = plan /\ click' = click /\ clock' = clock
  BY DEF PushFails
<1>2. round \in [Boxes -> Rounds] /\ \A c \in Boxes : round[c].seen <= clock + Top
  BY DEF FleetTypes, Memory
<1>3. clock + Top >= 0
  BY TopIsTop DEF FleetTypes
<1>4. /\ round' \in [Boxes -> Rounds] /\ round'[b] = NoRound
      /\ \A c \in Boxes \ {b} : round'[c] = round[c]
      /\ \A c \in Boxes : round'[c].seen <= clock + Top
  BY <1>1, <1>2, <1>3 DEF Rounds, NoRound
<1> QED
  BY <1>1, <1>4 DEF FleetTypes, Memory, IdleStep

\* A box comes up with nothing.
LEMMA WipeTypes ==
  ASSUME FleetTypes, NEW b \in Boxes, Wipe(b)
  PROVE  /\ WipeStep /\ Memory'
         /\ table' = [table EXCEPT ![b] = [k \in Keys |-> NoEntry]] /\ clock' = clock
         /\ \A p \in Boxes : cursor'[b][p] = 0
         /\ \A c \in Boxes \ {b} : cursor'[c] = cursor[c] /\ round'[c] = round[c]
         /\ round'[b] = NoRound
<1>1. /\ round' = [round EXCEPT ![b] = NoRound] /\ clock' = clock
      /\ table' = [table EXCEPT ![b] = [k \in Keys |-> NoEntry]]
      /\ cursor' = [cursor EXCEPT ![b] = [p \in Boxes |-> 0]]
      /\ plan' = [plan EXCEPT ![b] = {}] /\ click' = [click EXCEPT ![b] = NoClick]
  BY DEF Wipe
<1>2. /\ round \in [Boxes -> Rounds] /\ \A c \in Boxes : round[c].seen <= clock + Top
      /\ cursor \in [Boxes -> [Boxes -> Nat]]
      /\ \A c, d \in Boxes : cursor[c][d] <= clock + Top
      /\ plan \in [Boxes -> SUBSET Actions]
      /\ click \in [Boxes -> [app : Apps, want : BOOLEAN] \cup {NoClick}]
  BY DEF FleetTypes, Memory
<1>3. clock + Top >= 0
  BY TopIsTop DEF FleetTypes
<1>4. /\ round' \in [Boxes -> Rounds] /\ round'[b] = NoRound
      /\ \A c \in Boxes \ {b} : round'[c] = round[c]
      /\ \A c \in Boxes : round'[c].seen <= clock + Top
  BY <1>1, <1>2, <1>3 DEF Rounds, NoRound
<1>5. /\ cursor' \in [Boxes -> [Boxes -> Nat]] /\ \A p \in Boxes : cursor'[b][p] = 0
      /\ \A c \in Boxes \ {b} : cursor'[c] = cursor[c]
  BY <1>1, <1>2
<1>6. \A c, d \in Boxes : cursor'[c][d] <= clock + Top
  BY <1>2, <1>3, <1>5
<1>7. /\ plan' \in [Boxes -> SUBSET Actions]
      /\ click' \in [Boxes -> [app : Apps, want : BOOLEAN] \cup {NoClick}]
  BY <1>1, <1>2
<1>8. Memory'
  BY <1>1, <1>4, <1>5, <1>6, <1>7 DEF Memory
<1>9. WipeStep
  BY <1>1 DEF WipeStep
<1> QED
  BY <1>1, <1>4, <1>5, <1>8, <1>9

\* Every step is one of the four kinds.
LEMMA StepTypes ==
  ASSUME FleetTypes, [FleetNext]_fleetVars
  PROVE  TableStep /\ Memory'
<1>1. CASE UNCHANGED fleetVars
  BY <1>1 DEF fleetVars, TableStep, IdleStep, FleetTypes, Memory
<1>2. CASE FleetNext
  <2>1. PICK b \in Boxes :
          \/ \E a \in Apps : Click(b, a)
          \/ Record(b) \/ Reconcile(b) \/ Elapse(b)
          \/ \E p \in Boxes : Pull(b, p)
          \/ Push(b) \/ PushFails(b) \/ Wipe(b)
    BY <1>2 DEF FleetNext
  <2>2. CASE \E a \in Apps : Click(b, a)
    BY <2>2, ClickTypes DEF TableStep
  <2>3. CASE Record(b)
    BY <2>3, RecordTypes DEF TableStep
  <2>4. CASE PlanReconcile(b)
    BY <2>4, PlanTypes DEF TableStep
  <2>5. CASE Perform(b)
    BY <2>5, PerformTypes DEF TableStep
  <2>6. CASE Elapse(b)
    BY <2>6, ElapseTypes DEF TableStep
  <2>7. CASE \E p \in Boxes : Pull(b, p)
    BY <2>7, PullTypes DEF TableStep
  <2>8. CASE Push(b)
    BY <2>8, PushTypes DEF TableStep
  <2>9. CASE PushFails(b)
    BY <2>9, PushFailsTypes DEF TableStep
  <2>10. CASE Wipe(b)
    BY <2>10, WipeTypes DEF TableStep
  <2> QED
    BY <2>1, <2>2, <2>3, <2>4, <2>5, <2>6, <2>7, <2>8, <2>9, <2>10 DEF Reconcile
<1> QED
  BY <1>1, <1>2

\* A settled fleet has reports of time 2 and desires of time 1.
LEMMA SettledEntries ==
  ASSUME NEW k \in Keys
  PROVE  /\ Settled(k) \in Entries /\ Settled(k).row.at <= 2
         /\ k[1] = Fleet => Settled(k).row.again = 0
         /\ k[1] # Fleet => EntryOK(Settled(k))
<1>1. 1 \in Boxes /\ k[1] \in Boxes \cup {Fleet}
  BY FleetConstants DEF Boxes, Keys
<1>2. NoEntry \in Entries /\ NoEntry = [row |-> NoRow, gen |-> NoGen, obs |-> NoObs]
  BY NoEntryIsOne DEF NoEntry
<1>3. PICK s : s = Settled(k)
  OBVIOUS
<1>4. \A o \in Boxes : NoObs[o].at = 0
  BY DEF NoObs
<1>5. /\ NoObs \in [Boxes -> [at : Nat, epoch : Nat \cup {-1}]]
      /\ NoGen \in [n : Nat, at : Nat] /\ NoGen.at = 0
  BY DEF NoObs, NoGen
<1>6. CASE k[1] = Fleet
  <2>1. PICK q : q = Row(TRUE, 1, 1, "", 0)
    OBVIOUS
  <2>2. q \in EntryRows /\ q.at = 1 /\ q.again = 0
    BY <1>1, <2>1 DEF Row, EntryRows, States
  <2>3. s = [row |-> q, gen |-> NoGen, obs |-> NoObs]
    BY <1>2, <1>3, <1>6, <2>1 DEF Settled
  <2>4. s \in Entries /\ s.row = q
    BY <1>5, <2>2, <2>3 DEF Entries
  <2> QED
    BY <1>3, <1>6, <2>2, <2>4
<1>7. CASE k[1] \in Boxes /\ k[1] # Fleet /\ k[1] \in Runs[k[2]]
  <2>1. PICK q : q = Row(TRUE, k[1], 2, "realised", IF k[1] = 1 THEN 1 ELSE 0)
    OBVIOUS
  <2>2. q \in EntryRows /\ q.at = 2 /\ q.on = TRUE
    BY <1>7, <2>1 DEF Row, EntryRows, States
  <2>3. PICK g : g = [n |-> 1, at |-> 2]
    OBVIOUS
  <2>4. g \in [n : Nat, at : Nat] /\ g.n = 1 /\ g.at = 2
    BY <2>3
  <2>5. s = [row |-> q, gen |-> g, obs |-> NoObs]
    BY <1>2, <1>3, <1>7, <2>1, <2>3 DEF Settled
  <2>6. s \in Entries /\ s.row = q /\ s.gen = g /\ s.obs = NoObs
    BY <1>5, <2>2, <2>4, <2>5 DEF Entries
  <2>7. EntryOK(s)
    BY <1>4, <2>2, <2>4, <2>6 DEF EntryOK
  <2> QED
    BY <1>3, <1>7, <2>2, <2>6, <2>7
<1>8. CASE k[1] \in Boxes /\ k[1] # Fleet /\ k[1] \notin Runs[k[2]]
  <2>1. PICK q : q = Row(FALSE, k[1], 2, "arch", 0)
    OBVIOUS
  <2>2. q \in EntryRows /\ q.at = 2 /\ q.on = FALSE
    BY <1>8, <2>1 DEF Row, EntryRows, States
  <2>3. PICK v : v = [NoObs EXCEPT ![k[1]] = [at |-> 2, epoch |-> 0]]
    OBVIOUS
  <2>4. /\ v \in [Boxes -> [at : Nat, epoch : Nat \cup {-1}]]
        /\ \A o \in Boxes : v[o].at <= 2
    BY <1>4, <1>5, <1>8, <2>3
  <2>5. s = [row |-> q, gen |-> NoGen, obs |-> v]
    BY <1>2, <1>3, <1>8, <2>1, <2>3 DEF Settled
  <2>6. s \in Entries /\ s.row = q /\ s.gen = NoGen /\ s.obs = v
    BY <1>5, <2>2, <2>4, <2>5 DEF Entries
  <2>7. EntryOK(s)
    BY <1>5, <2>2, <2>4, <2>6 DEF EntryOK
  <2> QED
    BY <1>3, <1>8, <2>2, <2>6, <2>7
<1> QED
  BY <1>1, <1>6, <1>7, <1>8

\* A new fleet, or a settled one: the boxes have the same rows, none from the future.
LEMMA InitShape ==
  ASSUME FleetInit
  PROVE  \E t \in Nat : \E z \in [Keys -> Entries] :
           /\ table = [b \in Boxes |-> z] /\ clock = t
           /\ cursor = [b \in Boxes |-> [p \in Boxes |-> t]]
           /\ \A k \in Keys : /\ z[k].row.at <= t
                              /\ k[1] = Fleet => z[k].row.again = 0
                              /\ k[1] # Fleet => EntryOK(z[k])
<1>1. PICK t, z : \/ /\ t = 0 /\ z = [k \in Keys |-> NoEntry]
                     /\ table = [b \in Boxes |-> z]
                     /\ cursor = [b \in Boxes |-> [p \in Boxes |-> t]] /\ clock = t
                  \/ /\ t = 2 /\ z = [k \in Keys |-> Settled(k)]
                     /\ table = [b \in Boxes |-> z]
                     /\ cursor = [b \in Boxes |-> [p \in Boxes |-> t]] /\ clock = t
  BY DEF FleetInit
<1>2. /\ table = [b \in Boxes |-> z] /\ cursor = [b \in Boxes |-> [p \in Boxes |-> t]]
      /\ clock = t
  BY <1>1
<1>3. /\ z \in [Keys -> Entries]
      /\ \A k \in Keys : /\ z[k].row.at <= t
                         /\ k[1] = Fleet => z[k].row.again = 0
                         /\ k[1] # Fleet => EntryOK(z[k])
  <2>1. CASE t = 0 /\ z = [k \in Keys |-> NoEntry]
    BY <2>1, NoEntryIsOne
  <2>2. CASE t = 2 /\ z = [k \in Keys |-> Settled(k)]
    BY <2>2, SettledEntries
  <2> QED
    BY <1>1, <2>1, <2>2
<1>4. t \in Nat
  BY <1>1
<1> QED
  BY <1>2, <1>3, <1>4

\* It has the types.
LEMMA InitTypes ==
  ASSUME FleetInit
  PROVE  FleetTypes
<1>1. Top \in Nat
  BY TopIsTop
<1>2. round = [b \in Boxes |-> NoRound] /\ plan = [b \in Boxes |-> {}]
      /\ click = [b \in Boxes |-> NoClick]
  BY DEF FleetInit
<1>3. PICK t \in Nat, z \in [Keys -> Entries] :
           /\ table = [b \in Boxes |-> z] /\ clock = t
           /\ cursor = [b \in Boxes |-> [p \in Boxes |-> t]]
           /\ \A k \in Keys : /\ z[k].row.at <= t
                              /\ k[1] = Fleet => z[k].row.again = 0
                              /\ k[1] # Fleet => EntryOK(z[k])
  BY InitShape
<1>4. \A k \in Keys : z[k].row.at \in Nat
  BY DEF Entries, EntryRows
<1>5. Rowed(table, clock)
  <2>1. table \in [Boxes -> [Keys -> Entries]]
    BY <1>3
  <2>2. \A b \in Boxes : table[b] = z
    BY <1>3
  <2>3. \A k \in Keys : z[k].row.at <= clock + Top
    BY <1>1, <1>3, <1>4
  <2>4. \A a \in Apps : z[<<Fleet, a>>].row.again = 0
    BY <1>3, KeyKinds
  <2> QED
    BY <2>1, <2>2, <2>3, <2>4 DEF Rowed
<1>6. Memory
  BY <1>1, <1>2, <1>3 DEF Memory, Rounds, NoRound
<1> QED
  BY <1>3, <1>5, <1>6 DEF FleetTypes

(***************************************************************************)
(* The count of re-realisations in a box's database never falls while the  *)
(* database lives, for any fleet, whichever origins are verified, however  *)
(* far the clocks are apart (upsertEntry, bumpReRealiseCounter).           *)
(***************************************************************************)
THEOREM CountNeverFalls == FleetSpec => CountGrows
<1>1. FleetInit => FleetTypes
  BY InitTypes
<1>2. FleetTypes /\ [FleetNext]_fleetVars => FleetTypes' /\ Grows
  BY StepTypes, StepRows DEF FleetTypes
<1>3. CountGrows <=> [][Grows]_fleetVars
  BY DEF CountGrows, Grows
<1> QED
  BY <1>1, <1>2, <1>3, PTL DEF FleetSpec
-----------------------------------------------------------------------------
(* Reports, of two boxes                                                   *)

\* Every entry is in order and not from the future of its box; of what a box
\* reported nobody has anything newer, unless the box lost it, nor different.
ReportInv ==
  /\ \A b, o \in Boxes, a \in Apps :
       /\ EntryOK(table[b][<<o, a>>])
       /\ table[b][<<o, a>>].row.at <= clock + Ahead[o]
  /\ \A b, p \in Boxes, a \in Apps :
       /\ \/ table[b][<<b, a>>].row.at = 0
          \/ table[p][<<b, a>>].row.at <= table[b][<<b, a>>].row.at
       /\ table[b][<<b, a>>].row.at = table[p][<<b, a>>].row.at =>
            table[b][<<b, a>>].row.on = table[p][<<b, a>>].row.on

\* The step that OwnReportStands is about.
Stands ==
  \A b \in Boxes, a \in Apps :
    LET mine == table[b][<<b, a>>].row  new == table'[b][<<b, a>>].row IN
    mine.at > 0 /\ new.at = mine.at => new.on = mine.on

\* Of two boxes that merge, one is the box that reported.
LEMMA TwoBoxes ==
  ASSUME N <= 2, NEW b \in Boxes, NEW o \in Boxes, NEW x \in Boxes
  PROVE  b = o \/ x = b \/ x = o
BY FleetConstants DEF Boxes

\* The reports of a table, one by one.
LEMMA ReportsOf ==
  ASSUME FleetTypes, NEW b \in Boxes, NEW x \in Boxes, NEW a \in Apps
  PROVE  /\ <<x, a>> \in Keys /\ table[b][<<x, a>>] \in Entries
         /\ table[b][<<x, a>>].row \in EntryRows /\ table[b][<<x, a>>].row.at \in Nat
         /\ table[b][<<x, a>>].row.on \in BOOLEAN
BY KeyKinds, RowsOf

\* Among two boxes, copies of a report with one stamp say one thing.
LEMMA SameStampSameReport ==
  ASSUME N <= 2, FleetTypes, ReportInv,
         NEW b \in Boxes, NEW o \in Boxes, NEW x \in Boxes, NEW a \in Apps,
         table[b][<<x, a>>].row.at = table[o][<<x, a>>].row.at
  PROVE  table[b][<<x, a>>].row.on = table[o][<<x, a>>].row.on
<1>1. CASE b = o
  BY <1>1
<1>2. CASE x = b
  BY <1>2 DEF ReportInv
<1>3. CASE x = o
  BY <1>3 DEF ReportInv
<1> QED
  BY <1>1, <1>2, <1>3, TwoBoxes

\* An entry after a merge: of two reports the later.
Takes(m, e, r) ==
  /\ EntryOK(m)
  /\ \/ r.at > e.row.at /\ m.row.at = r.at /\ m.row.on = r.on
     \/ m.row.at = e.row.at /\ m.row.on = e.row.on

\* ApplyChangeset takes from a verified peer what is later, and nothing else.
LEMMA AppliedReports ==
  ASSUME N <= 2, Verified = Boxes, FleetTypes, ReportInv,
         NEW b \in Boxes, NEW o \in Boxes, NEW S \in SUBSET Keys,
         \A k \in S : table[o][k].row.at > 0,
         NEW T, T = Applied(table[b], o, table[o], S), NEW x \in Boxes, NEW a \in Apps
  PROVE  Takes(T[<<x, a>>], table[b][<<x, a>>], table[o][<<x, a>>].row)
<1>1. PICK e \in Entries : e = table[b][<<x, a>>]
  BY ReportsOf
<1>2. PICK r \in EntryRows : r = table[o][<<x, a>>].row
  BY ReportsOf
<1>3. /\ <<x, a>> \in Keys /\ <<x, a>>[1] # Fleet
      /\ r.at \in Nat /\ e.row.at \in Nat
  BY <1>1, <1>2, KeyKinds, ReportsOf
<1>4. EntryOK(e)
  BY <1>1 DEF ReportInv
<1>5. PICK m : m = T[<<x, a>>]
  OBVIOUS
<1>6. CASE <<x, a>> \notin S
  <2>1. m = e
    BY <1>1, <1>3, <1>5, <1>6 DEF Applied
  <2> QED
    BY <1>1, <1>4, <1>5, <2>1 DEF Takes
<1>7. CASE <<x, a>> \in S
  <2>1. m = MergeReport(e, r, o)
    BY <1>1, <1>2, <1>3, <1>5, <1>7 DEF Applied, MergeEntry
  <2>2. r.at > 0
    BY <1>2, <1>7
  <2>3. r.at = e.row.at => r.on = e.row.on
    BY <1>1, <1>2, SameStampSameReport
  <2>4. /\ EntryOK(m)
        /\ m.row.on = IF r.at > e.row.at THEN r.on ELSE e.row.on
    BY <1>4, <2>1, <2>2, <2>3, MergeOfTwo
  <2>5. m.row.at = IF r.at > e.row.at THEN r.at ELSE e.row.at
    BY <2>1, MergeReports
  <2>6. Takes(m, e, r)
    BY <2>4, <2>5 DEF Takes
  <2> QED
    BY <1>1, <1>2, <1>5, <2>6
<1> QED
  BY <1>6, <1>7

\* The tables of the other boxes stay.
LEMMA OtherTables ==
  ASSUME FleetTypes, NEW b \in Boxes, NEW T, table' = [table EXCEPT ![b] = T]
  PROVE  table'[b] = T /\ \A c \in Boxes \ {b} : table'[c] = table[c]
BY DEF FleetTypes, Rowed

\* Merges keep the reports.
LEMMA MergeReportInv ==
  ASSUME N <= 2, Verified = Boxes, FleetTypes, ReportInv, MergeStep
  PROVE  ReportInv' /\ Stands
<1>1. PICK b \in Boxes, o \in Boxes, S \in SUBSET Keys :
        /\ \A k \in S : table[o][k].row.at > 0
        /\ table' = [table EXCEPT ![b] = Applied(table[b], o, table[o], S)]
        /\ clock' = clock
  BY DEF MergeStep
<1>2. PICK T : T = Applied(table[b], o, table[o], S)
  OBVIOUS
<1>3. table'[b] = T /\ \A c \in Boxes \ {b} : table'[c] = table[c]
  BY <1>1, <1>2, OtherTables
<1>4. ASSUME NEW x \in Boxes, NEW a \in Apps
      PROVE  Takes(table'[b][<<x, a>>], table[b][<<x, a>>], table[o][<<x, a>>].row)
  <2>1. Takes(T[<<x, a>>], table[b][<<x, a>>], table[o][<<x, a>>].row)
    BY <1>1, <1>2, AppliedReports
  <2> QED
    BY <1>3, <2>1
<1>5. ASSUME NEW c \in Boxes, NEW x \in Boxes, NEW a \in Apps
      PROVE  /\ EntryOK(table'[c][<<x, a>>])
             /\ table'[c][<<x, a>>].row.at <= clock' + Ahead[x]
  <2>1. CASE c = b
    BY <1>1, <1>4, <2>1 DEF ReportInv, Takes
  <2>2. CASE c # b
    BY <1>1, <1>3, <2>2 DEF ReportInv
  <2> QED
    BY <2>1, <2>2
<1>6. ASSUME NEW c \in Boxes, NEW p \in Boxes, NEW a \in Apps
      PROVE  /\ \/ table'[c][<<c, a>>].row.at = 0
                \/ table'[p][<<c, a>>].row.at <= table'[c][<<c, a>>].row.at
             /\ table'[c][<<c, a>>].row.at = table'[p][<<c, a>>].row.at =>
                  table'[c][<<c, a>>].row.on = table'[p][<<c, a>>].row.on
  <2>1. /\ table[c][<<c, a>>].row.at \in Nat /\ table[p][<<c, a>>].row.at \in Nat
        /\ \/ table[c][<<c, a>>].row.at = 0
           \/ table[p][<<c, a>>].row.at <= table[c][<<c, a>>].row.at
        /\ table[c][<<c, a>>].row.at = table[p][<<c, a>>].row.at =>
             table[c][<<c, a>>].row.on = table[p][<<c, a>>].row.on
    BY ReportsOf DEF ReportInv
  <2>2. CASE c = p
    <3>1. table'[c][<<c, a>>].row.at \in Nat
      BY <1>3, <1>4, ReportsOf DEF Takes
    <3> QED
      BY <2>2, <3>1
  <2>3. CASE c # p /\ o = b
    <3>1. \A d \in Boxes : /\ table'[d][<<c, a>>].row.at = table[d][<<c, a>>].row.at
                           /\ table'[d][<<c, a>>].row.on = table[d][<<c, a>>].row.on
      BY <1>3, <1>4, <2>3, ReportsOf DEF Takes
    <3> QED
      BY <2>1, <3>1
  <2>4. CASE c # p /\ b = c /\ o = p
    <3>1. table'[p] = table[p]
      BY <1>3, <2>4
    <3>2. \/ /\ table[p][<<c, a>>].row.at > table[c][<<c, a>>].row.at
             /\ table'[c][<<c, a>>].row.at = table[p][<<c, a>>].row.at
             /\ table'[c][<<c, a>>].row.on = table[p][<<c, a>>].row.on
          \/ /\ table'[c][<<c, a>>].row.at = table[c][<<c, a>>].row.at
             /\ table'[c][<<c, a>>].row.on = table[c][<<c, a>>].row.on
      BY <1>4, <2>4 DEF Takes
    <3> QED
      BY <2>1, <3>1, <3>2
  <2>5. CASE c # p /\ b = p /\ o = c
    <3>1. table'[c] = table[c]
      BY <1>3, <2>5
    <3>2. \/ /\ table'[p][<<c, a>>].row.at = table[c][<<c, a>>].row.at
             /\ table'[p][<<c, a>>].row.on = table[c][<<c, a>>].row.on
          \/ /\ table'[p][<<c, a>>].row.at = table[p][<<c, a>>].row.at
             /\ table'[p][<<c, a>>].row.on = table[p][<<c, a>>].row.on
      BY <1>4, <2>5 DEF Takes
    <3> QED
      BY <2>1, <3>1, <3>2
  <2> QED
    BY <2>2, <2>3, <2>4, <2>5, TwoBoxes
<1>7. ReportInv'
  BY <1>5, <1>6 DEF ReportInv
<1>8. Stands
  <2> SUFFICES ASSUME NEW c \in Boxes, NEW a \in Apps,
                      table'[c][<<c, a>>].row.at = table[c][<<c, a>>].row.at
               PROVE  table'[c][<<c, a>>].row.on = table[c][<<c, a>>].row.on
    BY DEF Stands
  <2>1. CASE c = b
    BY <1>4, <2>1, ReportsOf DEF Takes
  <2>2. CASE c # b
    BY <1>3, <2>2
  <2> QED
    BY <2>1, <2>2
<1> QED
  BY <1>7, <1>8

\* What a box writes is later than all it and the others have of it.
LEMMA WriteReportInv ==
  ASSUME FleetTypes, ReportInv, WriteStep
  PROVE  ReportInv' /\ Stands
<1>1. PICK b \in Boxes, y \in Apps, on \in BOOLEAN, st \in States, n \in Nat,
           desired \in BOOLEAN :
        /\ table' = [table EXCEPT ![b] = Written(b, y, on, st, n, desired)]
        /\ clock' = clock + 1
  BY DEF WriteStep
<1>2. PICK T : T = Written(b, y, on, st, n, desired)
  OBVIOUS
<1>3. table'[b] = T /\ \A c \in Boxes \ {b} : table'[c] = table[c]
  BY <1>1, <1>2, OtherTables
<1>4. /\ T[<<b, y>>] = Reported(table[b][<<b, y>>], b, on, st, n)
      /\ \A k \in Keys \ {<<b, y>>} : k[1] # Fleet => T[k] = table[b][k]
  BY <1>2, Writes
<1>5. clock \in Nat /\ \A x \in Boxes : Ahead[x] \in Nat
  BY FleetConstants DEF FleetTypes
<1>6. /\ table'[b][<<b, y>>].row.at = clock + 1 + Ahead[b]
      /\ EntryOK(table'[b][<<b, y>>])
  <2>1. PICK e \in Entries : e = table[b][<<b, y>>]
    BY ReportsOf
  <2>2. EntryOK(e) /\ e.row.at <= clock + Ahead[b] /\ e.row.at \in Nat
    BY <2>1, ReportsOf DEF ReportInv
  <2>3. e.row.at < clock + 1 + Ahead[b]
    BY <1>5, <2>2
  <2>4. T[<<b, y>>] = Reported(e, b, on, st, n)
    BY <1>4, <2>1
  <2> QED
    BY <1>3, <2>2, <2>3, <2>4, Reports
<1>7. ASSUME NEW c \in Boxes, NEW x \in Boxes, NEW a \in Apps, ~(c = b /\ x = b /\ a = y)
      PROVE  table'[c][<<x, a>>] = table[c][<<x, a>>]
  <2>1. CASE c # b
    BY <1>3, <2>1
  <2>2. CASE c = b
    <3>1. <<x, a>> \in Keys \ {<<b, y>>} /\ <<x, a>>[1] # Fleet
      BY <1>7, <2>2, KeyKinds
    <3> QED
      BY <1>3, <1>4, <2>2, <3>1
  <2> QED
    BY <2>1, <2>2
<1>8. ASSUME NEW c \in Boxes, NEW x \in Boxes, NEW a \in Apps
      PROVE  /\ EntryOK(table'[c][<<x, a>>])
             /\ table'[c][<<x, a>>].row.at <= clock' + Ahead[x]
  <2>1. CASE c = b /\ x = b /\ a = y
    BY <1>1, <1>5, <1>6, <2>1
  <2>2. CASE ~(c = b /\ x = b /\ a = y)
    <3>1. table'[c][<<x, a>>] = table[c][<<x, a>>]
      BY <1>7, <2>2
    <3>2. /\ EntryOK(table[c][<<x, a>>]) /\ table[c][<<x, a>>].row.at <= clock + Ahead[x]
          /\ table[c][<<x, a>>].row.at \in Nat
      BY ReportsOf DEF ReportInv
    <3> QED
      BY <1>1, <1>5, <3>1, <3>2
  <2> QED
    BY <2>1, <2>2
<1>9. ASSUME NEW c \in Boxes, NEW p \in Boxes, NEW a \in Apps
      PROVE  /\ \/ table'[c][<<c, a>>].row.at = 0
                \/ table'[p][<<c, a>>].row.at <= table'[c][<<c, a>>].row.at
             /\ table'[c][<<c, a>>].row.at = table'[p][<<c, a>>].row.at =>
                  table'[c][<<c, a>>].row.on = table'[p][<<c, a>>].row.on
  <2>1. CASE ~(c = b /\ a = y)
    <3>1. table'[c][<<c, a>>] = table[c][<<c, a>>] /\ table'[p][<<c, a>>] = table[p][<<c, a>>]
      BY <1>7, <2>1
    <3> QED
      BY <3>1 DEF ReportInv
  <2>2. CASE c = b /\ a = y /\ p = b
    BY <1>5, <1>6, <2>2
  <2>3. CASE c = b /\ a = y /\ p # b
    <3>1. table'[p][<<c, a>>] = table[p][<<c, a>>]
      BY <1>7, <2>3
    <3>2. table[p][<<c, a>>].row.at \in Nat /\ table[p][<<c, a>>].row.at <= clock + Ahead[b]
      BY <2>3, ReportsOf DEF ReportInv
    <3> QED
      BY <1>5, <1>6, <2>3, <3>1, <3>2
  <2> QED
    BY <2>1, <2>2, <2>3
<1>10. ReportInv'
  BY <1>8, <1>9 DEF ReportInv
<1>11. Stands
  <2> SUFFICES ASSUME NEW c \in Boxes, NEW a \in Apps,
                      table'[c][<<c, a>>].row.at = table[c][<<c, a>>].row.at
               PROVE  table'[c][<<c, a>>].row.on = table[c][<<c, a>>].row.on
    BY DEF Stands
  <2>1. CASE c = b /\ a = y
    <3>1. table[b][<<b, y>>].row.at \in Nat /\ table[b][<<b, y>>].row.at <= clock + Ahead[b]
      BY ReportsOf DEF ReportInv
    <3> QED
      BY <1>5, <1>6, <2>1, <3>1
  <2>2. CASE ~(c = b /\ a = y)
    BY <1>7, <2>2
  <2> QED
    BY <2>1, <2>2
<1> QED
  BY <1>10, <1>11

\* A box that lost its rows has nothing that disagrees.
LEMMA WipeReportInv ==
  ASSUME FleetTypes, ReportInv, WipeStep
  PROVE  ReportInv' /\ Stands
<1>1. PICK b \in Boxes : /\ table' = [table EXCEPT ![b] = [k \in Keys |-> NoEntry]]
                         /\ clock' = clock
  BY DEF WipeStep
<1>2. PICK T : T = [k \in Keys |-> NoEntry]
  OBVIOUS
<1>3. table'[b] = T /\ \A c \in Boxes \ {b} : table'[c] = table[c]
  BY <1>1, <1>2, OtherTables
<1>4. ASSUME NEW x \in Boxes, NEW a \in Apps
      PROVE  /\ table'[b][<<x, a>>].row.at = 0 /\ table'[b][<<x, a>>].row.on = FALSE
             /\ EntryOK(table'[b][<<x, a>>])
  <2>1. table'[b][<<x, a>>] = NoEntry
    BY <1>2, <1>3, KeyKinds
  <2> QED
    BY <2>1, NoEntryIsOne
<1>5. clock \in Nat /\ \A x \in Boxes : Ahead[x] \in Nat
  BY FleetConstants DEF FleetTypes
<1>6. ASSUME NEW c \in Boxes, NEW x \in Boxes, NEW a \in Apps
      PROVE  /\ EntryOK(table'[c][<<x, a>>])
             /\ table'[c][<<x, a>>].row.at <= clock' + Ahead[x]
  <2>1. CASE c = b
    <3>1. EntryOK(table'[c][<<x, a>>]) /\ table'[c][<<x, a>>].row.at = 0
      BY <1>4, <2>1, Zenon
    <3> QED
      BY <1>1, <1>5, <3>1
  <2>2. CASE c # b
    BY <1>1, <1>3, <2>2 DEF ReportInv
  <2> QED
    BY <2>1, <2>2
<1>7. ASSUME NEW c \in Boxes, NEW x \in Boxes, NEW a \in Apps, c # b,
             table'[c][<<x, a>>].row.at = 0
      PROVE  table'[c][<<x, a>>].row.on = FALSE
  <2>1. table'[c][<<x, a>>] = table[c][<<x, a>>]
    BY <1>3, <1>7
  <2>2. EntryOK(table[c][<<x, a>>]) /\ table[c][<<x, a>>].row.on \in BOOLEAN
    BY ReportsOf DEF ReportInv
  <2> QED
    BY <1>7, <2>1, <2>2 DEF EntryOK
<1>8. ASSUME NEW c \in Boxes, NEW p \in Boxes, NEW a \in Apps
      PROVE  /\ \/ table'[c][<<c, a>>].row.at = 0
                \/ table'[p][<<c, a>>].row.at <= table'[c][<<c, a>>].row.at
             /\ table'[c][<<c, a>>].row.at = table'[p][<<c, a>>].row.at =>
                  table'[c][<<c, a>>].row.on = table'[p][<<c, a>>].row.on
  <2>1. CASE c # b /\ p # b
    <3>1. table'[c] = table[c] /\ table'[p] = table[p]
      BY <1>3, <2>1
    <3> QED
      BY <3>1 DEF ReportInv
  <2>2. CASE c = b
    BY <1>4, <1>7, <2>2
  <2>3. CASE c # b /\ p = b
    <3>1. table'[c][<<c, a>>].row.at \in Nat
      BY <1>3, <2>3, ReportsOf
    <3>2. table'[p][<<c, a>>].row.at = 0 /\ table'[p][<<c, a>>].row.on = FALSE
      <4>1. table'[b][<<c, a>>].row.at = 0 /\ table'[b][<<c, a>>].row.on = FALSE
        BY <1>4
      <4> QED
        BY <2>3, <4>1
    <3>3. table'[c][<<c, a>>].row.at = 0 => table'[c][<<c, a>>].row.on = FALSE
      BY <1>7, <2>3
    <3>4. table'[p][<<c, a>>].row.at <= table'[c][<<c, a>>].row.at
      BY <3>1, <3>2
    <3> QED
      BY <3>2, <3>3, <3>4, Zenon
  <2> QED
    BY <2>1, <2>2, <2>3
<1>9. ReportInv'
  BY <1>6, <1>8 DEF ReportInv
<1>10. Stands
  <2> SUFFICES ASSUME NEW c \in Boxes, NEW a \in Apps, table[c][<<c, a>>].row.at > 0,
                      table'[c][<<c, a>>].row.at = table[c][<<c, a>>].row.at
               PROVE  table'[c][<<c, a>>].row.on = table[c][<<c, a>>].row.on
    BY DEF Stands
  <2>1. CASE c = b
    <3>1. table'[c][<<c, a>>].row.at = 0
      BY <1>4, <2>1, Zenon
    <3> QED
      BY <3>1
  <2>2. CASE c # b
    BY <1>3, <2>2
  <2> QED
    BY <2>1, <2>2
<1> QED
  BY <1>9, <1>10

\* At the start all have the same reports.
LEMMA InitReports ==
  ASSUME FleetInit
  PROVE  ReportInv
<1>1. PICK t \in Nat, z \in [Keys -> Entries] :
           /\ table = [b \in Boxes |-> z] /\ clock = t
           /\ cursor = [b \in Boxes |-> [p \in Boxes |-> t]]
           /\ \A k \in Keys : /\ z[k].row.at <= t
                              /\ k[1] = Fleet => z[k].row.again = 0
                              /\ k[1] # Fleet => EntryOK(z[k])
  BY InitShape
<1>2. \A b \in Boxes : table[b] = z
  BY <1>1
<1>3. \A o \in Boxes, a \in Apps : /\ EntryOK(z[<<o, a>>]) /\ z[<<o, a>>].row.at <= t
                                   /\ z[<<o, a>>].row.at \in Nat
  BY <1>1, KeyKinds DEF Entries, EntryRows
<1>4. \A o \in Boxes : Ahead[o] \in Nat
  BY FleetConstants
<1>5. ASSUME NEW o \in Boxes, NEW a \in Apps
      PROVE  /\ z[<<o, a>>].row.at <= clock + Ahead[o]
             /\ z[<<o, a>>].row.at <= z[<<o, a>>].row.at
  <2>1. PICK n \in Nat : n = z[<<o, a>>].row.at /\ n <= t
    BY <1>3
  <2>2. n <= clock + Ahead[o] /\ n <= n
    BY <1>1, <1>4, <2>1
  <2> QED
    BY <2>1, <2>2
<1> QED
  BY <1>2, <1>3, <1>5 DEF ReportInv

\* Every step of two boxes that trust each other keeps the reports.
LEMMA StepReports ==
  ASSUME N <= 2, Verified = Boxes, FleetTypes, ReportInv, [FleetNext]_fleetVars
  PROVE  ReportInv' /\ Stands
<1>1. TableStep
  BY StepTypes
<1>2. CASE IdleStep
  BY <1>2 DEF IdleStep, ReportInv, Stands
<1>3. CASE MergeStep
  BY <1>3, MergeReportInv
<1>4. CASE WriteStep
  BY <1>4, WriteReportInv
<1>5. CASE WipeStep
  BY <1>5, WipeReportInv
<1> QED
  BY <1>1, <1>2, <1>3, <1>4, <1>5 DEF TableStep

(***************************************************************************)
(* What a box reported at a time is not turned round by a merge, in a      *)
(* fleet of at most two boxes that verify each other's signatures, for any *)
(* apps and however far their clocks are apart (mergeEntry,                *)
(* uninstallQuorumThreshold).  With three boxes it is false, as the run    *)
(* fleet_uninstall shows.                                                  *)
(***************************************************************************)
THEOREM ReportsStandOfTwo ==
  ASSUME N <= 2, Verified = Boxes
  PROVE  FleetSpec => OwnReportStands
<1>1. FleetInit => FleetTypes /\ ReportInv
  BY InitTypes, InitReports
<1>2. FleetTypes /\ ReportInv /\ [FleetNext]_fleetVars => FleetTypes' /\ ReportInv' /\ Stands
  BY StepTypes, StepRows, StepReports DEF FleetTypes
<1>3. OwnReportStands <=> [][Stands]_fleetVars
  BY DEF OwnReportStands, Stands
<1> QED
  BY <1>1, <1>2, <1>3, PTL DEF FleetSpec
-----------------------------------------------------------------------------
(* Cursors, of two boxes whose clocks are in step                          *)

\* When the wish was made.
At(b, a) == table[b][<<Fleet, a>>].row.at

\* A wish that a peer does not have is above one of the two cursors; when the
\* peer has pulled and not yet pushed, above that of the box that has it.
CursorInv ==
  \A b, p \in Boxes, a \in Apps :
    At(b, a) > At(p, a) =>
      /\ At(b, a) > cursor[b][p] \/ At(b, a) > cursor[p][b]
      /\ round[p].peer = b => At(b, a) > cursor[b][p]

\* Desires are times.
LEMMA Ats ==
  ASSUME FleetTypes, NEW b \in Boxes, NEW a \in Apps
  PROVE  At(b, a) \in Nat /\ At(b, a) <= clock + Top /\ <<Fleet, a>> \in Keys
BY KeyKinds, RowsOf DEF At

\* ApplyChangeset takes a later desire that is carried, and no other.
LEMMA AppliedDesires ==
  ASSUME FleetTypes, NEW b \in Boxes, NEW o \in Boxes, o \in Verified, NEW since \in Nat,
         table' = [table EXCEPT ![b] = Applied(table[b], o, table[o],
                                               Changed(table[o], since))],
         NEW a \in Apps
  PROVE  /\ \A c \in Boxes \ {b} : At(c, a)' = At(c, a)
         /\ \/ At(o, a) > since /\ At(o, a) > At(b, a) /\ At(b, a)' = At(o, a)
            \/ ~(At(o, a) > since /\ At(o, a) > At(b, a)) /\ At(b, a)' = At(b, a)
<1>1. PICK S \in SUBSET Keys : S = Changed(table[o], since)
  BY DEF Changed
<1>2. PICK T : T = Applied(table[b], o, table[o], S)
  OBVIOUS
<1>3. table'[b] = T /\ \A c \in Boxes \ {b} : table'[c] = table[c]
  BY <1>1, <1>2, OtherTables
<1>4. \A c \in Boxes \ {b} : At(c, a)' = At(c, a)
  BY <1>3 DEF At
<1>5. PICK k \in Keys : k = <<Fleet, a>> /\ k[1] = Fleet
  BY KeyKinds
<1>6. PICK e \in Entries : e = table[b][k]
  BY RowsOf
<1>7. PICK r \in EntryRows : r = table[o][k].row
  BY RowsOf
<1>8. /\ e.row.at = At(b, a) /\ r.at = At(o, a) /\ At(b, a) \in Nat /\ At(o, a) \in Nat
      /\ e.row.again = 0 /\ r.again = 0
  BY <1>5, <1>6, <1>7, RowsOf DEF At
<1>9. At(b, a)' = T[k].row.at
  BY <1>3, <1>5 DEF At
<1>10. k \in S <=> At(o, a) > since
  BY <1>1, <1>5 DEF Changed, At
<1>11. CASE k \notin S
  <2>1. T[k] = e
    BY <1>2, <1>6, <1>11 DEF Applied
  <2> QED
    BY <1>4, <1>8, <1>9, <1>10, <1>11, <2>1
<1>12. CASE k \in S
  <2>1. T[k] = MergeDesired(e, r, o)
    BY <1>2, <1>5, <1>6, <1>7, <1>12 DEF Applied, MergeEntry
  <2>2. T[k].row.at = IF r.at > e.row.at THEN r.at ELSE e.row.at
    BY <1>8, <2>1, MergeDesires
  <2> QED
    BY <1>4, <1>8, <1>9, <1>10, <1>12, <2>2
<1> QED
  BY <1>11, <1>12

\* A pull: what the peer still has over this box is at most the cursor of the pull, hence
\* above the other.
LEMMA PullCursors ==
  ASSUME N <= 2, Verified = Boxes, FleetTypes, CursorInv,
         NEW b \in Boxes, NEW p \in Boxes, Pull(b, p)
  PROVE  CursorInv'
<1>1. /\ table' = [table EXCEPT ![b] = Applied(table[b], p, table[p],
                                               Changed(table[p], cursor[b][p]))]
      /\ cursor' = cursor /\ round'[b].peer = p /\ \A c \in Boxes \ {b} : round'[c] = round[c]
  BY PullTypes
<1>2. cursor[b][p] \in Nat /\ p \in Verified
  BY CursorsOf
<1>3. ASSUME NEW a \in Apps
      PROVE  /\ \A c \in Boxes \ {b} : At(c, a)' = At(c, a)
             /\ \/ At(p, a) > cursor[b][p] /\ At(p, a) > At(b, a) /\ At(b, a)' = At(p, a)
                \/ ~(At(p, a) > cursor[b][p] /\ At(p, a) > At(b, a)) /\ At(b, a)' = At(b, a)
  <2>1. PICK t \in Nat : t = cursor[b][p]
    BY <1>2
  <2>2. table' = [table EXCEPT ![b] = Applied(table[b], p, table[p], Changed(table[p], t))]
    BY <1>1, <2>1
  <2>3. /\ \A c \in Boxes \ {b} : At(c, a)' = At(c, a)
        /\ \/ At(p, a) > t /\ At(p, a) > At(b, a) /\ At(b, a)' = At(p, a)
           \/ ~(At(p, a) > t /\ At(p, a) > At(b, a)) /\ At(b, a)' = At(b, a)
    BY <1>2, <2>2, AppliedDesires
  <2> QED
    BY <2>1, <2>3
<1> SUFFICES ASSUME NEW c \in Boxes, NEW d \in Boxes, NEW a \in Apps, At(c, a)' > At(d, a)'
             PROVE  /\ At(c, a)' > cursor[c][d] \/ At(c, a)' > cursor[d][c]
                    /\ round'[d].peer = c => At(c, a)' > cursor[c][d]
  BY <1>1 DEF CursorInv
<1>4. /\ At(c, a) \in Nat /\ At(d, a) \in Nat /\ cursor[c][d] \in Nat /\ cursor[d][c] \in Nat
      /\ At(c, a) > At(d, a) => /\ At(c, a) > cursor[c][d] \/ At(c, a) > cursor[d][c]
                                /\ round[d].peer = c => At(c, a) > cursor[c][d]
  BY Ats, CursorsOf DEF CursorInv
<1>5. c # d
  <2>1. At(c, a)' \in Nat
    BY <1>3, <1>4, Ats
  <2> QED
    BY <2>1
<1>6. CASE b = p
  <2>1. At(c, a)' = At(c, a) /\ At(d, a)' = At(d, a)
    BY <1>3, <1>6, Ats
  <2>2. round'[d].peer = c => d # b
    BY <1>1, <1>5, <1>6
  <2> QED
    BY <1>1, <1>4, <2>1, <2>2
<1>7. CASE b = c /\ p = d
  <2>1. At(d, a)' = At(d, a) /\ round'[d] = round[d]
    BY <1>1, <1>3, <1>5, <1>7
  <2>2. At(c, a)' = At(c, a)
    BY <1>3, <1>4, <1>7, <2>1
  <2> QED
    BY <1>4, <2>1, <2>2
<1>8. CASE b = d /\ p = c
  <2>1. At(c, a)' = At(c, a)
    BY <1>3, <1>5, <1>8
  <2>2. At(d, a)' = At(d, a) /\ ~(At(c, a) > cursor[d][c])
    BY <1>3, <1>4, <1>8, <2>1
  <2> QED
    BY <1>4, <2>1, <2>2
<1>9. \/ b = p \/ (b = c /\ p = d) \/ (b = d /\ p = c)
  BY <1>5, FleetConstants DEF Boxes
<1> QED
  BY <1>6, <1>7, <1>8, <1>9

\* A push: what this box has over the peer and does not push is at most its cursor, hence
\* above the peer's; what the peer has over it is, since the pull, above the peer's.
LEMMA PushCursors ==
  ASSUME N <= 2, Verified = Boxes, FleetTypes, CursorInv, NEW b \in Boxes, Push(b)
  PROVE  CursorInv'
<1>1. PICK p \in Boxes :
        /\ p = round[b].peer
        /\ table' = [table EXCEPT ![p] = Applied(table[p], b, table[b],
                                                 Changed(table[b], cursor[b][p]))]
        /\ \A c, d \in Boxes : c # b \/ d # p => cursor'[c][d] = cursor[c][d]
        /\ round'[b] = NoRound /\ \A c \in Boxes \ {b} : round'[c] = round[c]
  BY PushTypes
<1>2. cursor[b][p] \in Nat /\ b \in Verified
  BY CursorsOf
<1>3. ASSUME NEW a \in Apps
      PROVE  /\ \A c \in Boxes \ {p} : At(c, a)' = At(c, a)
             /\ \/ At(b, a) > cursor[b][p] /\ At(b, a) > At(p, a) /\ At(p, a)' = At(b, a)
                \/ ~(At(b, a) > cursor[b][p] /\ At(b, a) > At(p, a)) /\ At(p, a)' = At(p, a)
  <2>1. PICK t \in Nat : t = cursor[b][p]
    BY <1>2
  <2>2. table' = [table EXCEPT ![p] = Applied(table[p], b, table[b], Changed(table[b], t))]
    BY <1>1, <2>1
  <2>3. /\ \A c \in Boxes \ {p} : At(c, a)' = At(c, a)
        /\ \/ At(b, a) > t /\ At(b, a) > At(p, a) /\ At(p, a)' = At(b, a)
           \/ ~(At(b, a) > t /\ At(b, a) > At(p, a)) /\ At(p, a)' = At(p, a)
    BY <1>2, <2>2, AppliedDesires
  <2> QED
    BY <2>1, <2>3
<1> SUFFICES ASSUME NEW c \in Boxes, NEW d \in Boxes, NEW a \in Apps, At(c, a)' > At(d, a)'
             PROVE  /\ At(c, a)' > cursor'[c][d] \/ At(c, a)' > cursor'[d][c]
                    /\ round'[d].peer = c => At(c, a)' > cursor'[c][d]
  BY DEF CursorInv
<1>4. /\ At(c, a) \in Nat /\ At(d, a) \in Nat /\ cursor[c][d] \in Nat /\ cursor[d][c] \in Nat
      /\ At(c, a) > At(d, a) => /\ At(c, a) > cursor[c][d] \/ At(c, a) > cursor[d][c]
                                /\ round[d].peer = c => At(c, a) > cursor[c][d]
  BY Ats, CursorsOf DEF CursorInv
<1>5. c # d
  <2>1. At(c, a)' \in Nat
    BY <1>3, <1>4, Ats
  <2> QED
    BY <2>1
<1>6. NoRound.peer \notin Boxes
  BY DEF NoRound, Boxes
<1>7. CASE b = p
  <2>1. At(c, a)' = At(c, a) /\ At(d, a)' = At(d, a)
    BY <1>3, <1>7, Ats
  <2>2. cursor'[c][d] = cursor[c][d] /\ cursor'[d][c] = cursor[d][c]
    BY <1>1, <1>5, <1>7
  <2>3. round'[d].peer = c => round[d].peer = c
    BY <1>1, <1>6
  <2> QED
    BY <1>4, <2>1, <2>2, <2>3
<1>8. CASE b = c /\ p = d
  <2>1. At(c, a)' = At(c, a) /\ round'[d] = round[d] /\ cursor'[d][c] = cursor[d][c]
    BY <1>1, <1>3, <1>5, <1>8
  <2>2. At(d, a)' = At(d, a) /\ ~(At(c, a) > cursor[c][d])
    BY <1>3, <1>4, <1>8, <2>1
  <2> QED
    BY <1>4, <2>1, <2>2
<1>9. CASE b = d /\ p = c
  <2>1. At(d, a)' = At(d, a) /\ cursor'[c][d] = cursor[c][d]
    BY <1>1, <1>3, <1>5, <1>9
  <2>2. At(c, a)' = At(c, a)
    BY <1>3, <1>4, <1>9, <2>1
  <2>3. At(c, a) > cursor[c][d]
    BY <1>1, <1>4, <1>9, <2>1, <2>2
  <2>4. round'[d].peer # c
    BY <1>1, <1>6, <1>9
  <2> QED
    BY <2>1, <2>2, <2>3, <2>4
<1>10. \/ b = p \/ (b = c /\ p = d) \/ (b = d /\ p = c)
  BY <1>5, FleetConstants DEF Boxes
<1> QED
  BY <1>7, <1>8, <1>9, <1>10

\* A new desire is later than every cursor, when the clocks are in step.
LEMMA WriteCursors ==
  ASSUME \A b \in Boxes : Ahead[b] = Top, FleetTypes, CursorInv, WriteStep,
         cursor' = cursor, round' = round
  PROVE  CursorInv'
<1>1. PICK b \in Boxes, y \in Apps, on \in BOOLEAN, st \in States, n \in Nat,
           desired \in BOOLEAN :
        /\ table' = [table EXCEPT ![b] = Written(b, y, on, st, n, desired)]
        /\ clock' = clock + 1
  BY DEF WriteStep
<1>2. PICK T : T = Written(b, y, on, st, n, desired)
  OBVIOUS
<1>3. table'[b] = T /\ \A c \in Boxes \ {b} : table'[c] = table[c]
  BY <1>1, <1>2, OtherTables
<1>4. /\ \A x \in Apps : T[<<Fleet, x>>].row =
           IF x = y /\ desired THEN Desire(b, y, on) ELSE table[b][<<Fleet, x>>].row
      /\ Desire(b, y, on).at = DesireStamp(b)
  <2>1. /\ T \in [Keys -> Entries]
        /\ T[<<b, y>>] = Reported(table[b][<<b, y>>], b, on, st, n)
        /\ \A x \in Apps : T[<<Fleet, x>>].row =
             IF x = y /\ desired THEN Desire(b, y, on) ELSE table[b][<<Fleet, x>>].row
        /\ \A k \in Keys \ {<<b, y>>} : k[1] # Fleet => T[k] = table[b][k]
        /\ Desire(b, y, on).again = 0 /\ Desire(b, y, on).at = DesireStamp(b)
    BY <1>2, Writes
  <2> QED
    BY <2>1
<1>5. PICK s \in Nat : s = DesireStamp(b) /\ s >= clock + 1 + Top
  <2>1. DesireStamp(b) \in Nat /\ DesireStamp(b) >= clock + 1 + Ahead[b]
    BY Stamps
  <2>2. Ahead[b] = Top
    OBVIOUS
  <2> QED
    BY <2>1, <2>2
<1>6. ASSUME NEW c \in Boxes, NEW a \in Apps
      PROVE  \/ c = b /\ a = y /\ At(c, a)' = s
             \/ At(c, a)' = At(c, a)
  <2>1. CASE c # b
    BY <1>3, <2>1 DEF At
  <2>2. CASE c = b /\ a = y /\ desired
    BY <1>3, <1>4, <1>5, <2>2 DEF At
  <2>3. CASE c = b /\ ~(a = y /\ desired)
    BY <1>3, <1>4, <2>3 DEF At
  <2> QED
    BY <2>1, <2>2, <2>3
<1>7. clock \in Nat /\ Top \in Nat
  BY TopIsTop DEF FleetTypes
<1> SUFFICES ASSUME NEW c \in Boxes, NEW d \in Boxes, NEW a \in Apps, At(c, a)' > At(d, a)'
             PROVE  /\ At(c, a)' > cursor[c][d] \/ At(c, a)' > cursor[d][c]
                    /\ round[d].peer = c => At(c, a)' > cursor[c][d]
  BY DEF CursorInv
<1>8. /\ At(c, a) \in Nat /\ At(d, a) \in Nat /\ At(c, a) <= clock + Top
      /\ cursor[c][d] \in Nat /\ cursor[c][d] <= clock + Top
      /\ At(c, a) > At(d, a) => /\ At(c, a) > cursor[c][d] \/ At(c, a) > cursor[d][c]
                                /\ round[d].peer = c => At(c, a) > cursor[c][d]
  BY Ats, CursorsOf DEF CursorInv
<1>9. CASE At(c, a)' = s
  BY <1>5, <1>7, <1>8, <1>9
<1>10. CASE At(c, a)' = At(c, a) /\ At(d, a)' = At(d, a)
  BY <1>8, <1>10
<1>11. CASE At(c, a)' = At(c, a) /\ At(d, a)' = s
  BY <1>5, <1>7, <1>8, <1>11
<1> QED
  BY <1>6, <1>9, <1>10, <1>11

\* A box that lost its rows lost its cursors.
LEMMA WipeCursors ==
  ASSUME FleetTypes, CursorInv, NEW b \in Boxes, Wipe(b)
  PROVE  CursorInv'
<1>1. /\ table' = [table EXCEPT ![b] = [k \in Keys |-> NoEntry]]
      /\ \A p \in Boxes : cursor'[b][p] = 0
      /\ \A c \in Boxes \ {b} : cursor'[c] = cursor[c] /\ round'[c] = round[c]
      /\ round'[b] = NoRound
  BY WipeTypes
<1>2. PICK T : T = [k \in Keys |-> NoEntry]
  OBVIOUS
<1>3. table'[b] = T /\ \A c \in Boxes \ {b} : table'[c] = table[c]
  BY <1>1, <1>2, OtherTables
<1>4. \A a \in Apps : At(b, a)' = 0
  BY <1>2, <1>3, KeyKinds, NoEntryIsOne DEF At
<1>5. \A c \in Boxes \ {b}, a \in Apps : At(c, a)' = At(c, a)
  BY <1>3 DEF At
<1>6. NoRound.peer \notin Boxes
  BY DEF NoRound, Boxes
<1> SUFFICES ASSUME NEW c \in Boxes, NEW d \in Boxes, NEW a \in Apps, At(c, a)' > At(d, a)'
             PROVE  /\ At(c, a)' > cursor'[c][d] \/ At(c, a)' > cursor'[d][c]
                    /\ round'[d].peer = c => At(c, a)' > cursor'[c][d]
  BY DEF CursorInv
<1>7. /\ At(c, a) \in Nat /\ At(d, a) \in Nat
      /\ At(c, a) > At(d, a) => /\ At(c, a) > cursor[c][d] \/ At(c, a) > cursor[d][c]
                                /\ round[d].peer = c => At(c, a) > cursor[c][d]
  BY Ats DEF CursorInv
<1>8. CASE c = b
  <2>1. At(c, a)' = 0
    BY <1>4, <1>8
  <2>2. At(d, a)' \in Nat
    BY <1>4, <1>5, <1>7
  <2> QED
    BY <2>1, <2>2
<1>9. CASE c # b /\ d = b
  <2>1. At(d, a)' = 0 /\ cursor'[d][c] = 0 /\ round'[d].peer # c
    BY <1>1, <1>4, <1>6, <1>9
  <2> QED
    BY <2>1
<1>10. CASE c # b /\ d # b
  BY <1>1, <1>5, <1>7, <1>10
<1> QED
  BY <1>8, <1>9, <1>10

\* A step that leaves the tables and the cursors, and perhaps ends a round.
LEMMA IdleCursors ==
  ASSUME CursorInv, IdleStep, cursor' = cursor,
         \A c \in Boxes : round'[c] = round[c] \/ round'[c] = NoRound
  PROVE  CursorInv'
<1>1. NoRound.peer \notin Boxes
  BY DEF NoRound, Boxes
<1>2. \A c, d \in Boxes : round'[d].peer = c => round[d].peer = c
  BY <1>1
<1>3. \A c \in Boxes, a \in Apps : At(c, a)' = At(c, a)
  BY DEF IdleStep, At
<1> QED
  BY <1>2, <1>3 DEF CursorInv

\* Every step of two boxes with clocks in step.
LEMMA StepCursors ==
  ASSUME N <= 2, Verified = Boxes, \A b \in Boxes : Ahead[b] = Top,
         FleetTypes, CursorInv, [FleetNext]_fleetVars
  PROVE  CursorInv'
<1>1. CASE UNCHANGED fleetVars
  BY <1>1, IdleCursors DEF fleetVars, IdleStep
<1>2. CASE FleetNext
  <2>1. PICK b \in Boxes :
          \/ \E a \in Apps : Click(b, a)
          \/ Record(b) \/ Reconcile(b) \/ Elapse(b)
          \/ \E p \in Boxes : Pull(b, p)
          \/ Push(b) \/ PushFails(b) \/ Wipe(b)
    BY <1>2 DEF FleetNext
  <2>2. CASE \E a \in Apps : Click(b, a)
    <3>1. IdleStep /\ cursor' = cursor /\ round' = round
      BY <2>2, ClickTypes DEF Click
    <3> QED
      BY <3>1, IdleCursors
  <2>3. CASE Record(b)
    <3>1. WriteStep /\ cursor' = cursor /\ round' = round
      BY <2>3, RecordTypes DEF Record
    <3> QED
      BY <3>1, WriteCursors
  <2>4. CASE PlanReconcile(b)
    <3>1. IdleStep /\ cursor' = cursor /\ round' = round
      BY <2>4, PlanTypes DEF PlanReconcile
    <3> QED
      BY <3>1, IdleCursors
  <2>5. CASE Perform(b)
    <3>1. (IdleStep \/ WriteStep) /\ cursor' = cursor /\ round' = round
      BY <2>5, PerformTypes DEF Perform
    <3> QED
      BY <3>1, IdleCursors, WriteCursors
  <2>6. CASE Elapse(b)
    <3>1. IdleStep /\ cursor' = cursor /\ round' = round
      BY <2>6, ElapseTypes DEF Elapse
    <3> QED
      BY <3>1, IdleCursors
  <2>7. CASE \E p \in Boxes : Pull(b, p)
    BY <2>7, PullCursors
  <2>8. CASE Push(b)
    BY <2>8, PushCursors
  <2>9. CASE PushFails(b)
    <3>1. /\ IdleStep /\ cursor' = cursor
          /\ round'[b] = NoRound /\ \A c \in Boxes \ {b} : round'[c] = round[c]
      BY <2>9, PushFailsTypes
    <3> QED
      BY <3>1, IdleCursors
  <2>10. CASE Wipe(b)
    BY <2>10, WipeCursors
  <2> QED
    BY <2>1, <2>2, <2>3, <2>4, <2>5, <2>6, <2>7, <2>8, <2>9, <2>10 DEF Reconcile
<1> QED
  BY <1>1, <1>2

\* At the start nobody has a desire that another has not.
LEMMA InitCursors ==
  ASSUME FleetInit
  PROVE  CursorInv
<1>1. PICK t \in Nat, z \in [Keys -> Entries] :
           /\ table = [b \in Boxes |-> z] /\ clock = t
           /\ cursor = [b \in Boxes |-> [p \in Boxes |-> t]]
           /\ \A k \in Keys : /\ z[k].row.at <= t
                              /\ k[1] = Fleet => z[k].row.again = 0
                              /\ k[1] # Fleet => EntryOK(z[k])
  BY InitShape
<1>2. \A b, p \in Boxes, a \in Apps : At(b, a) = At(p, a) /\ At(b, a) \in Nat
  <2>1. \A b \in Boxes : table[b] = z
    BY <1>1
  <2>2. \A a \in Apps : z[<<Fleet, a>>].row.at \in Nat
    BY KeyKinds DEF Entries, EntryRows
  <2> QED
    BY <2>1, <2>2 DEF At
<1>3. \A b, p \in Boxes, a \in Apps : ~(At(b, a) > At(p, a))
  BY <1>2
<1> QED
  BY <1>3 DEF CursorInv

(***************************************************************************)
(* "Advancing the cursor never loses an update": a desire that would win   *)
(* at the peer is carried by one of the two boxes' next rounds, in a fleet *)
(* of at most two boxes that verify each other and whose clocks are in     *)
(* step, for any apps, through failed pushes and reboots that lose a box's *)
(* rows and cursors (Service.syncPeer).  With a clock that runs ahead it   *)
(* is false.                                                               *)
(***************************************************************************)
THEOREM CursorsLoseNothingOfTwo ==
  ASSUME N <= 2, Verified = Boxes, \A b, p \in Boxes : Ahead[b] = Ahead[p]
  PROVE  FleetSpec => []CursorLosesNothing
<1>1. FleetInit => FleetTypes /\ CursorInv
  BY InitTypes, InitCursors
<1>2. \A b \in Boxes : Ahead[b] = Top
  BY TopIsTop
<1>3. FleetTypes /\ CursorInv /\ [FleetNext]_fleetVars => FleetTypes' /\ CursorInv'
  BY <1>2, StepTypes, StepRows, StepCursors DEF FleetTypes
<1>4. CursorInv => CursorLosesNothing
  BY DEF CursorInv, CursorLosesNothing, At
<1> QED
  BY <1>1, <1>3, <1>4, PTL DEF FleetSpec
=============================================================================
