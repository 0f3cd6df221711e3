--------------------------- MODULE CrdtStoreProofs ---------------------------
(***************************************************************************)
(* CrdtStore is type-correct, keeps Coverage, Servable, Convergence,       *)
(* CountedOnce, ClockAhead and LocalWriteWins, and implements OpSets, for  *)
(* any number of boxes, keys, calls and bounds.                            *)
(*                                                                         *)
(* ReplicaInv is the inductive invariant of the first part: Coverage alone *)
(* is not, since Merge moves the version vector past ops of earlier deltas *)
(* (LogApplied) and ApplySnapshot past ops that were read one query at a   *)
(* time (CallsSound).  It says that what a box claims to know is in its    *)
(* state; the second part adds the other half, that nothing else is: a     *)
(* register holds the row of an op that was issued (NothingInvented), and  *)
(* no counter runs ahead of what its actor added (TotalsLead).  The third  *)
(* part is about the clock: it passes every stamp the box holds, so that a *)
(* local write wins; and the last is the refinement.                       *)
(***************************************************************************)
EXTENDS CrdtImplements, WellFoundedInduction, TLAPS

(***************************************************************************)
(* What the operators of CrdtStore compute: the order of rows has a best   *)
(* element in every set, merging a register or a counter keeps the best of *)
(* what was there and what came, and advanceContiguous stops at a gap.     *)
(* Induction over sets of rows is replaced by well-founded minima.         *)
(***************************************************************************)

\* A set of naturals that is not empty has a least element.
LEMMA LeastNat ==
  ASSUME NEW S \in SUBSET Nat, S # {}
  PROVE  \E x \in S : \A y \in S : x <= y
<1>1. PICK x \in S : \A y \in S : ~(<<y, x>> \in OpToRel(<, Nat))
  BY NatLessThanWellFounded, WFMin, Zenon
<1>2. \A y \in S : ~(y < x)
  BY <1>1 DEF OpToRel
<1> QED BY <1>2

\* Something of a set that is not empty is lowest by a measure in Nat.
LEMMA LowestBy ==
  ASSUME NEW S, S # {}, NEW f \in [S -> Nat]
  PROVE  \E x \in S : \A y \in S : f[x] <= f[y]
<1> DEFINE T == {d \in Nat : \E x \in S : d = f[x]}
<1>1. \A y \in S : f[y] \in T OBVIOUS
<1>2. PICK t \in T : \A d \in T : t <= d
  BY <1>1, LeastNat
<1>3. PICK x \in S : t = f[x] OBVIOUS
<1> QED BY <1>1, <1>2, <1>3

\* Something of it is highest by a measure that is bounded.
LEMMA HighestBy ==
  ASSUME NEW n \in Nat, NEW S, S # {}, NEW f \in [S -> 0..n]
  PROVE  \E x \in S : \A y \in S : f[y] <= f[x]
<1> DEFINE g == [x \in S |-> n - f[x]]
<1>1. g \in [S -> Nat] OBVIOUS
<1>2. PICK x \in S : \A y \in S : g[x] <= g[y]
  BY <1>1, LowestBy
<1>3. \A y \in S : f[y] <= f[x]
  BY <1>2
<1> QED BY <1>3

\* Max returns an element that no other exceeds, whenever there is one.
LEMMA MaxInSet ==
  ASSUME NEW n \in Nat, NEW S \in SUBSET (0..n), S # {}
  PROVE  Max(S) \in S /\ \A y \in S : y <= Max(S)
<1> DEFINE f == [x \in S |-> x]
<1>1. PICK x \in S : \A y \in S : f[y] <= f[x]
  <2>1. f \in [S -> 0..n] OBVIOUS
  <2> QED BY <2>1, HighestBy
<1>2. \A y \in S : x >= y
  BY <1>1
<1> QED BY <1>2 DEF Max

\* Min returns an element that exceeds no other.
LEMMA MinInSet ==
  ASSUME NEW S \in SUBSET Nat, S # {}
  PROVE  Min(S) \in S
BY LeastNat DEF Min

(* the register order *)
LEMMA RowFields ==
  ASSUME NEW x \in Rows
  PROVE  x.wall \in Nat /\ x.logical \in Nat /\ x.actor \in Nat /\ x.val \in Nat
BY ConstantsOK DEF Rows, Walls, Values

\* registerWinsIn is transitive, in a grow-only domain and in any other.
LEMMA WinsTransitive ==
  ASSUME NEW x \in Rows, NEW y \in Rows, NEW z \in Rows, Wins(x, y), Wins(y, z)
  PROVE  Wins(x, z)
<1>1. CASE GrowOnly
  BY <1>1, RowFields DEF Wins, FirstWriterWins, StampLess, SameStamp
<1>2. CASE ~GrowOnly
  BY <1>2, RowFields DEF Wins, LastWriterWins, StampLess, SameStamp
<1> QED BY <1>1, <1>2

\* Two rows never beat each other: merging in either order agrees.
LEMMA WinsAsymmetric ==
  ASSUME NEW x \in Rows, NEW y \in Rows, Wins(x, y)
  PROVE  ~Wins(y, x)
<1>1. CASE GrowOnly
  BY <1>1, RowFields DEF Wins, FirstWriterWins, StampLess, SameStamp
<1>2. CASE ~GrowOnly
  BY <1>2, RowFields DEF Wins, LastWriterWins, StampLess, SameStamp
<1> QED BY <1>1, <1>2

\* Rows neither of which beats the other are the same row (registerWins
\* breaks every tie).
LEMMA WinsTotal ==
  ASSUME NEW x \in Rows, NEW y \in Rows, ~Wins(x, y), ~Wins(y, x)
  PROVE  x = y
<1>1. x.wall = y.wall /\ x.logical = y.logical /\ x.actor = y.actor /\ x.val = y.val
  BY RowFields, ConstantsOK
     DEF Wins, LastWriterWins, FirstWriterWins, StampLess, SameStamp
<1> QED BY <1>1 DEF Rows

\* Among any rows there is one that no other beats, last writer wins.
LEMMA LastWriterExists ==
  ASSUME NEW S \in SUBSET Rows, S # {}
  PROVE  \E w \in S : \A x \in S : ~LastWriterWins(x, w)
<1> USE ConstantsOK DEF Rows, Walls, Values
<1>1. PICK a \in S : \A y \in S : y.wall <= a.wall
  <2> DEFINE f == [x \in S |-> x.wall]
  <2>1. f \in [S -> 0..MaxWall] OBVIOUS
  <2> HIDE DEF f
  <2>2. \E x \in S : \A y \in S : f[y] <= f[x]
    BY <2>1, HighestBy
  <2> QED BY <2>2 DEF f
<1> DEFINE S1 == {x \in S : x.wall = a.wall}
<1>20. S1 \in SUBSET S /\ S1 # {} OBVIOUS
<1>2. PICK b \in S1 : \A y \in S1 : y.logical <= b.logical
  <2> DEFINE f == [x \in S1 |-> x.logical]
  <2> HIDE DEF S1
  <2>1. f \in [S1 -> 0..MaxLogical]
    BY <1>20
  <2> HIDE DEF f
  <2>2. \E x \in S1 : \A y \in S1 : f[y] <= f[x]
    BY <1>20, <2>1, HighestBy
  <2> QED BY <2>2 DEF f
<1> DEFINE S2 == {x \in S1 : x.logical = b.logical}
<1>30. S2 \in SUBSET S /\ S2 # {} OBVIOUS
<1>3. PICK c \in S2 : \A y \in S2 : y.actor <= c.actor
  <2> DEFINE f == [x \in S2 |-> x.actor]
  <2> HIDE DEF S2
  <2>1. f \in [S2 -> 0..N]
    BY <1>30
  <2> HIDE DEF f
  <2>2. \E x \in S2 : \A y \in S2 : f[y] <= f[x]
    BY <1>30, <2>1, HighestBy
  <2> QED BY <2>2 DEF f
<1> DEFINE S3 == {x \in S2 : x.actor = c.actor}
<1>40. S3 \in SUBSET S /\ S3 # {} OBVIOUS
<1>4. PICK w \in S3 : \A y \in S3 : y.val <= w.val
  <2> DEFINE f == [x \in S3 |-> x.val]
  <2> HIDE DEF S3
  <2>1. f \in [S3 -> 0..MaxValue]
    BY <1>40
  <2> HIDE DEF f
  <2>2. \E x \in S3 : \A y \in S3 : f[y] <= f[x]
    BY <1>40, <2>1, HighestBy
  <2> QED BY <2>2 DEF f
<1>5. ASSUME NEW x \in S PROVE ~LastWriterWins(x, w)
  <2>1. w \in S /\ w.wall = a.wall /\ w.logical = b.logical /\ w.actor = c.actor
    OBVIOUS
  <2>2. x.wall <= w.wall
    BY <1>1, <2>1
  <2>3. x.wall = w.wall => x.logical <= w.logical
    BY <1>2, <2>1
  <2>4. x.wall = w.wall /\ x.logical = w.logical => x.actor <= w.actor
    BY <1>3, <2>1
  <2>5. SameStamp(x, w) => x.val <= w.val
    BY <1>4, <2>1 DEF SameStamp
  <2>6. /\ x.wall \in Nat /\ x.logical \in Nat /\ x.actor \in Nat /\ x.val \in Nat
        /\ w.wall \in Nat /\ w.logical \in Nat /\ w.actor \in Nat /\ w.val \in Nat
    BY <2>1, RowFields
  <2> HIDE DEF S1, S2, S3, Rows
  <2> QED
    BY <2>2, <2>3, <2>4, <2>5, <2>6, SMTT(30) DEF LastWriterWins, StampLess, SameStamp
<1>6. w \in S OBVIOUS
<1> QED BY <1>5, <1>6

\* A row that is at or above another in wall time, then counter, then actor has
\* no earlier stamp.
LEMMA NotLess ==
  ASSUME NEW x, NEW w,
         x.wall \in Nat, x.logical \in Nat, x.actor \in Nat,
         w.wall \in Nat, w.logical \in Nat, w.actor \in Nat,
         w.wall <= x.wall, x.wall = w.wall => w.logical <= x.logical,
         x.wall = w.wall /\ x.logical = w.logical => w.actor <= x.actor
  PROVE  ~StampLess(x, w)
BY DEF StampLess

\* The same for the first writer, in a grow-only domain.
LEMMA FirstWriterExists ==
  ASSUME NEW S \in SUBSET Rows, S # {}
  PROVE  \E w \in S : \A x \in S : ~FirstWriterWins(x, w)
<1> USE ConstantsOK DEF Rows, Walls, Values
<1>1. PICK a \in S : \A y \in S : a.wall <= y.wall
  <2> DEFINE f == [x \in S |-> x.wall]
  <2>1. f \in [S -> Nat] OBVIOUS
  <2> HIDE DEF f
  <2>2. \E x \in S : \A y \in S : f[x] <= f[y]
    BY <2>1, LowestBy
  <2> QED BY <2>2 DEF f
<1> DEFINE S1 == {x \in S : x.wall = a.wall}
<1>20. S1 \in SUBSET S /\ S1 # {} OBVIOUS
<1>2. PICK b \in S1 : \A y \in S1 : b.logical <= y.logical
  <2> DEFINE f == [x \in S1 |-> x.logical]
  <2> HIDE DEF S1
  <2>1. f \in [S1 -> Nat]
    BY <1>20
  <2> HIDE DEF f
  <2>2. \E x \in S1 : \A y \in S1 : f[x] <= f[y]
    BY <1>20, <2>1, LowestBy
  <2> QED BY <2>2 DEF f
<1> DEFINE S2 == {x \in S1 : x.logical = b.logical}
<1>30. S2 \in SUBSET S /\ S2 # {} OBVIOUS
<1>3. PICK c \in S2 : \A y \in S2 : c.actor <= y.actor
  <2> DEFINE f == [x \in S2 |-> x.actor]
  <2> HIDE DEF S2
  <2>1. f \in [S2 -> Nat]
    BY <1>30
  <2> HIDE DEF f
  <2>2. \E x \in S2 : \A y \in S2 : f[x] <= f[y]
    BY <1>30, <2>1, LowestBy
  <2> QED BY <2>2 DEF f
<1> DEFINE S3 == {x \in S2 : x.actor = c.actor}
<1>40. S3 \in SUBSET S /\ S3 # {} OBVIOUS
<1>4. PICK w \in S3 : \A y \in S3 : w.val <= y.val
  <2> DEFINE f == [x \in S3 |-> x.val]
  <2> HIDE DEF S3
  <2>1. f \in [S3 -> Nat]
    BY <1>40
  <2> HIDE DEF f
  <2>2. \E x \in S3 : \A y \in S3 : f[x] <= f[y]
    BY <1>40, <2>1, LowestBy
  <2> QED BY <2>2 DEF f
<1>5. ASSUME NEW x \in S PROVE ~FirstWriterWins(x, w)
  <2>1. w \in S /\ w.wall = a.wall /\ w.logical = b.logical /\ w.actor = c.actor
    OBVIOUS
  <2>2. w.wall <= x.wall
    BY <1>1, <2>1
  <2>3. x.wall = w.wall => w.logical <= x.logical
    BY <1>2, <2>1
  <2>4. x.wall = w.wall /\ x.logical = w.logical => w.actor <= x.actor
    BY <1>3, <2>1
  <2>5. SameStamp(x, w) => w.val <= x.val
    BY <1>4, <2>1 DEF SameStamp
  <2>6. /\ x.wall \in Nat /\ x.logical \in Nat /\ x.actor \in Nat /\ x.val \in Nat
        /\ w.wall \in Nat /\ w.logical \in Nat /\ w.actor \in Nat /\ w.val \in Nat
    BY <2>1, RowFields
  <2> HIDE DEF S1, S2, S3, Rows
  <2>7. ~StampLess(x, w)
    BY <2>2, <2>3, <2>4, <2>6, NotLess, Zenon
  <2>8. ~(SameStamp(x, w) /\ x.val < w.val)
    BY <2>5, <2>6
  <2> QED
    BY <2>7, <2>8 DEF FirstWriterWins
<1>6. w \in S OBVIOUS
<1> QED BY <1>5, <1>6

\* Winner is therefore well defined: what mergeRegister leaves after any
\* number of rows, in any order.
LEMMA WinnerWins ==
  ASSUME NEW S \in SUBSET Rows, S # {}
  PROVE  Winner(S) \in S /\ \A x \in S : ~Wins(x, Winner(S))
<1>1. \E w \in S : \A x \in S : ~Wins(x, w)
  BY FirstWriterExists, LastWriterExists DEF Wins
<1> QED BY <1>1 DEF Winner

\* A row beaten by none of two stays so along a chain.
LEMMA NotWinsTransitive ==
  ASSUME NEW x \in Rows, NEW y \in Rows, NEW z \in Rows, ~Wins(x, y), ~Wins(y, z)
  PROVE  ~Wins(x, z)
BY WinsTotal, WinsTransitive

\* The maximum of two numbers, as Compact, RaisedFloor and mergeCounter use it.
LEMMA MaxOfTwo ==
  ASSUME NEW x \in Int, NEW y \in Int
  PROVE  /\ Max({x, y}) \in {x, y}
         /\ x <= Max({x, y}) /\ y <= Max({x, y})
<1>1. \E m \in {x, y} : \A z \in {x, y} : m >= z
  <2>1. CASE x <= y BY <2>1
  <2>2. CASE ~(x <= y) BY <2>2
  <2> QED BY <2>1, <2>2
<1> QED BY <1>1 DEF Max

\* The absent row is a row.
LEMMA NoRowType == NoRow \in Rows
BY ConstantsOK DEF NoRow, Rows, Walls, Values

\* What mergeRegister leaves was there or was delivered, beats or equals
\* everything delivered, and is never worse than what was there.
LEMMA MergeRegisterLemma ==
  ASSUME NEW cur \in Rows, NEW rows \in SUBSET Rows, NoRow \notin rows
  PROVE  /\ MergeRegister(cur, rows) \in Rows
         /\ MergeRegister(cur, rows) \in rows \cup {cur}
         /\ \A x \in rows : /\ ~Wins(x, MergeRegister(cur, rows))
                            /\ MergeRegister(cur, rows) # NoRow
         /\ cur # NoRow => /\ ~Wins(cur, MergeRegister(cur, rows))
                           /\ MergeRegister(cur, rows) # NoRow
<1> DEFINE all == rows \cup ({cur} \ {NoRow})
           m == MergeRegister(cur, rows)
<1>0. all \in SUBSET Rows /\ NoRow \notin all OBVIOUS
<1>1. CASE all = {}
  <2>1. m = NoRow /\ rows = {} /\ cur = NoRow
    BY <1>1 DEF MergeRegister
  <2> QED BY <2>1
<1>2. CASE all # {}
  <2>1. m = Winner(all)
    BY <1>2 DEF MergeRegister
  <2>2. m \in all /\ \A x \in all : ~Wins(x, m)
    BY <1>0, <1>2, <2>1, WinnerWins
  <2> QED BY <1>0, <2>2
<1> QED BY <1>1, <1>2

\* mergeCounter leaves totals that were there or were delivered, and no
\* smaller ones were dropped for them.
LEMMA MergeCounterLemma ==
  ASSUME NEW cur \in Pairs, NEW pairs \in SUBSET Pairs
  PROVE  LET m == MergeCounter(cur, pairs)
         IN  /\ m \in Pairs
             /\ m.pos \in {p.pos : p \in pairs} \cup {cur.pos}
             /\ m.neg \in {p.neg : p \in pairs} \cup {cur.neg}
             /\ \A p \in pairs \cup {cur} : p.pos <= m.pos /\ p.neg <= m.neg
<1> DEFINE P == {p.pos : p \in pairs} \cup {cur.pos}
           Q == {p.neg : p \in pairs} \cup {cur.neg}
<1>1. P \in SUBSET (0..MaxTotal) /\ P # {} /\ Q \in SUBSET (0..MaxTotal) /\ Q # {}
  BY DEF Pairs, Totals
<1>2. Max(P) \in P /\ (\A y \in P : y <= Max(P))
  BY <1>1, MaxInSet, ConstantsOK
<1>3. Max(Q) \in Q /\ (\A y \in Q : y <= Max(Q))
  BY <1>1, MaxInSet, ConstantsOK
<1>4. MergeCounter(cur, pairs) = [pos |-> Max(P), neg |-> Max(Q)]
  BY DEF MergeCounter
<1>5. \A p \in pairs \cup {cur} : p.pos \in P /\ p.neg \in Q OBVIOUS
<1> HIDE DEF P, Q
<1>6. [pos |-> Max(P), neg |-> Max(Q)] \in Pairs
  BY <1>1, <1>2, <1>3 DEF Pairs, Totals
<1>7. LET m == MergeCounter(cur, pairs)
      IN  /\ m \in Pairs /\ m.pos \in P /\ m.neg \in Q
          /\ \A p \in pairs \cup {cur} : p.pos <= m.pos /\ p.neg <= m.neg
  BY <1>2, <1>3, <1>4, <1>5, <1>6
<1> QED BY <1>7 DEF P, Q

\* advanceContiguous never goes back, and every sequence number it passes
\* has its row in the log.
LEMMA AdvanceLemma ==
  ASSUME NEW log \in SUBSET Ops, NEW a \in Actors, NEW cur \in Seqs
  PROVE  /\ AdvanceContiguous(log, a, cur) \in Seqs
         /\ AdvanceContiguous(log, a, cur) >= cur
         /\ \A i \in (cur + 1)..AdvanceContiguous(log, a, cur) : HasRow(log, a, i)
<1> DEFINE T == {n \in Nat : cur <= n /\ ~HasRow(log, a, n + 1)}
<1>0. MaxSeq \in Nat /\ cur \in Nat /\ cur <= MaxSeq
  BY ConstantsOK DEF Seqs
<1>1. MaxSeq \in T
  <2>1. \A o \in log : o.seq \in Nat /\ o.seq <= MaxSeq
    BY <1>0 DEF Ops
  <2> QED BY <1>0, <2>1 DEF HasRow
<1>2. PICK n \in T : \A m \in T : n <= m
  BY <1>1, LeastNat
<1>3. n \in cur..MaxSeq /\ ~HasRow(log, a, n + 1)
  BY <1>0, <1>1, <1>2
<1>4. ASSUME NEW i \in (cur + 1)..n PROVE HasRow(log, a, i)
  <2>1. i - 1 \in Nat /\ cur <= i - 1 /\ i - 1 < n /\ (i - 1) + 1 = i
    BY <1>0, <1>3
  <2>2. i - 1 \notin T
    BY <1>2, <2>1
  <2> QED BY <2>1, <2>2
<1>5. \E k \in cur..MaxSeq : /\ \A i \in (cur + 1)..k : HasRow(log, a, i)
                            /\ ~HasRow(log, a, k + 1)
  BY <1>3, <1>4
<1>6. AdvanceContiguous(log, a, cur) \in cur..MaxSeq
      /\ \A i \in (cur + 1)..AdvanceContiguous(log, a, cur) : HasRow(log, a, i)
  BY <1>5 DEF AdvanceContiguous
<1> QED BY <1>0, <1>6 DEF Seqs

\* What an op carries is a row, a pair of totals and a stamp.
LEMMA OpFields ==
  ASSUME NEW o \in Ops
  PROVE  /\ RowOf(o) \in Rows /\ RowOf(o) # NoRow
         /\ PairOf(o) \in Pairs
         /\ StampOf(o) \in Clocks
         /\ o.actor \in Actors
         /\ o.seq \in Nat /\ o.seq > 0 /\ o.seq <= MaxSeq
<1> USE ConstantsOK
<1>1. RowOf(o) \in Rows
  BY DEF Ops, Rows, RowOf, Actors, Walls, Values
<1>2. RowOf(o).actor # 0
  BY DEF Ops, RowOf, Actors
<1>3. NoRow.actor = 0
  BY DEF NoRow
<1>4. PairOf(o) \in Pairs
  BY DEF Ops, Pairs, PairOf
<1>5. StampOf(o) \in Clocks
  BY DEF Ops, Clocks, StampOf
<1>6. o.actor \in Actors /\ o.seq \in Nat /\ o.seq > 0 /\ o.seq <= MaxSeq
  BY DEF Ops
<1> QED BY <1>1, <1>2, <1>3, <1>4, <1>5, <1>6

\* applyToState on registers: each keeps its row or takes one of the ops',
\* and is beaten by none of them.
LEMMA ApplyRegsLemma ==
  ASSUME NEW regs \in RegTables, NEW ops \in SUBSET Ops
  PROVE  LET new == ApplyRegs(regs, ops)
         IN  /\ new \in RegTables
             /\ \A k \in RegKeys :
                  /\ \/ new[k] = regs[k]
                     \/ \E o \in ops : IsReg(o) /\ o.key = k /\ new[k] = RowOf(o)
                  /\ regs[k] # NoRow => new[k] # NoRow /\ ~Wins(regs[k], new[k])
                  /\ \A o \in ops : IsReg(o) /\ o.key = k =>
                       new[k] # NoRow /\ ~Wins(RowOf(o), new[k])
<1> DEFINE new == ApplyRegs(regs, ops)
           rows(k) == {RowOf(o) : o \in {p \in ops : IsReg(p) /\ p.key = k}}
<1>1. ASSUME NEW k \in RegKeys
      PROVE  /\ new[k] = MergeRegister(regs[k], rows(k))
             /\ regs[k] \in Rows
             /\ rows(k) \in SUBSET Rows
             /\ NoRow \notin rows(k)
  BY OpFields DEF ApplyRegs, RegTables
<1>2. new = [k \in RegKeys |-> new[k]]
  BY DEF ApplyRegs
<1>3. ASSUME NEW k \in RegKeys
      PROVE  /\ new[k] \in Rows
             /\ new[k] \in rows(k) \cup {regs[k]}
             /\ \A x \in rows(k) : ~Wins(x, new[k]) /\ new[k] # NoRow
             /\ regs[k] # NoRow => ~Wins(regs[k], new[k]) /\ new[k] # NoRow
  <2> HIDE DEF new, rows
  <2> QED BY <1>1, MergeRegisterLemma
<1>4. new \in RegTables
  BY <1>2, <1>3 DEF RegTables
<1> HIDE DEF new
<1>5. QED BY <1>3, <1>4 DEF new

\* applyToState on counters: each total is the old one or one of the ops',
\* and the largest of them.
LEMMA ApplyCtrsLemma ==
  ASSUME NEW ctrs \in CtrTables, NEW ops \in SUBSET Ops
  PROVE  LET new == ApplyCtrs(ctrs, ops)
         IN  /\ new \in CtrTables
             /\ \A k \in CtrKeys, a \in Actors :
                  /\ \/ new[k][a].pos = ctrs[k][a].pos
                     \/ \E o \in ops : /\ ~IsReg(o) /\ o.key = k /\ o.actor = a
                                       /\ new[k][a].pos = o.pos
                  /\ \/ new[k][a].neg = ctrs[k][a].neg
                     \/ \E o \in ops : /\ ~IsReg(o) /\ o.key = k /\ o.actor = a
                                       /\ new[k][a].neg = o.neg
                  /\ ctrs[k][a].pos <= new[k][a].pos
                  /\ ctrs[k][a].neg <= new[k][a].neg
                  /\ \A o \in ops : ~IsReg(o) /\ o.key = k /\ o.actor = a =>
                       o.pos <= new[k][a].pos /\ o.neg <= new[k][a].neg
<1> DEFINE new == ApplyCtrs(ctrs, ops)
           mine(k, a) == {p \in ops : ~IsReg(p) /\ p.key = k /\ p.actor = a}
           pairs(k, a) == {PairOf(o) : o \in mine(k, a)}
<1>1. ASSUME NEW k \in CtrKeys, NEW a \in Actors
      PROVE  /\ new[k][a] = MergeCounter(ctrs[k][a], pairs(k, a))
             /\ ctrs[k][a] \in Pairs
             /\ pairs(k, a) \in SUBSET Pairs
  BY OpFields DEF ApplyCtrs, CtrTables
<1>2. new = [k \in CtrKeys |-> [a \in Actors |-> new[k][a]]]
  BY DEF ApplyCtrs
<1>3. ASSUME NEW k \in CtrKeys, NEW a \in Actors
      PROVE  /\ new[k][a] \in Pairs
             /\ new[k][a].pos \in {p.pos : p \in pairs(k, a)} \cup {ctrs[k][a].pos}
             /\ new[k][a].neg \in {p.neg : p \in pairs(k, a)} \cup {ctrs[k][a].neg}
             /\ \A p \in pairs(k, a) \cup {ctrs[k][a]} :
                  p.pos <= new[k][a].pos /\ p.neg <= new[k][a].neg
  <2> HIDE DEF new, pairs
  <2> QED BY <1>1, MergeCounterLemma
<1>4. new \in CtrTables
  <2> HIDE DEF new
  <2> QED BY <1>2, <1>3 DEF CtrTables
<1>5. ASSUME NEW k \in CtrKeys, NEW a \in Actors, NEW o \in mine(k, a)
      PROVE  PairOf(o).pos = o.pos /\ PairOf(o).neg = o.neg /\ PairOf(o) \in pairs(k, a)
  BY DEF PairOf
<1> HIDE DEF new
<1>6. ASSUME NEW k \in CtrKeys, NEW a \in Actors
      PROVE  /\ \/ new[k][a].pos = ctrs[k][a].pos
                \/ \E o \in mine(k, a) : new[k][a].pos = o.pos
             /\ \/ new[k][a].neg = ctrs[k][a].neg
                \/ \E o \in mine(k, a) : new[k][a].neg = o.neg
             /\ ctrs[k][a].pos <= new[k][a].pos
             /\ ctrs[k][a].neg <= new[k][a].neg
             /\ \A o \in mine(k, a) : o.pos <= new[k][a].pos /\ o.neg <= new[k][a].neg
  BY <1>3, <1>5
<1>7. QED BY <1>4, <1>6 DEF new

\* clock.observe yields a clock within the bounds.
LEMMA ObserveType ==
  ASSUME NEW c \in Clocks, NEW s \in Clocks, NEW now \in 1..MaxWall
  PROVE  ObserveStamp(c, s, now) \in Clocks
BY ConstantsOK DEF ObserveStamp, Clocks, Walls

\* maxStamp returns the stamp of a register that none other exceeds.
LEMMA MaxStampLemma ==
  ASSUME NEW regs \in RegTables, RegKeys # {}
  PROVE  /\ MaxStamp(regs) \in {regs[k] : k \in RegKeys}
         /\ \A k \in RegKeys : ~StampLess(MaxStamp(regs), regs[k])
<1> DEFINE S == {regs[k] : k \in RegKeys}
<1>1. S \in SUBSET Rows /\ S # {}
  BY DEF RegTables
<1>2. PICK w \in S : \A x \in S : ~LastWriterWins(x, w)
  BY <1>1, LastWriterExists
<1>3. \A k \in RegKeys : ~StampLess(w, regs[k])
  BY <1>2 DEF LastWriterWins
<1> QED BY <1>3 DEF MaxStamp

\* Open yields a clock within the bounds.
LEMMA OpenedType ==
  ASSUME NEW r \in Actors, crdt_reg \in [Actors -> RegTables], NEW now \in 1..MaxWall
  PROVE  OpenedClock(r, now) \in Clocks
<1> DEFINE zero == [wall |-> 0, logical |-> 0]
           top == MaxStamp(crdt_reg[r])
<1>1. zero \in Clocks
  BY ConstantsOK DEF Clocks, Walls
<1>2. CASE \A k \in RegKeys : crdt_reg[r][k] = NoRow
  BY <1>1, <1>2 DEF OpenedClock
<1>3. CASE \E k \in RegKeys : crdt_reg[r][k] # NoRow
  <2>1. top \in Rows
    BY <1>3, MaxStampLemma DEF RegTables
  <2>2. StampOf(top) \in Clocks
    BY <2>1, ConstantsOK DEF StampOf, Rows, Clocks
  <2>3. ObserveStamp(zero, top, now) = ObserveStamp(zero, StampOf(top), now)
    BY DEF ObserveStamp, StampOf
  <2> QED BY <1>1, <1>3, <2>2, <2>3, ObserveType DEF OpenedClock
<1> QED BY <1>2, <1>3
-----------------------------------------------------------------------------
(***************************************************************************)
(* Types, and the invariant of the replicas.                               *)
(***************************************************************************)
\* The empty tables, the zero clock and the idle call have their types.
LEMMA EmptyTypes ==
  /\ NoVV \in VVs /\ NoRegs \in RegTables /\ NoCtrs \in CtrTables
  /\ NoCall \in CallStates
  /\ [wall |-> 0, logical |-> 0] \in Clocks
<1>1. NoVV \in VVs
  BY ConstantsOK DEF NoVV, VVs, Seqs
<1>2. NoRegs \in RegTables
  BY NoRowType DEF NoRegs, RegTables
<1>3. NoCtrs \in CtrTables
  BY ConstantsOK DEF NoCtrs, CtrTables, NoPair, Pairs, Totals
<1>4. NoCall \in CallStates
  BY <1>1, <1>2, <1>3, ConstantsOK DEF NoCall, CallStates, Actors
<1>5. [wall |-> 0, logical |-> 0] \in Clocks
  BY ConstantsOK DEF Clocks, Walls
<1> QED BY <1>1, <1>2, <1>3, <1>4, <1>5

\* The initial state is type-correct.
LEMMA TypeInit == Init => TypeOK
BY EmptyTypes DEF Init, TypeOK, NoPair

\* clock.tick yields a clock within the bounds.
LEMMA TickType ==
  ASSUME NEW c \in Clocks, NEW now \in 1..MaxWall, Tick(c, now).logical <= MaxLogical
  PROVE  Tick(c, now) \in Clocks
BY ConstantsOK DEF Tick, Clocks, Walls

\* A local mutation keeps the types.
LEMMA AppendType ==
  ASSUME TypeOK, NEW r \in Actors, NEW op \in Ops, AppendLocal(r, op),
         added' \in [Actors -> [CtrKeys -> [pos : Nat, neg : Nat]]]
  PROVE  TypeOK'
<1> USE DEF TypeOK
<1>1. crdt_op' \in [Actors -> SUBSET Ops]
  BY DEF AppendLocal
<1>2. crdt_reg' \in [Actors -> RegTables]
  BY ApplyRegsLemma DEF AppendLocal
<1>3. crdt_ctr' \in [Actors -> CtrTables]
  BY ApplyCtrsLemma DEF AppendLocal
<1>4. seq' \in [Actors -> VVs]
  BY OpFields DEF AppendLocal, VVs, Seqs
<1>5. clock' \in [Actors -> Clocks]
  BY OpFields DEF AppendLocal
<1>6. UNCHANGED <<floor, observing, call>> /\ issued' \in SUBSET Ops
  BY DEF AppendLocal
<1> QED BY <1>1, <1>2, <1>3, <1>4, <1>5, <1>6

\* What a local mutation appends is an op.
LEMMA NewOpType ==
  ASSUME TypeOK, NEW r \in Actors, NEW now \in 1..MaxWall, CanTick(r, now),
         NEW k \in RegKeys \cup CtrKeys, NEW kind \in {"set", "del", "inc"},
         NEW v \in Values, NEW p \in Pairs
  PROVE  NewOp(r, k, kind, v, p, Tick(clock[r], now)) \in Ops
<1>1. Tick(clock[r], now) \in Clocks
  BY TickType DEF TypeOK, CanTick
<1>2. seq[r][r] + 1 \in 1..MaxSeq
  <2>1. seq[r][r] \in Nat
    BY ConstantsOK DEF TypeOK, VVs, Seqs
  <2>2. Budget[r] \in 0..MaxSeq
    BY ConstantsOK DEF Actors
  <2> QED BY <2>1, <2>2, ConstantsOK DEF CanTick
<1> QED BY <1>1, <1>2 DEF NewOp, Ops, Clocks, Pairs

\* Every step keeps the types.
LEMMA TypeNext == TypeOK /\ [Next]_vars => TypeOK'
<1> SUFFICES ASSUME TypeOK, [Next]_vars PROVE TypeOK'
  OBVIOUS
<1> USE ConstantsOK
<1>p. NoPair \in Pairs /\ 0 \in Values
  BY DEF NoPair, Pairs, Totals, Values
<1>1. ASSUME NEW r \in Actors, NEW now \in 1..MaxWall, NEW k \in RegKeys,
             NEW v \in 1..MaxValue, Set(r, k, v, now)
      PROVE  TypeOK'
  <2>1. v \in Values
    BY DEF Values
  <2> QED BY <1>1, <1>p, <2>1, NewOpType, AppendType DEF Set, TypeOK
<1>2. ASSUME NEW r \in Actors, NEW now \in 1..MaxWall, NEW k \in RegKeys,
             Delete(r, k, now)
      PROVE  TypeOK'
  BY <1>2, <1>p, NewOpType, AppendType DEF Delete, TypeOK
<1>3. ASSUME NEW r \in Actors, NEW now \in 1..MaxWall, NEW k \in CtrKeys,
             NEW d \in {-1, 1}, Add(r, k, d, now)
      PROVE  TypeOK'
  <2>1. added' \in [Actors -> [CtrKeys -> [pos : Nat, neg : Nat]]]
    BY <1>3 DEF Add, Plus, TypeOK
  <2> QED BY <1>3, <1>p, <2>1, NewOpType, AppendType DEF Add
<1>4. ASSUME NEW r \in Actors, NEW now \in 1..MaxWall, LocalRollback(r, now)
      PROVE  TypeOK'
  BY <1>4, TickType DEF LocalRollback, CanTick, TypeOK, tables, history
<1>5. ASSUME NEW r \in Actors, NEW now \in 1..MaxWall, NEW s \in observing[r],
             Observe(r, s, now)
      PROVE  TypeOK'
  BY <1>5, ObserveType DEF Observe, TypeOK, tables, history
<1>6. ASSUME NEW r \in Actors, NEW now \in 1..MaxWall, Restart(r, now)
      PROVE  TypeOK'
  BY <1>6, OpenedType, EmptyTypes DEF Restart, TypeOK, tables, history
<1>7. ASSUME NEW r \in Actors, NEW keep \in 0..MaxSeq, Compact(r, keep)
      PROVE  TypeOK'
  <2>1. ASSUME NEW a \in Actors PROVE CompactedFloor(r, a, keep) \in Seqs
    <3>1. floor[r][a] \in Seqs /\ seq[r][a] \in Seqs
      BY DEF TypeOK, VVs
    <3>2. floor[r][a] \in Int /\ seq[r][a] - keep \in Int
      BY <3>1 DEF Seqs
    <3> DEFINE m == Max({floor[r][a], seq[r][a] - keep})
    <3>3. m \in {floor[r][a], seq[r][a] - keep} /\ floor[r][a] <= m
      BY <3>2, MaxOfTwo
    <3>4. m \in Seqs
      <4> HIDE DEF m
      <4> QED BY <3>1, <3>3 DEF Seqs
    <3> QED BY <3>4 DEF CompactedFloor
  <2>2. floor' \in [Actors -> VVs]
    BY <1>7, <2>1 DEF Compact, TypeOK, VVs
  <2>3. crdt_op' \in [Actors -> SUBSET Ops]
    BY <1>7 DEF Compact, TypeOK
  <2> QED BY <1>7, <2>2, <2>3 DEF Compact, TypeOK, history
<1>8. ASSUME NEW c \in Calls, NEW r \in Actors, NEW vv \in VVs, DeltaReadVV(c, r, vv)
      PROVE  TypeOK'
  <2>1. call' \in [Calls -> CallStates]
    <3> DEFINE todo == {a \in Actors : seq[r][a] > vv[a]}
               pv == [a \in Actors |-> IF a \in todo THEN vv[a] ELSE 0]
               new == [NoCall EXCEPT !.pc = "floors", !.at = r, !.todo = todo,
                                     !.peerVV = pv]
    <3>1. pv \in VVs
      BY DEF VVs, Seqs
    <3>2. todo \in SUBSET Actors OBVIOUS
    <3>3. call' = [call EXCEPT ![c] = new]
      BY <1>8 DEF DeltaReadVV
    <3> HIDE DEF todo, pv
    <3>4. new \in CallStates
      BY <3>1, <3>2, EmptyTypes DEF CallStates
    <3> HIDE DEF new
    <3> QED BY <3>3, <3>4 DEF TypeOK
  <2> QED BY <1>8, <2>1 DEF DeltaReadVV, TypeOK, tables, history
<1>9. ASSUME NEW c \in Calls, DeltaReadFloors(c) PROVE TypeOK'
  <2>1. call' \in [Calls -> CallStates]
    <3>1. call[c] \in CallStates /\ call \in [Calls -> CallStates]
      BY DEF TypeOK
    <3> DEFINE behind == [NoCall EXCEPT !.pc = "snapVV", !.at = call[c].at]
               level  == [call[c] EXCEPT !.pc = "ops"]
    <3>2. level \in CallStates
      BY <3>1 DEF CallStates
    <3>3. behind \in CallStates
      <4>1. NoCall \in CallStates /\ call[c].at \in Actors
        BY <3>1, EmptyTypes DEF CallStates
      <4> QED
        BY <4>1 DEF CallStates
    <3>4. call' = [call EXCEPT ![c] = behind] \/ call' = [call EXCEPT ![c] = level]
      BY <1>9 DEF DeltaReadFloors
    <3> HIDE DEF behind, level
    <3> QED
      BY <3>1, <3>2, <3>3, <3>4
  <2> QED BY <1>9, <2>1 DEF DeltaReadFloors, TypeOK, tables, history
<1>10. ASSUME NEW c \in Calls, DeltaReadOps(c) PROVE TypeOK'
  <2>1. call' \in [Calls -> CallStates]
    <3> DEFINE a == Min(call[c].todo)
               ops == call[c].ops \cup
                        OpsAfter(crdt_op[call[c].at], a, call[c].peerVV[a],
                                 DeltaLimit - Cardinality(call[c].ops))
               done == call[c].todo = {a} \/ Cardinality(ops) >= DeltaLimit
               last == [NoCall EXCEPT !.pc = "delta", !.ops = ops]
               more == [call[c] EXCEPT !.todo = call[c].todo \ {a}, !.ops = ops]
    <3>1. ops \in SUBSET Ops
      BY DEF OpsAfter, TypeOK, CallStates
    <3>2. call' = [call EXCEPT ![c] = IF done THEN last ELSE more]
      BY <1>10 DEF DeltaReadOps, TypeOK
    <3>3. call[c] \in CallStates
      BY DEF TypeOK
    <3> HIDE DEF a, ops, done
    <3>4. last \in CallStates
      BY <3>1, EmptyTypes DEF CallStates
    <3>5. more \in CallStates
      BY <3>1, <3>3 DEF CallStates
    <3> HIDE DEF last, more
    <3> QED BY <3>2, <3>4, <3>5 DEF TypeOK
  <2> QED BY <1>10, <2>1 DEF DeltaReadOps, TypeOK, tables, history
<1>11. ASSUME NEW c \in Calls, SnapshotReadVV(c) PROVE TypeOK'
  <2>1. call' \in [Calls -> CallStates]
    <3>1. call[c] \in CallStates /\ seq[call[c].at] \in VVs
      BY DEF TypeOK, CallStates
    <3>2. [call[c] EXCEPT !.pc = "snapRegs", !.vv = seq[call[c].at]] \in CallStates
      BY <3>1 DEF CallStates
    <3>3. call' = [call EXCEPT ![c] =
            [call[c] EXCEPT !.pc = "snapRegs", !.vv = seq[call[c].at]]]
      BY <1>11 DEF SnapshotReadVV, TypeOK
    <3> QED BY <3>2, <3>3 DEF TypeOK
  <2> QED BY <1>11, <2>1 DEF SnapshotReadVV, TypeOK, tables, history
<1>12. ASSUME NEW c \in Calls, SnapshotReadRegs(c) PROVE TypeOK'
  <2>1. call' \in [Calls -> CallStates]
    <3>1. call[c] \in CallStates /\ crdt_reg[call[c].at] \in RegTables
      BY DEF TypeOK, CallStates
    <3>2. [call[c] EXCEPT !.pc = "snapCtrs", !.regs = crdt_reg[call[c].at]]
            \in CallStates
      BY <3>1 DEF CallStates
    <3>3. call' = [call EXCEPT ![c] =
            [call[c] EXCEPT !.pc = "snapCtrs", !.regs = crdt_reg[call[c].at]]]
      BY <1>12 DEF SnapshotReadRegs, TypeOK
    <3> QED BY <3>2, <3>3 DEF TypeOK
  <2> QED BY <1>12, <2>1 DEF SnapshotReadRegs, TypeOK, tables, history
<1>13. ASSUME NEW c \in Calls, SnapshotReadCtrs(c) PROVE TypeOK'
  <2>1. call' \in [Calls -> CallStates]
    BY <1>13, EmptyTypes DEF SnapshotReadCtrs, TakenVV, TypeOK, CallStates
  <2> QED BY <1>13, <2>1 DEF SnapshotReadCtrs, TypeOK, tables, history
<1>14. ASSUME NEW c \in Calls, NEW r \in Actors, Merge(r, c) PROVE TypeOK'
  <2> DEFINE ops == call[c].ops
             log == InsertIfNew(crdt_op[r], ops)
  <2>1. ops \in SUBSET Ops
    BY DEF TypeOK, CallStates
  <2>2. log \in SUBSET Ops
    BY <2>1 DEF InsertIfNew, TypeOK
  <2>3. crdt_op' \in [Actors -> SUBSET Ops]
    BY <1>14, <2>2 DEF Merge, TypeOK
  <2>4. crdt_reg' \in [Actors -> RegTables]
    BY <1>14, <2>1, ApplyRegsLemma DEF Merge, TypeOK
  <2>5. crdt_ctr' \in [Actors -> CtrTables]
    BY <1>14, <2>1, ApplyCtrsLemma DEF Merge, TypeOK
  <2>6. seq' \in [Actors -> VVs]
    <3>1. ASSUME NEW a \in Actors
          PROVE  seq[r][a] \in Seqs /\ AdvanceContiguous(log, a, seq[r][a]) \in Seqs
      <4>1. seq[r][a] \in Seqs
        BY DEF TypeOK, VVs
      <4> QED BY <2>2, <4>1, AdvanceLemma
    <3> HIDE DEF log
    <3>2. seq' = [seq EXCEPT ![r] = [a \in Actors |->
                    IF \E o \in ops : o.actor = a
                    THEN AdvanceContiguous(log, a, seq[r][a])
                    ELSE seq[r][a]]]
      BY <1>14 DEF Merge, log
    <3> QED BY <3>1, <3>2 DEF TypeOK, VVs
  <2>7. observing' \in [Actors -> SUBSET Clocks]
    BY <1>14, <2>1, OpFields DEF Merge, TypeOK
  <2>8. UNCHANGED <<floor, clock, call, issued, added>>
    BY <1>14 DEF Merge, history
  <2> QED BY <2>3, <2>4, <2>5, <2>6, <2>7, <2>8 DEF TypeOK
<1>15. ASSUME NEW c \in Calls, NEW r \in Actors, ApplySnapshot(r, c) PROVE TypeOK'
  <2> DEFINE snap == call[c]
             newSeq(a) == Max({seq[r][a], snap.vv[a]})
             newFloor(a) == RaisedFloor(r, a, snap.vv)
             log == {o \in crdt_op[r] :
                       snap.vv[o.actor] = 0 \/ o.seq > newFloor(o.actor)}
  <2>1. snap.vv \in VVs /\ snap.regs \in RegTables /\ snap.ctrs \in CtrTables
    BY DEF TypeOK, CallStates
  <2>2. log \in SUBSET Ops
    BY DEF TypeOK
  <2>3. ASSUME NEW a \in Actors
        PROVE  seq[r][a] \in Seqs /\ newSeq(a) \in Seqs /\ newFloor(a) \in Seqs
    <3>1. seq[r][a] \in Seqs /\ floor[r][a] \in Seqs /\ snap.vv[a] \in Seqs
      BY <2>1 DEF TypeOK, VVs
    <3>2. ASSUME NEW x \in Seqs, NEW y \in Seqs PROVE Max({x, y}) \in Seqs
      <4>1. x \in Int /\ y \in Int
        BY DEF Seqs
      <4> QED BY <4>1, MaxOfTwo
    <3> QED BY <3>1, <3>2 DEF RaisedFloor
  <2>4. crdt_op' \in [Actors -> SUBSET Ops]
    BY <1>15, <2>2 DEF ApplySnapshot, TypeOK
  <2>5. crdt_reg' \in [Actors -> RegTables]
    <3>1. ASSUME NEW k \in RegKeys
          PROVE  MergeRegister(crdt_reg[r][k], {snap.regs[k]} \ {NoRow}) \in Rows
      <4>1. crdt_reg[r][k] \in Rows /\ {snap.regs[k]} \ {NoRow} \in SUBSET Rows
        BY <2>1 DEF TypeOK, RegTables
      <4> HIDE DEF snap
      <4> QED BY <4>1, MergeRegisterLemma
    <3> QED BY <1>15, <3>1 DEF ApplySnapshot, TypeOK, RegTables
  <2>6. crdt_ctr' \in [Actors -> CtrTables]
    <3>1. ASSUME NEW k \in CtrKeys, NEW a \in Actors
          PROVE  MergeCounter(crdt_ctr[r][k][a], {snap.ctrs[k][a]}) \in Pairs
      <4>1. crdt_ctr[r][k][a] \in Pairs /\ {snap.ctrs[k][a]} \in SUBSET Pairs
        BY <2>1 DEF TypeOK, CtrTables
      <4> HIDE DEF snap
      <4> QED BY <4>1, MergeCounterLemma
    <3> QED BY <1>15, <3>1 DEF ApplySnapshot, TypeOK, CtrTables
  <2>7. floor' \in [Actors -> VVs]
    BY <1>15, <2>3 DEF ApplySnapshot, TypeOK, VVs
  <2>8. seq' \in [Actors -> VVs]
    <3>1. ASSUME NEW a \in Actors PROVE AdvanceContiguous(log, a, newSeq(a)) \in Seqs
      BY <2>2, <2>3, AdvanceLemma
    <3>2. seq' = [seq EXCEPT ![r] = [a \in Actors |->
                    IF snap.vv[a] = 0 THEN seq[r][a]
                    ELSE AdvanceContiguous(log, a, newSeq(a))]]
      BY <1>15 DEF ApplySnapshot
    <3> HIDE DEF log, newSeq, snap
    <3> QED BY <2>3, <3>1, <3>2 DEF TypeOK, VVs
  <2>9. observing' \in [Actors -> SUBSET Clocks]
    <3>1. \A x \in SnapRows(snap) : StampOf(x) \in Clocks
      BY <2>1 DEF SnapRows, RegTables, Rows, StampOf, Clocks
    <3> QED BY <1>15, <3>1 DEF ApplySnapshot, TypeOK
  <2>10. UNCHANGED <<clock, call, issued, added>>
    BY <1>15 DEF ApplySnapshot, history
  <2> QED BY <2>4, <2>5, <2>6, <2>7, <2>8, <2>9, <2>10 DEF TypeOK
<1>16. ASSUME NEW c \in Calls, Forget(c) PROVE TypeOK'
  BY <1>16, EmptyTypes DEF Forget, TypeOK, tables, history
<1>17. CASE UNCHANGED vars
  BY <1>17 DEF vars, TypeOK
<1> QED
  BY <1>1, <1>2, <1>3, <1>4, <1>5, <1>6, <1>7, <1>8, <1>9, <1>10, <1>11, <1>12,
     <1>13, <1>14, <1>15, <1>16, <1>17 DEF Next

\* Every variable keeps its type in every reachable state.
THEOREM TypeCorrect == Spec => []TypeOK
BY TypeInit, TypeNext, PTL DEF Spec
-----------------------------------------------------------------------------
(* Coverage and Servable, through the inductive invariant ReplicaInv.      *)

RegsGrow(old, new) ==
  \A k \in RegKeys : old[k] # NoRow => new[k] # NoRow /\ ~Wins(old[k], new[k])

CtrsGrow(old, new) ==
  \A k \in CtrKeys, a \in Actors :
    old[k][a].pos <= new[k][a].pos /\ old[k][a].neg <= new[k][a].neg

\* An effect stays in the state when registers are only beaten and totals
\* only grow.
LEMMA InStateGrows ==
  ASSUME NEW regs \in RegTables, NEW regs2 \in RegTables, RegsGrow(regs, regs2),
         NEW ctrs \in CtrTables, NEW ctrs2 \in CtrTables, CtrsGrow(ctrs, ctrs2),
         NEW o \in Ops, o.key \in IF IsReg(o) THEN RegKeys ELSE CtrKeys,
         InState(regs, ctrs, o)
  PROVE  InState(regs2, ctrs2, o)
<1>1. CASE IsReg(o)
  <2>1. RowOf(o) \in Rows /\ regs[o.key] \in Rows /\ regs2[o.key] \in Rows
    BY <1>1, OpFields DEF RegTables
  <2>2. regs[o.key] # NoRow /\ ~Wins(RowOf(o), regs[o.key])
    BY <1>1 DEF InState
  <2>3. regs2[o.key] # NoRow /\ ~Wins(regs[o.key], regs2[o.key])
    BY <1>1, <2>2 DEF RegsGrow
  <2> QED BY <1>1, <2>1, <2>2, <2>3, NotWinsTransitive DEF InState
<1>2. CASE ~IsReg(o)
  <2>1. o.key \in CtrKeys /\ o.actor \in Actors
    BY <1>2, OpFields
  <2>2. ctrs[o.key][o.actor] \in Pairs /\ ctrs2[o.key][o.actor] \in Pairs
    BY <2>1 DEF CtrTables
  <2>3. /\ ctrs[o.key][o.actor].pos \in Int /\ ctrs2[o.key][o.actor].pos \in Int
        /\ ctrs[o.key][o.actor].neg \in Int /\ ctrs2[o.key][o.actor].neg \in Int
        /\ o.pos \in Int /\ o.neg \in Int
    BY <2>2, ConstantsOK DEF Pairs, Totals, Ops
  <2> QED BY <1>2, <2>1, <2>3 DEF InState, CtrsGrow
<1> QED BY <1>1, <1>2

\* What applyToState does to a box: nothing is lost, and every op gets in.
LEMMA ApplyGrows ==
  ASSUME NEW regs \in RegTables, NEW ctrs \in CtrTables, NEW ops \in SUBSET Ops,
         \A o \in ops : o.key \in IF IsReg(o) THEN RegKeys ELSE CtrKeys
  PROVE  /\ ApplyRegs(regs, ops) \in RegTables /\ ApplyCtrs(ctrs, ops) \in CtrTables
         /\ RegsGrow(regs, ApplyRegs(regs, ops))
         /\ CtrsGrow(ctrs, ApplyCtrs(ctrs, ops))
         /\ \A o \in ops : InState(ApplyRegs(regs, ops), ApplyCtrs(ctrs, ops), o)
<1>1. ApplyRegs(regs, ops) \in RegTables /\ RegsGrow(regs, ApplyRegs(regs, ops))
  BY ApplyRegsLemma DEF RegsGrow
<1>2. ApplyCtrs(ctrs, ops) \in CtrTables /\ CtrsGrow(ctrs, ApplyCtrs(ctrs, ops))
  BY ApplyCtrsLemma DEF CtrsGrow
<1>3. ASSUME NEW o \in ops
      PROVE  InState(ApplyRegs(regs, ops), ApplyCtrs(ctrs, ops), o)
  <2>1. CASE IsReg(o)
    BY <2>1, ApplyRegsLemma DEF InState
  <2>2. CASE ~IsReg(o)
    <3> DEFINE new == ApplyCtrs(ctrs, ops)
    <3>1. o.key \in CtrKeys /\ o.actor \in Actors
      BY <2>2, OpFields
    <3>2. o.pos <= new[o.key][o.actor].pos /\ o.neg <= new[o.key][o.actor].neg
      BY <2>2, <3>1, ApplyCtrsLemma
    <3>3. new[o.key][o.actor] \in Pairs
      BY <1>2, <3>1 DEF CtrTables
    <3>4. /\ new[o.key][o.actor].pos \in Int /\ new[o.key][o.actor].neg \in Int
          /\ o.pos \in Int /\ o.neg \in Int
      BY <3>3, ConstantsOK DEF Pairs, Totals, Ops
    <3> HIDE DEF new
    <3>5. new[o.key][o.actor].pos >= o.pos /\ new[o.key][o.actor].neg >= o.neg
      BY <3>2, <3>4
    <3> QED BY <2>2, <3>5 DEF InState, new
  <2> QED BY <2>1, <2>2
<1> QED BY <1>1, <1>2, <1>3

\* Version vectors and floors are sequence numbers.
LEMMA MetaFields ==
  ASSUME TypeOK, NEW r \in Actors, NEW a \in Actors
  PROVE  /\ seq[r][a] \in Nat /\ seq[r][a] \in Seqs
         /\ floor[r][a] \in Nat /\ floor[r][a] \in Seqs
<1>1. seq[r][a] \in Seqs /\ floor[r][a] \in Seqs
  BY DEF TypeOK, VVs
<1> QED BY <1>1, ConstantsOK DEF Seqs

\* So are the version vectors that calls carry.
LEMMA CallFields ==
  ASSUME TypeOK, NEW c \in Calls, NEW a \in Actors
  PROVE  call[c].at \in Actors /\ call[c].vv[a] \in Nat /\ call[c].vv[a] \in Seqs
<1>1. call[c] \in CallStates
  BY DEF TypeOK
<1>2. call[c].at \in Actors /\ call[c].vv[a] \in Seqs
  BY <1>1 DEF CallStates, VVs
<1> QED BY <1>2, ConstantsOK DEF Seqs

\* The invariant holds when nothing has happened yet.
LEMMA ReplicaInit == Init => ReplicaInv
<1> SUFFICES ASSUME Init PROVE ReplicaInv
  OBVIOUS
<1>1. TypeOK
  BY TypeInit
<1>2. IssuedOnce /\ LogApplied /\ Coverage /\ Servable
  BY DEF Init, IssuedOnce, LogApplied, Coverage, Servable
<1>3. VVBounded
  BY DEF Init, VVBounded, NoVV
<1>4. CallsSound
  BY DEF Init, CallsSound, CallSound, NoCall, NoVV
<1> QED BY <1>1, <1>2, <1>3, <1>4 DEF ReplicaInv

\* A step that changes no table and no history only has to keep calls sound.
LEMMA CallStep ==
  ASSUME ReplicaInv, TypeOK', UNCHANGED tables, UNCHANGED issued,
         \A c \in Calls : CallSound(call'[c])
  PROVE  ReplicaInv'
<1>1. UNCHANGED <<crdt_op, crdt_reg, crdt_ctr, seq, floor, issued>>
  BY DEF tables
<1>2. CallsSound'
  BY <1>1 DEF CallsSound, CallSound
<1>3. IssuedOnce' /\ VVBounded' /\ LogApplied' /\ Coverage' /\ Servable'
  BY <1>1 DEF ReplicaInv, IssuedOnce, VVBounded, LogApplied, Coverage, Servable
<1> QED BY <1>2, <1>3 DEF ReplicaInv

\* A slot without a call claims nothing.
LEMMA NoCallSound == ASSUME TypeOK PROVE CallSound(NoCall)
BY DEF CallSound, NoCall, NoVV, TypeOK, VVs, Seqs

\* The steps of the Delta calls, of the clock and of the network.
LEMMA ReplicaQuietStep ==
  ASSUME ReplicaInv, TypeOK',
         \/ \E r \in Actors, now \in 1..MaxWall :
              \/ LocalRollback(r, now)
              \/ \E s \in observing[r] : Observe(r, s, now)
              \/ Restart(r, now)
         \/ \E c \in Calls :
              \/ \E r \in Actors, vv \in VVs : DeltaReadVV(c, r, vv)
              \/ DeltaReadFloors(c)
              \/ DeltaReadOps(c)
              \/ SnapshotReadVV(c)
              \/ SnapshotReadRegs(c)
              \/ SnapshotReadCtrs(c)
              \/ Forget(c)
         \/ UNCHANGED vars
  PROVE  ReplicaInv'
<1> USE DEF ReplicaInv
<1>0. \A d \in Calls : CallSound(call[d])
  BY DEF CallsSound
<1>t. call \in [Calls -> CallStates] /\ CallSound(NoCall)
  BY NoCallSound DEF TypeOK
<1>c. ASSUME NEW c \in Calls, NEW new, call' = [call EXCEPT ![c] = new], CallSound(new),
             UNCHANGED <<tables, history>>
      PROVE  ReplicaInv'
  <2>1. \A d \in Calls : CallSound(call'[d])
    BY <1>0, <1>t, <1>c
  <2> QED BY <1>c, <2>1, CallStep DEF history
<1>1. ASSUME NEW r \in Actors, NEW now \in 1..MaxWall, LocalRollback(r, now)
      PROVE  ReplicaInv'
  BY <1>0, <1>1, CallStep DEF LocalRollback, history
<1>2. ASSUME NEW r \in Actors, NEW now \in 1..MaxWall, NEW s \in observing[r],
             Observe(r, s, now)
      PROVE  ReplicaInv'
  BY <1>0, <1>2, CallStep DEF Observe, history
<1>3. ASSUME NEW r \in Actors, NEW now \in 1..MaxWall, Restart(r, now)
      PROVE  ReplicaInv'
  <2>1. \A d \in Calls : call'[d] \in {NoCall, call[d]}
    BY <1>3 DEF Restart
  <2>2. \A d \in Calls : CallSound(call'[d])
    BY <1>0, <1>t, <2>1
  <2> QED BY <1>3, <2>2, CallStep DEF Restart, history
<1>4. ASSUME NEW c \in Calls, NEW r \in Actors, NEW vv \in VVs, DeltaReadVV(c, r, vv)
      PROVE  ReplicaInv'
  <2> DEFINE todo == {a \in Actors : seq[r][a] > vv[a]}
             pv == [a \in Actors |-> IF a \in todo THEN vv[a] ELSE 0]
             new == [NoCall EXCEPT !.pc = "floors", !.at = r, !.todo = todo,
                                   !.peerVV = pv]
  <2>1. call' = [call EXCEPT ![c] = new]
    BY <1>4 DEF DeltaReadVV
  <2> HIDE DEF todo, pv
  <2>2. new.pc = "floors" /\ new.ops = NoCall.ops /\ new.vv = NoCall.vv
    BY DEF NoCall
  <2> HIDE DEF new
  <2>3. CallSound(new)
    BY <1>t, <2>2 DEF CallSound
  <2> QED BY <1>4, <1>c, <2>1, <2>3 DEF DeltaReadVV
<1>5. ASSUME NEW c \in Calls, DeltaReadFloors(c) PROVE ReplicaInv'
  <2> DEFINE s == [NoCall EXCEPT !.pc = "snapVV", !.at = call[c].at]
             o == [call[c] EXCEPT !.pc = "ops"]
  <2>1. call' = [call EXCEPT ![c] = IF BehindFloor(c) THEN s ELSE o]
    BY <1>5 DEF DeltaReadFloors
  <2>2. s.pc = "snapVV" /\ s.ops = NoCall.ops /\ s.vv = NoCall.vv
    BY DEF NoCall
  <2>3. o.pc = "ops" /\ o.ops = call[c].ops /\ o.vv = call[c].vv
    BY <1>t DEF CallStates
  <2> HIDE DEF s, o
  <2>4. CallSound(s) /\ CallSound(o)
    BY <1>0, <1>t, <2>2, <2>3 DEF CallSound
  <2> QED BY <1>5, <1>c, <2>1, <2>4 DEF DeltaReadFloors
<1>6. ASSUME NEW c \in Calls, DeltaReadOps(c) PROVE ReplicaInv'
  <2> DEFINE a == Min(call[c].todo)
             ops == call[c].ops \cup
                      OpsAfter(crdt_op[call[c].at], a, call[c].peerVV[a],
                               DeltaLimit - Cardinality(call[c].ops))
             done == call[c].todo = {a} \/ Cardinality(ops) >= DeltaLimit
             last == [NoCall EXCEPT !.pc = "delta", !.ops = ops]
             more == [call[c] EXCEPT !.todo = call[c].todo \ {a}, !.ops = ops]
  <2>1. call' = [call EXCEPT ![c] = IF done THEN last ELSE more]
    BY <1>6 DEF DeltaReadOps
  <2>2. ops \subseteq issued
    <3>1. call[c].ops \subseteq issued /\ call[c].at \in Actors
      BY <1>0, <1>t DEF CallSound, CallStates
    <3>2. crdt_op[call[c].at] \subseteq issued
      BY <3>1 DEF LogApplied
    <3> QED BY <3>1, <3>2 DEF OpsAfter
  <2> HIDE DEF a, ops, done
  <2>3. last.pc = "delta" /\ last.ops = ops /\ last.vv = NoCall.vv
    BY DEF NoCall
  <2>4. more.pc = "ops" /\ more.ops = ops /\ more.vv = call[c].vv
    BY <1>6, <1>t DEF CallStates, DeltaReadOps
  <2> HIDE DEF last, more
  <2>5. CallSound(last) /\ CallSound(more)
    BY <1>0, <1>t, <2>2, <2>3, <2>4 DEF CallSound
  <2> QED BY <1>6, <1>c, <2>1, <2>5 DEF DeltaReadOps
<1>7. ASSUME NEW c \in Calls, SnapshotReadVV(c) PROVE ReplicaInv'
  <2> DEFINE new == [call[c] EXCEPT !.pc = "snapRegs", !.vv = seq[call[c].at]]
  <2>1. call' = [call EXCEPT ![c] = new]
    BY <1>7, <1>t DEF SnapshotReadVV
  <2>2. /\ new.pc = "snapRegs" /\ new.vv = seq[call[c].at] /\ new.ops = call[c].ops
        /\ new.at = call[c].at
    BY <1>t DEF CallStates
  <2>3. \A a \in Actors : seq[call[c].at][a] \in Nat /\ seq[call[c].at][a] <= seq[a][a]
    <3>1. call[c].at \in Actors
      BY <1>t DEF CallStates
    <3> QED BY <3>1, MetaFields DEF VVBounded
  <2> HIDE DEF new
  <2>4. CallSound(new)
    BY <1>0, <2>2, <2>3 DEF CallSound
  <2> QED BY <1>7, <1>c, <2>1, <2>4 DEF SnapshotReadVV
<1>8. ASSUME NEW c \in Calls, SnapshotReadRegs(c) PROVE ReplicaInv'
  <2> DEFINE at == call[c].at
             new == [call[c] EXCEPT !.pc = "snapCtrs", !.regs = crdt_reg[at]]
  <2>1. call' = [call EXCEPT ![c] = new]
    BY <1>8, <1>t DEF SnapshotReadRegs
  <2>2. /\ new.pc = "snapCtrs" /\ new.vv = call[c].vv /\ new.ops = call[c].ops
        /\ new.at = at /\ new.regs = crdt_reg[at] /\ at \in Actors
        /\ call[c].pc = "snapRegs"
    BY <1>8, <1>t DEF CallStates, SnapshotReadRegs
  <2>3. \A a \in Actors : call[c].vv[a] <= seq[at][a]
    BY <1>0, <2>2 DEF CallSound
  <2>4. ASSUME NEW o \in issued, IsReg(o), o.seq <= call[c].vv[o.actor]
        PROVE  InState(crdt_reg[at], new.ctrs, o)
    <3>1. o \in Ops /\ o.actor \in Actors /\ o.seq \in Nat
      BY OpFields DEF TypeOK
    <3>2. call[c].vv[o.actor] \in Nat /\ seq[at][o.actor] \in Nat
      BY <2>2, <3>1, CallFields, MetaFields
    <3>3. o.seq <= seq[at][o.actor]
      BY <2>3, <2>4, <3>1, <3>2
    <3>4. InState(crdt_reg[at], crdt_ctr[at], o)
      BY <2>2, <3>3 DEF Coverage
    <3> QED BY <2>4, <3>4 DEF InState
  <2> HIDE DEF new, at
  <2>5. CallSound(new)
    BY <1>0, <2>2, <2>3, <2>4 DEF CallSound
  <2> QED BY <1>8, <1>c, <2>1, <2>5 DEF SnapshotReadRegs
<1>9. ASSUME NEW c \in Calls, SnapshotReadCtrs(c) PROVE ReplicaInv'
  <2> DEFINE at == call[c].at
             new == [NoCall EXCEPT !.pc = "snapshot", !.vv = call[c].vv,
                       !.regs = call[c].regs, !.ctrs = crdt_ctr[at]]
  <2>1. call' = [call EXCEPT ![c] = new]
    BY <1>9 DEF SnapshotReadCtrs, TakenVV
  <2>2. /\ new.pc = "snapshot" /\ new.vv = call[c].vv /\ new.ops = NoCall.ops
        /\ new.regs = call[c].regs /\ new.ctrs = crdt_ctr[at]
    BY DEF NoCall
  <2>3. at \in Actors /\ call[c].pc = "snapCtrs"
    BY <1>9, <1>t DEF CallStates, SnapshotReadCtrs
  <2>4. \A a \in Actors : call[c].vv[a] <= seq[at][a]
    BY <1>0, <2>3 DEF CallSound
  <2>5. ASSUME NEW o \in issued, o.seq <= call[c].vv[o.actor]
        PROVE  InState(call[c].regs, crdt_ctr[at], o)
    <3>1. o \in Ops /\ o.actor \in Actors /\ o.seq \in Nat
      BY OpFields DEF TypeOK
    <3>2. call[c].vv[o.actor] \in Nat /\ seq[at][o.actor] \in Nat
      BY <2>3, <3>1, CallFields, MetaFields
    <3>3. o.seq <= seq[at][o.actor]
      BY <2>4, <2>5, <3>1, <3>2
    <3>4. InState(crdt_reg[at], crdt_ctr[at], o)
      BY <2>3, <3>3 DEF Coverage
    <3>5. IsReg(o) => InState(call[c].regs, call[c].ctrs, o)
      BY <1>0, <2>3, <2>5 DEF CallSound
    <3> QED BY <3>4, <3>5 DEF InState
  <2> HIDE DEF new, at
  <2>6. CallSound(new)
    BY <1>0, <1>t, <2>2, <2>5 DEF CallSound
  <2> QED BY <1>9, <1>c, <2>1, <2>6 DEF SnapshotReadCtrs
<1>10. ASSUME NEW c \in Calls, Forget(c) PROVE ReplicaInv'
  BY <1>10, <1>c, <1>t DEF Forget
<1>11. CASE UNCHANGED vars
  BY <1>0, <1>11, CallStep DEF vars, tables
<1> QED
  BY <1>1, <1>2, <1>3, <1>4, <1>5, <1>6, <1>7, <1>8, <1>9, <1>10, <1>11

\* Calls stay sound when version vectors only rise and the ops that appear
\* carry sequence numbers no version vector has reached.
LEMMA CallsStaySound ==
  ASSUME TypeOK, TypeOK', CallsSound, UNCHANGED call, issued \subseteq issued',
         \A r, a \in Actors : seq[r][a] <= seq'[r][a],
         \A o \in issued' \ issued : o.seq > seq[o.actor][o.actor]
  PROVE  CallsSound'
<1> SUFFICES ASSUME NEW c \in Calls PROVE CallSound(call[c])'
  BY DEF CallsSound
<1>0. CallSound(call[c]) /\ call'[c] = call[c]
  BY DEF CallsSound
<1>1. call[c].ops \subseteq issued'
  BY <1>0 DEF CallSound
<1>2. ASSUME NEW r \in Actors, NEW a \in Actors, call[c].vv[a] <= seq[r][a]
      PROVE  call[c].vv[a] <= seq'[r][a]
  <2>1. call[c].vv[a] \in Nat /\ seq[r][a] \in Nat
    BY CallFields, MetaFields
  <2>2. seq'[r][a] \in Nat
    BY ConstantsOK DEF TypeOK, VVs, Seqs
  <2> QED BY <1>2, <2>1, <2>2
<1>3. ASSUME NEW o \in issued', o.seq <= call[c].vv[o.actor] PROVE o \in issued
  <2>1. o.actor \in Actors /\ o.seq \in Nat
    BY OpFields DEF TypeOK
  <2>2. call[c].vv[o.actor] \in Nat /\ seq[o.actor][o.actor] \in Nat
    BY <2>1, CallFields, MetaFields
  <2>3. call[c].vv[o.actor] <= seq[o.actor][o.actor]
    BY <1>0, <2>1 DEF CallSound
  <2> QED BY <1>3, <2>1, <2>2, <2>3
<1>4. call[c].at \in Actors
  BY DEF TypeOK, CallStates
<1> QED BY <1>0, <1>1, <1>2, <1>3, <1>4 DEF CallSound

\* A local mutation keeps the invariant: its op takes the next sequence
\* number, and its effect is in the state with it.
LEMMA ReplicaAppend ==
  ASSUME ReplicaInv, TypeOK', NEW r \in Actors, NEW op \in Ops, AppendLocal(r, op),
         op.actor = r, op.seq = seq[r][r] + 1,
         op.key \in IF IsReg(op) THEN RegKeys ELSE CtrKeys
  PROVE  ReplicaInv'
<1> USE DEF ReplicaInv
<1>1. /\ seq' = [seq EXCEPT ![r][r] = op.seq]
      /\ issued' = issued \cup {op}
      /\ crdt_op' = [crdt_op EXCEPT ![r] = crdt_op[r] \cup {op}]
      /\ crdt_reg' = [crdt_reg EXCEPT ![r] = ApplyRegs(crdt_reg[r], {op})]
      /\ crdt_ctr' = [crdt_ctr EXCEPT ![r] = ApplyCtrs(crdt_ctr[r], {op})]
      /\ UNCHANGED <<floor, call>>
  BY DEF AppendLocal
<1>2. /\ \A s, a \in Actors : seq'[s][a] = IF s = r /\ a = r THEN op.seq ELSE seq[s][a]
      /\ \A s \in Actors : crdt_op'[s] = IF s = r THEN crdt_op[r] \cup {op} ELSE crdt_op[s]
      /\ \A s \in Actors \ {r} : crdt_reg'[s] = crdt_reg[s] /\ crdt_ctr'[s] = crdt_ctr[s]
      /\ crdt_reg'[r] = ApplyRegs(crdt_reg[r], {op})
      /\ crdt_ctr'[r] = ApplyCtrs(crdt_ctr[r], {op})
  BY <1>1 DEF TypeOK, VVs
<1>3. \A s, a \in Actors : seq[s][a] \in Nat /\ floor[s][a] \in Nat
  BY MetaFields
<1>4. \A o \in issued : /\ o \in Ops /\ o.actor \in Actors /\ o.seq \in Nat
                       /\ o.seq <= seq[o.actor][o.actor]
                       /\ o.key \in IF IsReg(o) THEN RegKeys ELSE CtrKeys
  BY OpFields DEF TypeOK, IssuedOnce
<1>5. /\ crdt_reg[r] \in RegTables /\ crdt_ctr[r] \in CtrTables
      /\ crdt_reg'[r] \in RegTables /\ crdt_ctr'[r] \in CtrTables
      /\ RegsGrow(crdt_reg[r], crdt_reg'[r]) /\ CtrsGrow(crdt_ctr[r], crdt_ctr'[r])
      /\ InState(crdt_reg'[r], crdt_ctr'[r], op)
  <2>1. crdt_reg[r] \in RegTables /\ crdt_ctr[r] \in CtrTables
    BY DEF TypeOK
  <2> QED BY <1>2, <2>1, ApplyGrows
<1>6. ASSUME NEW o \in issued, InState(crdt_reg[r], crdt_ctr[r], o)
      PROVE  InState(crdt_reg'[r], crdt_ctr'[r], o)
  BY <1>4, <1>5, <1>6, InStateGrows
<1>7. IssuedOnce'
  <2>1. ASSUME NEW o \in issued'
        PROVE  /\ o.seq <= seq'[o.actor][o.actor]
               /\ o.key \in IF IsReg(o) THEN RegKeys ELSE CtrKeys
    BY <1>1, <1>2, <1>3, <1>4
  <2>2. \A o \in issued : ~(o.actor = op.actor /\ o.seq = op.seq)
    BY <1>3, <1>4
  <2>3. \A o, q \in issued' : o.actor = q.actor /\ o.seq = q.seq => o = q
    BY <1>1, <2>2 DEF IssuedOnce
  <2> QED BY <2>1, <2>3 DEF IssuedOnce
<1>8. VVBounded'
  <2> SUFFICES ASSUME NEW s \in Actors, NEW a \in Actors
               PROVE  floor[s][a] <= seq'[s][a] /\ seq'[s][a] <= seq'[a][a]
    BY <1>1 DEF VVBounded
  <2>1. floor[s][a] <= seq[s][a] /\ seq[s][a] <= seq[a][a]
    BY DEF VVBounded
  <2>2. seq[s][a] \in Nat /\ seq[a][a] \in Nat /\ floor[s][a] \in Nat
    BY <1>3
  <2>3. /\ seq'[s][a] = IF s = r /\ a = r THEN seq[r][r] + 1 ELSE seq[s][a]
        /\ seq'[a][a] = IF a = r THEN seq[r][r] + 1 ELSE seq[a][a]
    BY <1>2
  <2> QED BY <2>1, <2>2, <2>3
<1>9. LogApplied'
  <2> SUFFICES ASSUME NEW s \in Actors, NEW o \in crdt_op'[s]
               PROVE  o \in issued' /\ InState(crdt_reg'[s], crdt_ctr'[s], o)
    BY DEF LogApplied
  <2>1. CASE s = r /\ o = op
    BY <1>1, <1>5, <2>1
  <2>2. CASE s = r /\ o # op
    <3>1. o \in crdt_op[r]
      BY <1>2, <2>2
    <3>2. o \in issued /\ InState(crdt_reg[r], crdt_ctr[r], o)
      BY <3>1 DEF LogApplied
    <3> QED BY <1>1, <1>6, <2>2, <3>2
  <2>3. CASE s # r
    <3>1. o \in crdt_op[s] /\ crdt_reg'[s] = crdt_reg[s] /\ crdt_ctr'[s] = crdt_ctr[s]
      BY <1>2, <2>3
    <3> QED BY <1>1, <3>1 DEF LogApplied
  <2> QED BY <2>1, <2>2, <2>3
<1>10. CallsSound'
  <2>1. \A s, a \in Actors : seq[s][a] <= seq'[s][a]
    BY <1>2, <1>3
  <2>2. \A o \in issued' \ issued : o.seq > seq[o.actor][o.actor]
    BY <1>1, <1>3
  <2> QED BY <1>1, <2>1, <2>2, CallsStaySound
<1>11. \A s \in Actors : s # r => seq[s][r] < op.seq
  BY <1>3 DEF VVBounded
<1>12. Coverage'
  <2> SUFFICES ASSUME NEW s \in Actors, NEW o \in issued', o.seq <= seq'[s][o.actor]
               PROVE  InState(crdt_reg'[s], crdt_ctr'[s], o)
    BY DEF Coverage
  <2>1. CASE o = op /\ s = r
    BY <1>5, <2>1
  <2>2. CASE o = op /\ s # r
    BY <1>2, <1>3, <1>11, <2>2
  <2>3. CASE o # op /\ s = r
    <3>1. o \in issued
      BY <1>1, <2>3
    <3>2. o.seq <= seq[r][o.actor]
      BY <1>2, <1>3, <1>4, <2>3, <3>1
    <3> QED BY <1>6, <2>3, <3>1, <3>2 DEF Coverage
  <2>4. CASE o # op /\ s # r
    BY <1>1, <1>2, <2>4 DEF Coverage
  <2> QED BY <2>1, <2>2, <2>3, <2>4
<1>13. Servable'
  <2> SUFFICES ASSUME NEW s \in Actors, NEW o \in issued',
                      floor[s][o.actor] < o.seq, o.seq <= seq'[s][o.actor]
               PROVE  o \in crdt_op'[s]
    BY <1>1 DEF Servable
  <2>1. CASE o = op /\ s = r
    BY <1>2, <2>1
  <2>2. CASE o = op /\ s # r
    BY <1>2, <1>3, <1>11, <2>2
  <2>3. CASE o # op
    <3>1. o \in issued
      BY <1>1, <2>3
    <3>2. o.seq <= seq[s][o.actor]
      BY <1>2, <1>3, <1>4, <3>1
    <3> QED BY <1>2, <3>1, <3>2 DEF Servable
  <2> QED BY <2>1, <2>2, <2>3
<1> QED BY <1>7, <1>8, <1>9, <1>10, <1>12, <1>13

\* A run of rows found in the log of a box is a run of issued ops.
LEMMA RunIssued ==
  ASSUME IssuedOnce, TypeOK, NEW log, log \subseteq issued, NEW a \in Actors,
         NEW cur \in Seqs
  PROVE  LET n == AdvanceContiguous(log, a, cur)
         IN  /\ n \in Nat /\ n \in Seqs /\ cur <= n
             /\ n > cur => n <= seq[a][a]
             /\ \A o \in issued : o.actor = a /\ cur < o.seq /\ o.seq <= n => o \in log
<1> DEFINE n == AdvanceContiguous(log, a, cur)
<1>1. log \in SUBSET Ops
  BY DEF TypeOK
<1>2. cur \in Nat
  BY ConstantsOK DEF Seqs
<1>3. n \in Seqs /\ n >= cur /\ \A i \in (cur + 1)..n : HasRow(log, a, i)
  BY <1>1, AdvanceLemma
<1>4. n \in Nat
  BY <1>3, ConstantsOK DEF Seqs
<1> HIDE DEF n
<1>5. ASSUME n > cur PROVE n <= seq[a][a]
  <2>1. HasRow(log, a, n)
    BY <1>2, <1>3, <1>4, <1>5
  <2>2. PICK o \in log : o.actor = a /\ o.seq = n
    BY <2>1 DEF HasRow
  <2> QED BY <2>2 DEF IssuedOnce
<1>6. ASSUME NEW o \in issued, o.actor = a, cur < o.seq, o.seq <= n PROVE o \in log
  <2>1. o.seq \in Nat
    BY OpFields DEF TypeOK
  <2>2. HasRow(log, a, o.seq)
    BY <1>2, <1>3, <1>4, <1>6, <2>1
  <2>3. PICK q \in log : q.actor = a /\ q.seq = o.seq
    BY <2>2 DEF HasRow
  <2> QED BY <1>6, <2>3 DEF IssuedOnce
<1>7. cur <= n
  BY <1>2, <1>3, <1>4
<1>8. QED BY <1>3, <1>4, <1>5, <1>6, <1>7 DEF n

\* Merge keeps the invariant: advanceContiguous only passes ops whose rows,
\* and so whose effects, are there.
LEMMA ReplicaMerge ==
  ASSUME ReplicaInv, TypeOK', NEW r \in Actors, NEW c \in Calls, Merge(r, c)
  PROVE  ReplicaInv'
<1> USE DEF ReplicaInv
<1> DEFINE ops == call[c].ops
           log == InsertIfNew(crdt_op[r], ops)
           run(a) == AdvanceContiguous(log, a, seq[r][a])
<1>1. /\ seq' = [seq EXCEPT ![r] = [a \in Actors |->
                   IF \E o \in ops : o.actor = a THEN run(a) ELSE seq[r][a]]]
      /\ crdt_op' = [crdt_op EXCEPT ![r] = log]
      /\ crdt_reg' = [crdt_reg EXCEPT ![r] = ApplyRegs(crdt_reg[r], ops)]
      /\ crdt_ctr' = [crdt_ctr EXCEPT ![r] = ApplyCtrs(crdt_ctr[r], ops)]
      /\ UNCHANGED <<floor, call, issued>>
  BY DEF Merge, history
<1>2. ops \subseteq issued /\ ops \in SUBSET Ops
  BY DEF CallsSound, CallSound, TypeOK
<1>3. /\ \A o \in issued : /\ o \in Ops /\ o.actor \in Actors /\ o.seq \in Nat
                           /\ o.key \in IF IsReg(o) THEN RegKeys ELSE CtrKeys
      /\ \A s, a \in Actors : /\ seq[s][a] \in Nat /\ seq[s][a] \in Seqs
                              /\ floor[s][a] \in Nat
  BY OpFields, MetaFields DEF TypeOK, IssuedOnce
<1>4. log \subseteq issued /\ crdt_op[r] \subseteq log /\ log \subseteq crdt_op[r] \cup ops
  BY <1>2 DEF InsertIfNew, LogApplied
<1> HIDE DEF log
<1>5. ASSUME NEW a \in Actors
      PROVE  /\ run(a) \in Nat /\ seq[r][a] <= run(a)
             /\ run(a) > seq[r][a] => run(a) <= seq[a][a]
             /\ \A o \in issued : o.actor = a /\ seq[r][a] < o.seq /\ o.seq <= run(a)
                                  => o \in log
  BY <1>3, <1>4, RunIssued
<1> HIDE DEF run, ops
<1>6. /\ \A s \in Actors \ {r} :
           /\ \A a \in Actors : seq'[s][a] = seq[s][a]
           /\ crdt_op'[s] = crdt_op[s] /\ crdt_reg'[s] = crdt_reg[s]
           /\ crdt_ctr'[s] = crdt_ctr[s]
      /\ \A a \in Actors : seq'[r][a] = run(a) \/ seq'[r][a] = seq[r][a]
      /\ crdt_op'[r] = log
      /\ crdt_reg'[r] = ApplyRegs(crdt_reg[r], ops)
      /\ crdt_ctr'[r] = ApplyCtrs(crdt_ctr[r], ops)
  BY <1>1 DEF TypeOK
<1>7. /\ crdt_reg[r] \in RegTables /\ crdt_ctr[r] \in CtrTables
      /\ crdt_reg'[r] \in RegTables /\ crdt_ctr'[r] \in CtrTables
      /\ RegsGrow(crdt_reg[r], crdt_reg'[r]) /\ CtrsGrow(crdt_ctr[r], crdt_ctr'[r])
      /\ \A o \in ops : InState(crdt_reg'[r], crdt_ctr'[r], o)
  <2>1. crdt_reg[r] \in RegTables /\ crdt_ctr[r] \in CtrTables
    BY DEF TypeOK
  <2> QED BY <1>2, <1>3, <1>6, <2>1, ApplyGrows
<1>8. ASSUME NEW o \in issued, InState(crdt_reg[r], crdt_ctr[r], o)
      PROVE  InState(crdt_reg'[r], crdt_ctr'[r], o)
  BY <1>3, <1>7, <1>8, InStateGrows
<1>9. \A o \in log : InState(crdt_reg'[r], crdt_ctr'[r], o)
  BY <1>4, <1>7, <1>8 DEF LogApplied
<1>10. \A s, a \in Actors : /\ seq'[s][a] \in Nat /\ seq[s][a] <= seq'[s][a]
                             /\ seq'[s][a] <= seq[a][a]
  <2> TAKE s, a \in Actors
  <2>1. seq[s][a] \in Nat /\ seq[a][a] \in Nat /\ seq[s][a] <= seq[a][a]
    BY <1>3 DEF VVBounded
  <2>2. CASE s = r
    BY <1>5, <1>6, <2>1, <2>2
  <2>3. CASE s # r
    BY <1>6, <2>1, <2>3
  <2> QED BY <2>2, <2>3
<1>11. \A a \in Actors : seq'[a][a] = seq[a][a]
  BY <1>3, <1>10
<1>12. IssuedOnce'
  BY <1>1, <1>3, <1>11 DEF IssuedOnce
<1>13. VVBounded'
  <2> SUFFICES ASSUME NEW s \in Actors, NEW a \in Actors
               PROVE  floor[s][a] <= seq'[s][a] /\ seq'[s][a] <= seq'[a][a]
    BY <1>1 DEF VVBounded
  <2>1. floor[s][a] <= seq[s][a] /\ floor[s][a] \in Nat /\ seq[s][a] \in Nat
    BY <1>3 DEF VVBounded
  <2> QED BY <1>10, <1>11, <2>1
<1>14. LogApplied'
  BY <1>1, <1>4, <1>6, <1>9 DEF LogApplied
<1>15. CallsSound'
  BY <1>1, <1>10, CallsStaySound
<1>16. ASSUME NEW o \in issued, seq[r][o.actor] < o.seq, o.seq <= seq'[r][o.actor]
       PROVE  o \in log
  BY <1>3, <1>5, <1>6, <1>16
<1>17. Coverage'
  <2> SUFFICES ASSUME NEW s \in Actors, NEW o \in issued, o.seq <= seq'[s][o.actor]
               PROVE  InState(crdt_reg'[s], crdt_ctr'[s], o)
    BY <1>1 DEF Coverage
  <2>1. CASE s # r
    BY <1>3, <1>6, <2>1 DEF Coverage
  <2>2. CASE s = r /\ o.seq <= seq[r][o.actor]
    BY <1>8, <2>2 DEF Coverage
  <2>3. CASE s = r /\ seq[r][o.actor] < o.seq
    BY <1>9, <1>16, <2>3
  <2> QED BY <1>3, <2>1, <2>2, <2>3
<1>18. Servable'
  <2> SUFFICES ASSUME NEW s \in Actors, NEW o \in issued,
                      floor[s][o.actor] < o.seq, o.seq <= seq'[s][o.actor]
               PROVE  o \in crdt_op'[s]
    BY <1>1 DEF Servable
  <2>1. CASE s # r
    BY <1>3, <1>6, <2>1 DEF Servable
  <2>2. CASE s = r /\ o.seq <= seq[r][o.actor]
    BY <1>4, <1>6, <2>2 DEF Servable
  <2>3. CASE s = r /\ seq[r][o.actor] < o.seq
    BY <1>6, <1>16, <2>3
  <2> QED BY <1>3, <2>1, <2>2, <2>3
<1> QED BY <1>12, <1>13, <1>14, <1>15, <1>17, <1>18

\* What ApplySnapshot does to the state of a box: neither the box's own rows
\* nor the snapshot's are lost.
LEMMA SnapshotGrows ==
  ASSUME TypeOK, NEW r \in Actors, NEW c \in Calls, ApplySnapshot(r, c)
  PROVE  /\ RegsGrow(crdt_reg[r], crdt_reg'[r]) /\ RegsGrow(call[c].regs, crdt_reg'[r])
         /\ CtrsGrow(crdt_ctr[r], crdt_ctr'[r]) /\ CtrsGrow(call[c].ctrs, crdt_ctr'[r])
<1> DEFINE regs == call[c].regs
           ctrs == call[c].ctrs
<1>0. /\ regs \in RegTables /\ ctrs \in CtrTables
      /\ crdt_reg[r] \in RegTables /\ crdt_ctr[r] \in CtrTables
  BY DEF TypeOK, CallStates
<1>1. /\ \A k \in RegKeys :
           crdt_reg'[r][k] = MergeRegister(crdt_reg[r][k], {regs[k]} \ {NoRow})
      /\ \A k \in CtrKeys, a \in Actors :
           crdt_ctr'[r][k][a] = MergeCounter(crdt_ctr[r][k][a], {ctrs[k][a]})
  BY DEF ApplySnapshot, TypeOK
<1> HIDE DEF regs, ctrs
<1>2. ASSUME NEW k \in RegKeys
      PROVE  /\ crdt_reg[r][k] # NoRow =>
                  crdt_reg'[r][k] # NoRow /\ ~Wins(crdt_reg[r][k], crdt_reg'[r][k])
             /\ regs[k] # NoRow =>
                  crdt_reg'[r][k] # NoRow /\ ~Wins(regs[k], crdt_reg'[r][k])
  <2>1. crdt_reg[r][k] \in Rows /\ {regs[k]} \ {NoRow} \in SUBSET Rows
    BY <1>0 DEF RegTables
  <2> DEFINE cur == crdt_reg[r][k]
             rows == {regs[k]} \ {NoRow}
             m == MergeRegister(cur, rows)
  <2>2. NoRow \notin rows /\ (regs[k] # NoRow => regs[k] \in rows)
    OBVIOUS
  <2> HIDE DEF cur, rows
  <2>3. /\ \A x \in rows : ~Wins(x, m) /\ m # NoRow
        /\ cur # NoRow => ~Wins(cur, m) /\ m # NoRow
    BY <2>1, <2>2, MergeRegisterLemma DEF cur, rows
  <2>4. crdt_reg'[r][k] = m
    BY <1>1 DEF cur, rows
  <2> HIDE DEF m
  <2> QED BY <2>2, <2>3, <2>4 DEF cur
<1>3. ASSUME NEW k \in CtrKeys, NEW a \in Actors
      PROVE  /\ crdt_ctr[r][k][a].pos <= crdt_ctr'[r][k][a].pos
             /\ crdt_ctr[r][k][a].neg <= crdt_ctr'[r][k][a].neg
             /\ ctrs[k][a].pos <= crdt_ctr'[r][k][a].pos
             /\ ctrs[k][a].neg <= crdt_ctr'[r][k][a].neg
  <2>1. crdt_ctr[r][k][a] \in Pairs /\ {ctrs[k][a]} \in SUBSET Pairs
    BY <1>0 DEF CtrTables
  <2> DEFINE m == MergeCounter(crdt_ctr[r][k][a], {ctrs[k][a]})
  <2>2. \A p \in {ctrs[k][a]} \cup {crdt_ctr[r][k][a]} : p.pos <= m.pos /\ p.neg <= m.neg
    BY <2>1, MergeCounterLemma
  <2>3. crdt_ctr'[r][k][a] = m
    BY <1>1
  <2> HIDE DEF m
  <2> QED BY <2>2, <2>3
<1> QED BY <1>2, <1>3 DEF RegsGrow, CtrsGrow, regs, ctrs

\* Installing a snapshot: what its version vector claims, its state holds, and
\* the rows that never reached this log are below the raised floor.
LEMMA ReplicaSnapshot ==
  ASSUME ReplicaInv, TypeOK', NEW r \in Actors, NEW c \in Calls, ApplySnapshot(r, c)
  PROVE  ReplicaInv'
<1> USE DEF ReplicaInv
<1> DEFINE vv == call[c].vv
           newSeq(a) == Max({seq[r][a], vv[a]})
           newFloor(a) == Max({floor[r][a], vv[a]})
           log == {o \in crdt_op[r] : vv[o.actor] = 0 \/ o.seq > newFloor(o.actor)}
           run(a) == AdvanceContiguous(log, a, newSeq(a))
<1>1. /\ seq' = [seq EXCEPT ![r] = [a \in Actors |->
                   IF vv[a] = 0 THEN seq[r][a] ELSE run(a)]]
      /\ floor' = [floor EXCEPT ![r] = [a \in Actors |-> newFloor(a)]]
      /\ crdt_op' = [crdt_op EXCEPT ![r] = log]
      /\ UNCHANGED <<call, issued>>
  BY DEF ApplySnapshot, RaisedFloor, history
<1>2. \A s \in Actors \ {r} : crdt_reg'[s] = crdt_reg[s] /\ crdt_ctr'[s] = crdt_ctr[s]
  BY DEF ApplySnapshot, TypeOK
<1>3. /\ \A o \in issued : /\ o \in Ops /\ o.actor \in Actors /\ o.seq \in Nat
                           /\ o.key \in IF IsReg(o) THEN RegKeys ELSE CtrKeys
      /\ \A s, a \in Actors : /\ seq[s][a] \in Nat /\ seq[s][a] \in Seqs
                              /\ floor[s][a] \in Nat
      /\ \A a \in Actors : vv[a] \in Nat /\ vv[a] \in Seqs
  BY OpFields, MetaFields, CallFields DEF TypeOK, IssuedOnce
<1>4. /\ \A a \in Actors : vv[a] <= seq[a][a]
      /\ \A o \in issued : o.seq <= vv[o.actor] =>
           InState(call[c].regs, call[c].ctrs, o)
  BY DEF ApplySnapshot, CallsSound, CallSound
<1>5. log \subseteq crdt_op[r] /\ log \subseteq issued
  BY DEF LogApplied
<1>6. \A o \in crdt_op[r] : o \in log <=> vv[o.actor] = 0 \/ o.seq > newFloor(o.actor)
  OBVIOUS
<1>7. ASSUME NEW a \in Actors
      PROVE  /\ newSeq(a) \in Seqs /\ newSeq(a) \in Nat /\ newFloor(a) \in Nat
             /\ newSeq(a) \in {seq[r][a], vv[a]} /\ newFloor(a) \in {floor[r][a], vv[a]}
             /\ seq[r][a] <= newSeq(a) /\ vv[a] <= newSeq(a)
             /\ floor[r][a] <= newFloor(a) /\ vv[a] <= newFloor(a)
  <2>1. /\ seq[r][a] \in Nat /\ seq[r][a] \in Seqs /\ floor[r][a] \in Nat
        /\ vv[a] \in Nat /\ vv[a] \in Seqs
    BY <1>3
  <2>i. seq[r][a] \in Int /\ floor[r][a] \in Int /\ vv[a] \in Int
    BY <2>1
  <2> HIDE DEF vv
  <2>2. /\ newSeq(a) \in {seq[r][a], vv[a]}
        /\ seq[r][a] <= newSeq(a) /\ vv[a] <= newSeq(a)
    BY <2>i, MaxOfTwo
  <2>3. /\ newFloor(a) \in {floor[r][a], vv[a]}
        /\ floor[r][a] <= newFloor(a) /\ vv[a] <= newFloor(a)
    BY <2>i, MaxOfTwo
  <2> HIDE DEF newSeq, newFloor
  <2> QED BY <2>1, <2>2, <2>3
<1> HIDE DEF log, newSeq, newFloor, vv
<1>8. ASSUME NEW a \in Actors
      PROVE  /\ run(a) \in Nat /\ newSeq(a) <= run(a)
             /\ run(a) > newSeq(a) => run(a) <= seq[a][a]
             /\ \A o \in issued : o.actor = a /\ newSeq(a) < o.seq /\ o.seq <= run(a)
                                  => o \in log
  BY <1>5, <1>7, RunIssued
<1> HIDE DEF run
<1>9. /\ \A s \in Actors \ {r} :
           /\ \A a \in Actors : seq'[s][a] = seq[s][a] /\ floor'[s][a] = floor[s][a]
           /\ crdt_op'[s] = crdt_op[s]
      /\ \A a \in Actors : /\ seq'[r][a] = IF vv[a] = 0 THEN seq[r][a] ELSE run(a)
                           /\ floor'[r][a] = newFloor(a)
      /\ crdt_op'[r] = log
  BY <1>1 DEF TypeOK, VVs
<1>10. /\ crdt_reg[r] \in RegTables /\ crdt_ctr[r] \in CtrTables
       /\ crdt_reg'[r] \in RegTables /\ crdt_ctr'[r] \in CtrTables
       /\ call[c].regs \in RegTables /\ call[c].ctrs \in CtrTables
  BY DEF TypeOK, CallStates
<1>11. ASSUME NEW o \in issued,
              \/ InState(crdt_reg[r], crdt_ctr[r], o)
              \/ InState(call[c].regs, call[c].ctrs, o)
       PROVE  InState(crdt_reg'[r], crdt_ctr'[r], o)
  BY <1>3, <1>10, <1>11, SnapshotGrows, InStateGrows
<1>12. \A s, a \in Actors : /\ seq'[s][a] \in Nat /\ seq[s][a] <= seq'[s][a]
                             /\ seq'[s][a] <= seq[a][a]
  <2> TAKE s, a \in Actors
  <2>1. seq[s][a] \in Nat /\ seq[a][a] \in Nat /\ seq[s][a] <= seq[a][a]
    BY <1>3 DEF VVBounded
  <2>2. CASE s = r
    BY <1>3, <1>4, <1>7, <1>8, <1>9, <2>1, <2>2
  <2>3. CASE s # r
    BY <1>9, <2>1, <2>3
  <2> QED BY <2>2, <2>3
<1>13. \A a \in Actors : seq'[a][a] = seq[a][a]
  BY <1>3, <1>12
<1>14. IssuedOnce'
  BY <1>1, <1>3, <1>13 DEF IssuedOnce
<1>15. VVBounded'
  <2> SUFFICES ASSUME NEW s \in Actors, NEW a \in Actors
               PROVE  floor'[s][a] <= seq'[s][a] /\ seq'[s][a] <= seq'[a][a]
    BY DEF VVBounded
  <2>1. floor[s][a] <= seq[s][a] /\ floor[s][a] \in Nat /\ seq[s][a] \in Nat
    BY <1>3 DEF VVBounded
  <2>2. CASE s # r
    BY <1>9, <1>12, <1>13, <2>1, <2>2
  <2>3. CASE s = r /\ vv[a] = 0
    BY <1>3, <1>7, <1>9, <1>12, <1>13, <2>1, <2>3
  <2>4. CASE s = r /\ vv[a] # 0
    BY <1>3, <1>7, <1>8, <1>9, <1>12, <1>13, <2>1, <2>4
  <2> QED BY <2>2, <2>3, <2>4
<1>16. LogApplied'
  <2> SUFFICES ASSUME NEW s \in Actors, NEW o \in crdt_op'[s]
               PROVE  o \in issued /\ InState(crdt_reg'[s], crdt_ctr'[s], o)
    BY <1>1 DEF LogApplied
  <2>1. CASE s = r
    <3>1. o \in issued /\ InState(crdt_reg[r], crdt_ctr[r], o)
      BY <1>5, <1>9, <2>1 DEF LogApplied
    <3> QED BY <1>11, <2>1, <3>1
  <2>2. CASE s # r
    BY <1>2, <1>9, <2>2 DEF LogApplied
  <2> QED BY <2>1, <2>2
<1>17. CallsSound'
  BY <1>1, <1>12, CallsStaySound
<1>18. ASSUME NEW o \in issued, newSeq(o.actor) < o.seq, o.seq <= seq'[r][o.actor]
       PROVE  o \in log
  <2>1. o.actor \in Actors /\ o.seq \in Nat
    BY <1>3
  <2>2. seq'[r][o.actor] = run(o.actor)
    BY <1>3, <1>7, <1>9, <1>12, <1>18, <2>1
  <2> QED BY <1>8, <1>18, <2>1, <2>2
<1>19. Coverage'
  <2> SUFFICES ASSUME NEW s \in Actors, NEW o \in issued, o.seq <= seq'[s][o.actor]
               PROVE  InState(crdt_reg'[s], crdt_ctr'[s], o)
    BY <1>1 DEF Coverage
  <2>0. o.actor \in Actors /\ o.seq \in Nat
    BY <1>3
  <2>1. CASE s # r
    BY <1>2, <1>9, <2>0, <2>1 DEF Coverage
  <2>2. CASE s = r /\ o.seq <= seq[r][o.actor]
    BY <1>11, <2>2 DEF Coverage
  <2>3. CASE s = r /\ o.seq <= vv[o.actor]
    BY <1>4, <1>11, <2>3
  <2>4. CASE s = r /\ newSeq(o.actor) < o.seq
    <3>1. o \in crdt_op[r]
      BY <1>5, <1>18, <2>4
    <3> QED BY <1>11, <2>4, <3>1 DEF LogApplied
  <2>5. \/ o.seq <= seq[r][o.actor] \/ o.seq <= vv[o.actor] \/ newSeq(o.actor) < o.seq
    BY <1>3, <1>7, <2>0
  <2> QED BY <2>1, <2>2, <2>3, <2>4, <2>5
<1>20. Servable'
  <2> SUFFICES ASSUME NEW s \in Actors, NEW o \in issued,
                      floor'[s][o.actor] < o.seq, o.seq <= seq'[s][o.actor]
               PROVE  o \in crdt_op'[s]
    BY <1>1 DEF Servable
  <2>0. o.actor \in Actors /\ o.seq \in Nat
    BY <1>3
  <2>1. CASE s # r
    BY <1>9, <2>0, <2>1 DEF Servable
  <2>2. CASE s = r /\ o.seq <= newSeq(o.actor)
    <3>1. newFloor(o.actor) < o.seq
      BY <1>9, <2>0, <2>2
    <3>2. o.seq <= seq[r][o.actor] /\ floor[r][o.actor] < o.seq
      BY <1>3, <1>7, <2>0, <2>2, <3>1
    <3>3. o \in crdt_op[r]
      BY <3>2 DEF Servable
    <3>4. o.seq > newFloor(o.actor)
      BY <1>7, <2>0, <3>1
    <3> QED BY <1>6, <1>9, <2>2, <3>3, <3>4
  <2>3. CASE s = r /\ newSeq(o.actor) < o.seq
    BY <1>9, <1>18, <2>3
  <2>4. o.seq <= newSeq(o.actor) \/ newSeq(o.actor) < o.seq
    BY <1>7, <2>0
  <2> QED BY <2>1, <2>2, <2>3, <2>4
<1> QED BY <1>14, <1>15, <1>16, <1>17, <1>19, <1>20

\* Compaction: the rows deleted are at or below the new floor, and the floor
\* never passes the version vector.
LEMMA ReplicaCompact ==
  ASSUME ReplicaInv, TypeOK', NEW r \in Actors, NEW keep \in 0..MaxSeq, Compact(r, keep)
  PROVE  ReplicaInv'
<1> USE DEF ReplicaInv
<1> DEFINE newFloor(a) == Max({floor[r][a], seq[r][a] - keep})
           log == {o \in crdt_op[r] : \/ o.seq > newFloor(o.actor)
                                      \/ newFloor(o.actor) = floor[r][o.actor]}
<1>1. /\ floor' = [floor EXCEPT ![r] = [a \in Actors |-> newFloor(a)]]
      /\ crdt_op' = [crdt_op EXCEPT ![r] = log]
      /\ UNCHANGED <<crdt_reg, crdt_ctr, seq, call, issued>>
  BY DEF Compact, CompactedFloor, history
<1>2. /\ \A o \in issued : o \in Ops /\ o.actor \in Actors /\ o.seq \in Nat
      /\ \A s, a \in Actors : seq[s][a] \in Nat /\ floor[s][a] \in Nat
  BY OpFields, MetaFields DEF TypeOK
<1>3. ASSUME NEW a \in Actors
      PROVE  /\ newFloor(a) \in Int /\ floor[r][a] <= newFloor(a)
             /\ newFloor(a) <= seq[r][a]
  <2>1. keep \in Nat /\ seq[r][a] - keep \in Int /\ floor[r][a] \in Int
    BY <1>2, ConstantsOK
  <2>2. /\ newFloor(a) \in {floor[r][a], seq[r][a] - keep}
        /\ floor[r][a] <= newFloor(a)
    BY <2>1, MaxOfTwo
  <2>3. floor[r][a] <= seq[r][a]
    BY DEF VVBounded
  <2> HIDE DEF newFloor
  <2> QED BY <1>2, <2>1, <2>2, <2>3
<1>4. log \subseteq crdt_op[r] /\ \A o \in crdt_op[r] : o.seq > newFloor(o.actor) => o \in log
  OBVIOUS
<1> HIDE DEF log, newFloor
<1>5. /\ \A s \in Actors \ {r} :
           crdt_op'[s] = crdt_op[s] /\ \A a \in Actors : floor'[s][a] = floor[s][a]
      /\ crdt_op'[r] = log
      /\ \A a \in Actors : floor'[r][a] = newFloor(a)
  BY <1>1 DEF TypeOK, VVs
<1>6. IssuedOnce' /\ Coverage'
  BY <1>1 DEF IssuedOnce, Coverage
<1>7. VVBounded'
  <2> SUFFICES ASSUME NEW s \in Actors, NEW a \in Actors
               PROVE  floor'[s][a] <= seq[s][a] /\ seq[s][a] <= seq[a][a]
    BY <1>1 DEF VVBounded
  <2> QED BY <1>3, <1>5 DEF VVBounded
<1>8. LogApplied'
  <2> SUFFICES ASSUME NEW s \in Actors, NEW o \in crdt_op'[s]
               PROVE  o \in issued /\ InState(crdt_reg[s], crdt_ctr[s], o)
    BY <1>1 DEF LogApplied
  <2>1. o \in crdt_op[s]
    BY <1>4, <1>5
  <2> QED BY <2>1 DEF LogApplied
<1>9. CallsSound'
  BY <1>1 DEF CallsSound, CallSound
<1>10. Servable'
  <2> SUFFICES ASSUME NEW s \in Actors, NEW o \in issued,
                      floor'[s][o.actor] < o.seq, o.seq <= seq[s][o.actor]
               PROVE  o \in crdt_op'[s]
    BY <1>1 DEF Servable
  <2>0. o.actor \in Actors /\ o.seq \in Nat
    BY <1>2
  <2>1. CASE s # r
    BY <1>5, <2>0, <2>1 DEF Servable
  <2>2. CASE s = r
    <3>1. newFloor(o.actor) < o.seq /\ newFloor(o.actor) \in Int
          /\ floor[r][o.actor] <= newFloor(o.actor)
      BY <1>3, <1>5, <2>0, <2>2
    <3>2. floor[r][o.actor] < o.seq /\ o.seq > newFloor(o.actor)
      BY <1>2, <2>0, <3>1
    <3>3. o \in crdt_op[r]
      BY <2>2, <3>2 DEF Servable
    <3> QED BY <1>4, <1>5, <2>2, <3>2, <3>3
  <2> QED BY <2>1, <2>2
<1> QED BY <1>6, <1>7, <1>8, <1>9, <1>10

\* Every step preserves the inductive invariant.
LEMMA ReplicaNext == ReplicaInv /\ [Next]_vars => ReplicaInv'
<1> SUFFICES ASSUME ReplicaInv, [Next]_vars PROVE ReplicaInv'
  OBVIOUS
<1>0. TypeOK /\ TypeOK'
  BY TypeNext DEF ReplicaInv
<1>1. ASSUME NEW r \in Actors, NEW now \in 1..MaxWall, NEW k \in RegKeys,
             NEW v \in 1..MaxValue, Set(r, k, v, now)
      PROVE  ReplicaInv'
  <2> DEFINE op == NewOp(r, k, "set", v, NoPair, Tick(clock[r], now))
  <2>1. op \in Ops /\ AppendLocal(r, op)
    <3>1. v \in Values /\ NoPair \in Pairs
      BY ConstantsOK DEF Values, NoPair, Pairs, Totals
    <3> QED BY <1>0, <1>1, <3>1, NewOpType DEF Set
  <2>2. op.actor = r /\ op.seq = seq[r][r] + 1 /\ op.key = k /\ op.kind = "set"
    BY DEF NewOp
  <2> HIDE DEF op
  <2> QED BY <1>0, <2>1, <2>2, ReplicaAppend DEF IsReg
<1>2. ASSUME NEW r \in Actors, NEW now \in 1..MaxWall, NEW k \in RegKeys,
             Delete(r, k, now)
      PROVE  ReplicaInv'
  <2> DEFINE op == NewOp(r, k, "del", 0, NoPair, Tick(clock[r], now))
  <2>1. op \in Ops /\ AppendLocal(r, op)
    <3>1. 0 \in Values /\ NoPair \in Pairs
      BY ConstantsOK DEF Values, NoPair, Pairs, Totals
    <3> QED BY <1>0, <1>2, <3>1, NewOpType DEF Delete
  <2>2. op.actor = r /\ op.seq = seq[r][r] + 1 /\ op.key = k /\ op.kind = "del"
    BY DEF NewOp
  <2> HIDE DEF op
  <2> QED BY <1>0, <2>1, <2>2, ReplicaAppend DEF IsReg
<1>3. ASSUME NEW r \in Actors, NEW now \in 1..MaxWall, NEW k \in CtrKeys,
             NEW d \in {-1, 1}, Add(r, k, d, now)
      PROVE  ReplicaInv'
  <2> DEFINE op == NewOp(r, k, "inc", 0, NewTotals(r, k, d), Tick(clock[r], now))
  <2>1. op \in Ops /\ AppendLocal(r, op)
    <3>1. 0 \in Values /\ NewTotals(r, k, d) \in Pairs
      BY <1>3, ConstantsOK DEF Values, Add
    <3> QED BY <1>0, <1>3, <3>1, NewOpType DEF Add
  <2>2. op.actor = r /\ op.seq = seq[r][r] + 1 /\ op.key = k /\ op.kind = "inc"
    BY DEF NewOp
  <2> HIDE DEF op
  <2> QED BY <1>0, <2>1, <2>2, ReplicaAppend DEF IsReg
<1>4. ASSUME NEW r \in Actors, NEW keep \in 0..MaxSeq, Compact(r, keep)
      PROVE  ReplicaInv'
  BY <1>0, <1>4, ReplicaCompact
<1>5. ASSUME NEW c \in Calls, NEW r \in Actors, Merge(r, c) PROVE ReplicaInv'
  BY <1>0, <1>5, ReplicaMerge
<1>6. ASSUME NEW c \in Calls, NEW r \in Actors, ApplySnapshot(r, c) PROVE ReplicaInv'
  BY <1>0, <1>6, ReplicaSnapshot
<1> QED BY <1>0, <1>1, <1>2, <1>3, <1>4, <1>5, <1>6, ReplicaQuietStep DEF Next

\* Every reachable state satisfies the inductive invariant.
THEOREM ReplicaInvariant == Spec => []ReplicaInv
BY ReplicaInit, ReplicaNext, PTL DEF Spec

\* A version vector never claims an op whose effect the box does not hold.
THEOREM CoverageHolds == Spec => []Coverage
<1>1. ReplicaInv => Coverage
  BY DEF ReplicaInv
<1> QED BY <1>1, ReplicaInvariant, PTL

\* What lies between the floor and the version vector is still in the log.
THEOREM ServableHolds == Spec => []Servable
<1>1. ReplicaInv => Servable
  BY DEF ReplicaInv
<1> QED BY <1>1, ReplicaInvariant, PTL
-----------------------------------------------------------------------------
(* Convergence: nothing is invented and no counter runs ahead              *)

\* Nothing is invented in the initial state: there are no rows.
LEMMA InventedInit == Init => NothingInvented
BY DEF Init, NothingInvented, RowsFrom, NoRegs, NoCall

\* applyToState keeps the old row or installs the row of an op it was given.
LEMMA ApplyInventsNothing ==
  ASSUME NEW regs \in RegTables, NEW all, RowsFrom(regs, all),
         NEW ops \in SUBSET Ops, ops \subseteq all
  PROVE  RowsFrom(ApplyRegs(regs, ops), all)
<1> DEFINE new == ApplyRegs(regs, ops)
<1>1. ASSUME NEW k \in RegKeys
      PROVE  \/ new[k] = regs[k]
             \/ \E o \in ops : IsReg(o) /\ o.key = k /\ new[k] = RowOf(o)
  BY ApplyRegsLemma
<1> HIDE DEF new
<1>2. RowsFrom(new, all)
  BY <1>1 DEF RowsFrom
<1> QED BY <1>2 DEF new

\* The same for the merge of a snapshot's rows.
LEMMA SnapshotInventsNothing ==
  ASSUME TypeOK, NothingInvented, NEW r \in Actors, NEW c \in Calls, ApplySnapshot(r, c)
  PROVE  RowsFrom(crdt_reg'[r], issued)
<1> DEFINE regs == call[c].regs
<1> SUFFICES ASSUME NEW k \in RegKeys, crdt_reg'[r][k] # NoRow
             PROVE  \E o \in issued : IsReg(o) /\ o.key = k /\ RowOf(o) = crdt_reg'[r][k]
  BY DEF RowsFrom
<1>1. crdt_reg'[r][k] = MergeRegister(crdt_reg[r][k], {regs[k]} \ {NoRow})
  BY DEF ApplySnapshot, TypeOK
<1>2. crdt_reg[r][k] \in Rows /\ regs[k] \in Rows
  BY DEF TypeOK, CallStates, RegTables
<1>3. RowsFrom(crdt_reg[r], issued) /\ RowsFrom(regs, issued)
  BY DEF NothingInvented
<1> HIDE DEF regs
<1>4. crdt_reg'[r][k] \in {regs[k], crdt_reg[r][k]}
  <2> DEFINE rows == {regs[k]} \ {NoRow}
  <2>1. rows \in SUBSET Rows /\ NoRow \notin rows /\ rows \subseteq {regs[k]}
    BY <1>2
  <2>2. crdt_reg'[r][k] = MergeRegister(crdt_reg[r][k], rows)
    BY <1>1
  <2> HIDE DEF rows
  <2>3. MergeRegister(crdt_reg[r][k], rows) \in rows \cup {crdt_reg[r][k]}
    BY <1>2, <2>1, MergeRegisterLemma
  <2> QED BY <2>1, <2>2, <2>3
<1> QED BY <1>3, <1>4 DEF RowsFrom

\* The registers a Delta call carries after a step: its own, none, or those of
\* the box that executes it.
LEMMA CallRegs ==
  ASSUME TypeOK, [Next]_vars, NEW c \in Calls
  PROVE  \/ call'[c].regs \in {call[c].regs, NoRegs}
         \/ \E r \in Actors : call'[c].regs = crdt_reg[r]
<1> USE DEF TypeOK
<1>t. call \in [Calls -> CallStates]
  OBVIOUS
<1>n. NoCall.regs = NoRegs
  BY DEF NoCall
<1>1. ASSUME NEW r \in Actors, NEW now \in 1..MaxWall, Restart(r, now)
      PROVE  call'[c] \in {call[c], NoCall}
  BY <1>1 DEF Restart
<1>2. ASSUME NEW d \in Calls, NEW r \in Actors, NEW vv \in VVs, DeltaReadVV(d, r, vv)
      PROVE  call'[c].regs \in {call[c].regs, NoRegs}
  <2> DEFINE todo == {a \in Actors : seq[r][a] > vv[a]}
             pv == [a \in Actors |-> IF a \in todo THEN vv[a] ELSE 0]
             new == [NoCall EXCEPT !.pc = "floors", !.at = r, !.todo = todo,
                                   !.peerVV = pv]
  <2>1. call' = [call EXCEPT ![d] = new]
    BY <1>2 DEF DeltaReadVV
  <2> HIDE DEF todo, pv
  <2>2. new.regs = NoRegs
    BY DEF NoCall
  <2> HIDE DEF new
  <2> QED BY <1>t, <2>1, <2>2
<1>3. ASSUME NEW d \in Calls, DeltaReadFloors(d)
      PROVE  call'[c].regs \in {call[c].regs, NoRegs}
  BY <1>t, <1>3 DEF DeltaReadFloors, NoCall, CallStates
<1>4. ASSUME NEW d \in Calls, DeltaReadOps(d)
      PROVE  call'[c].regs \in {call[c].regs, NoRegs}
  <2> DEFINE a == Min(call[d].todo)
             ops == call[d].ops \cup
                      OpsAfter(crdt_op[call[d].at], a, call[d].peerVV[a],
                               DeltaLimit - Cardinality(call[d].ops))
             done == call[d].todo = {a} \/ Cardinality(ops) >= DeltaLimit
             last == [NoCall EXCEPT !.pc = "delta", !.ops = ops]
             more == [call[d] EXCEPT !.todo = call[d].todo \ {a}, !.ops = ops]
  <2>1. call' = [call EXCEPT ![d] = IF done THEN last ELSE more]
    BY <1>4 DEF DeltaReadOps
  <2> HIDE DEF a, ops, done
  <2>2. last.regs = NoRegs /\ more.regs = call[d].regs
    BY <1>t DEF NoCall, CallStates
  <2> HIDE DEF last, more
  <2> QED BY <1>t, <2>1, <2>2
<1>5. ASSUME NEW d \in Calls, SnapshotReadVV(d) PROVE call'[c].regs = call[c].regs
  BY <1>t, <1>5 DEF SnapshotReadVV, CallStates
<1>6. ASSUME NEW d \in Calls, SnapshotReadRegs(d)
      PROVE  call'[c].regs \in {call[c].regs, crdt_reg[call[d].at]} /\ call[d].at \in Actors
  BY <1>t, <1>6 DEF SnapshotReadRegs, CallStates
<1>7. ASSUME NEW d \in Calls, SnapshotReadCtrs(d) PROVE call'[c].regs = call[c].regs
  BY <1>t, <1>7 DEF SnapshotReadCtrs, NoCall
<1>8. ASSUME NEW d \in Calls, Forget(d) PROVE call'[c] \in {call[c], NoCall}
  BY <1>t, <1>8 DEF Forget
<1>9. ASSUME UNCHANGED call PROVE call'[c].regs = call[c].regs
  BY <1>9
<1>10. ASSUME NEW r \in Actors, NEW now \in 1..MaxWall,
              \/ \E k \in RegKeys, v \in 1..MaxValue : Set(r, k, v, now)
              \/ \E k \in RegKeys : Delete(r, k, now)
              \/ \E k \in CtrKeys, d \in {-1, 1} : Add(r, k, d, now)
              \/ LocalRollback(r, now)
              \/ \E s \in observing[r] : Observe(r, s, now)
       PROVE  UNCHANGED call
  BY <1>10 DEF Set, Delete, Add, AppendLocal, LocalRollback, Observe
<1>11. ASSUME NEW r \in Actors, NEW keep \in 0..MaxSeq, Compact(r, keep)
       PROVE  UNCHANGED call
  BY <1>11 DEF Compact
<1>12. ASSUME NEW r \in Actors, NEW d \in Calls, Merge(r, d) \/ ApplySnapshot(r, d)
       PROVE  UNCHANGED call
  BY <1>12 DEF Merge, ApplySnapshot
<1>13. CASE UNCHANGED vars
  BY <1>13 DEF vars
<1>14. CASE \E r \in Actors, now \in 1..MaxWall :
              \/ \E k \in RegKeys, v \in 1..MaxValue : Set(r, k, v, now)
              \/ \E k \in RegKeys : Delete(r, k, now)
              \/ \E k \in CtrKeys, d \in {-1, 1} : Add(r, k, d, now)
              \/ LocalRollback(r, now)
              \/ \E s \in observing[r] : Observe(r, s, now)
              \/ Restart(r, now)
  BY <1>n, <1>1, <1>9, <1>10, <1>14
<1>15. CASE \E r \in Actors, keep \in 0..MaxSeq : Compact(r, keep)
  BY <1>9, <1>11, <1>15
<1>16. ASSUME NEW d \in Calls,
              \/ \E r \in Actors, vv \in VVs : DeltaReadVV(d, r, vv)
              \/ DeltaReadFloors(d)
              \/ DeltaReadOps(d)
              \/ SnapshotReadVV(d)
              \/ SnapshotReadRegs(d)
              \/ SnapshotReadCtrs(d)
              \/ \E r \in Actors : Merge(r, d)
              \/ \E r \in Actors : ApplySnapshot(r, d)
              \/ Forget(d)
       PROVE  \/ call'[c].regs \in {call[c].regs, NoRegs}
              \/ \E r \in Actors : call'[c].regs = crdt_reg[r]
  BY <1>n, <1>2, <1>3, <1>4, <1>5, <1>6, <1>7, <1>8, <1>9, <1>12, <1>16
<1> QED BY <1>13, <1>14, <1>15, <1>16 DEF Next

\* The same for the counters of a Delta call.
LEMMA CallCtrs ==
  ASSUME TypeOK, [Next]_vars, NEW c \in Calls
  PROVE  \/ call'[c].ctrs \in {call[c].ctrs, NoCtrs}
         \/ \E r \in Actors : call'[c].ctrs = crdt_ctr[r]
<1> USE DEF TypeOK
<1>t. call \in [Calls -> CallStates]
  OBVIOUS
<1>n. NoCall.ctrs = NoCtrs
  BY DEF NoCall
<1>1. ASSUME NEW r \in Actors, NEW now \in 1..MaxWall, Restart(r, now)
      PROVE  call'[c] \in {call[c], NoCall}
  BY <1>1 DEF Restart
<1>2. ASSUME NEW d \in Calls, NEW r \in Actors, NEW vv \in VVs, DeltaReadVV(d, r, vv)
      PROVE  call'[c].ctrs \in {call[c].ctrs, NoCtrs}
  <2> DEFINE todo == {a \in Actors : seq[r][a] > vv[a]}
             pv == [a \in Actors |-> IF a \in todo THEN vv[a] ELSE 0]
             new == [NoCall EXCEPT !.pc = "floors", !.at = r, !.todo = todo,
                                   !.peerVV = pv]
  <2>1. call' = [call EXCEPT ![d] = new]
    BY <1>2 DEF DeltaReadVV
  <2> HIDE DEF todo, pv
  <2>2. new.ctrs = NoCtrs
    BY DEF NoCall
  <2> HIDE DEF new
  <2> QED BY <1>t, <2>1, <2>2
<1>3. ASSUME NEW d \in Calls, DeltaReadFloors(d)
      PROVE  call'[c].ctrs \in {call[c].ctrs, NoCtrs}
  BY <1>t, <1>3 DEF DeltaReadFloors, NoCall, CallStates
<1>4. ASSUME NEW d \in Calls, DeltaReadOps(d)
      PROVE  call'[c].ctrs \in {call[c].ctrs, NoCtrs}
  <2> DEFINE a == Min(call[d].todo)
             ops == call[d].ops \cup
                      OpsAfter(crdt_op[call[d].at], a, call[d].peerVV[a],
                               DeltaLimit - Cardinality(call[d].ops))
             done == call[d].todo = {a} \/ Cardinality(ops) >= DeltaLimit
             last == [NoCall EXCEPT !.pc = "delta", !.ops = ops]
             more == [call[d] EXCEPT !.todo = call[d].todo \ {a}, !.ops = ops]
  <2>1. call' = [call EXCEPT ![d] = IF done THEN last ELSE more]
    BY <1>4 DEF DeltaReadOps
  <2> HIDE DEF a, ops, done
  <2>2. last.ctrs = NoCtrs /\ more.ctrs = call[d].ctrs
    BY <1>t DEF NoCall, CallStates
  <2> HIDE DEF last, more
  <2> QED BY <1>t, <2>1, <2>2
<1>5. ASSUME NEW d \in Calls, SnapshotReadVV(d) PROVE call'[c].ctrs = call[c].ctrs
  BY <1>t, <1>5 DEF SnapshotReadVV, CallStates
<1>6. ASSUME NEW d \in Calls, SnapshotReadRegs(d) PROVE call'[c].ctrs = call[c].ctrs
  BY <1>t, <1>6 DEF SnapshotReadRegs, CallStates
<1>7. ASSUME NEW d \in Calls, SnapshotReadCtrs(d)
      PROVE  call'[c].ctrs \in {call[c].ctrs, crdt_ctr[call[d].at]} /\ call[d].at \in Actors
  BY <1>t, <1>7 DEF SnapshotReadCtrs, NoCall, CallStates
<1>8. ASSUME NEW d \in Calls, Forget(d) PROVE call'[c] \in {call[c], NoCall}
  BY <1>t, <1>8 DEF Forget
<1>9. ASSUME UNCHANGED call PROVE call'[c].ctrs = call[c].ctrs
  BY <1>9
<1>10. ASSUME NEW r \in Actors, NEW now \in 1..MaxWall,
              \/ \E k \in RegKeys, v \in 1..MaxValue : Set(r, k, v, now)
              \/ \E k \in RegKeys : Delete(r, k, now)
              \/ \E k \in CtrKeys, d \in {-1, 1} : Add(r, k, d, now)
              \/ LocalRollback(r, now)
              \/ \E s \in observing[r] : Observe(r, s, now)
       PROVE  UNCHANGED call
  BY <1>10 DEF Set, Delete, Add, AppendLocal, LocalRollback, Observe
<1>11. ASSUME NEW r \in Actors, NEW keep \in 0..MaxSeq, Compact(r, keep)
       PROVE  UNCHANGED call
  BY <1>11 DEF Compact
<1>12. ASSUME NEW r \in Actors, NEW d \in Calls, Merge(r, d) \/ ApplySnapshot(r, d)
       PROVE  UNCHANGED call
  BY <1>12 DEF Merge, ApplySnapshot
<1>13. CASE UNCHANGED vars
  BY <1>13 DEF vars
<1>14. CASE \E r \in Actors, now \in 1..MaxWall :
              \/ \E k \in RegKeys, v \in 1..MaxValue : Set(r, k, v, now)
              \/ \E k \in RegKeys : Delete(r, k, now)
              \/ \E k \in CtrKeys, d \in {-1, 1} : Add(r, k, d, now)
              \/ LocalRollback(r, now)
              \/ \E s \in observing[r] : Observe(r, s, now)
              \/ Restart(r, now)
  BY <1>n, <1>1, <1>9, <1>10, <1>14
<1>15. CASE \E r \in Actors, keep \in 0..MaxSeq : Compact(r, keep)
  BY <1>9, <1>11, <1>15
<1>16. ASSUME NEW d \in Calls,
              \/ \E r \in Actors, vv \in VVs : DeltaReadVV(d, r, vv)
              \/ DeltaReadFloors(d)
              \/ DeltaReadOps(d)
              \/ SnapshotReadVV(d)
              \/ SnapshotReadRegs(d)
              \/ SnapshotReadCtrs(d)
              \/ \E r \in Actors : Merge(r, d)
              \/ \E r \in Actors : ApplySnapshot(r, d)
              \/ Forget(d)
       PROVE  \/ call'[c].ctrs \in {call[c].ctrs, NoCtrs}
              \/ \E r \in Actors : call'[c].ctrs = crdt_ctr[r]
  BY <1>n, <1>2, <1>3, <1>4, <1>5, <1>6, <1>7, <1>8, <1>9, <1>12, <1>16
<1> QED BY <1>13, <1>14, <1>15, <1>16 DEF Next

\* The steps by what they do to the tables.
LEMMA StepKinds ==
  ASSUME TypeOK, [Next]_vars
  PROVE  \/ \E r \in Actors, op \in Ops :
              AppendLocal(r, op) /\ IsReg(op) /\ UNCHANGED added
         \/ \E r \in Actors, now \in 1..MaxWall, k \in CtrKeys, d \in {-1, 1} :
              Add(r, k, d, now)
         \/ \E r \in Actors, keep \in 0..MaxSeq : Compact(r, keep)
         \/ \E r \in Actors, c \in Calls : Merge(r, c)
         \/ \E r \in Actors, c \in Calls : ApplySnapshot(r, c)
         \/ UNCHANGED <<tables, history>>
<1>1. ASSUME NEW r \in Actors, NEW now \in 1..MaxWall, NEW k \in RegKeys,
             NEW v \in 1..MaxValue, Set(r, k, v, now)
      PROVE  \E op \in Ops : AppendLocal(r, op) /\ IsReg(op) /\ UNCHANGED added
  <2> DEFINE op == NewOp(r, k, "set", v, NoPair, Tick(clock[r], now))
  <2>1. v \in Values /\ NoPair \in Pairs
    BY ConstantsOK DEF Values, NoPair, Pairs, Totals
  <2>2. op \in Ops /\ AppendLocal(r, op) /\ UNCHANGED added
    BY <1>1, <2>1, NewOpType DEF Set
  <2>3. IsReg(op)
    BY DEF NewOp, IsReg
  <2> QED BY <2>2, <2>3
<1>2. ASSUME NEW r \in Actors, NEW now \in 1..MaxWall, NEW k \in RegKeys,
             Delete(r, k, now)
      PROVE  \E op \in Ops : AppendLocal(r, op) /\ IsReg(op) /\ UNCHANGED added
  <2> DEFINE op == NewOp(r, k, "del", 0, NoPair, Tick(clock[r], now))
  <2>1. 0 \in Values /\ NoPair \in Pairs
    BY ConstantsOK DEF Values, NoPair, Pairs, Totals
  <2>2. op \in Ops /\ AppendLocal(r, op) /\ UNCHANGED added
    BY <1>2, <2>1, NewOpType DEF Delete
  <2>3. IsReg(op)
    BY DEF NewOp, IsReg
  <2> QED BY <2>2, <2>3
<1>3. ASSUME NEW r \in Actors, NEW now \in 1..MaxWall,
             \/ LocalRollback(r, now)
             \/ \E s \in observing[r] : Observe(r, s, now)
             \/ Restart(r, now)
      PROVE  UNCHANGED <<tables, history>>
  BY <1>3 DEF LocalRollback, Observe, Restart
<1>4. ASSUME NEW c \in Calls,
             \/ \E r \in Actors, vv \in VVs : DeltaReadVV(c, r, vv)
             \/ DeltaReadFloors(c)
             \/ DeltaReadOps(c)
             \/ SnapshotReadVV(c)
             \/ SnapshotReadRegs(c)
             \/ SnapshotReadCtrs(c)
             \/ Forget(c)
      PROVE  UNCHANGED <<tables, history>>
  BY <1>4 DEF DeltaReadVV, DeltaReadFloors, DeltaReadOps, SnapshotReadVV,
              SnapshotReadRegs, SnapshotReadCtrs, Forget
<1>5. CASE UNCHANGED vars
  BY <1>5 DEF vars, tables, history
<1> QED BY <1>1, <1>2, <1>3, <1>4, <1>5 DEF Next

\* No step puts a row into a table or a snapshot that no op carries.
LEMMA InventedNext ==
  ASSUME ReplicaInv, NothingInvented, [Next]_vars
  PROVE  NothingInvented'
<1> USE DEF ReplicaInv
<1>0. \A s \in Actors : crdt_reg[s] \in RegTables /\ RowsFrom(crdt_reg[s], issued)
  BY DEF TypeOK, NothingInvented
<1>1. ASSUME NEW r \in Actors, NEW op, AppendLocal(r, op)
      PROVE  /\ issued \subseteq issued'
             /\ \A s \in Actors : RowsFrom(crdt_reg'[s], issued')
  <2>1. /\ issued' = issued \cup {op}
        /\ \A s \in Actors \ {r} : crdt_reg'[s] = crdt_reg[s]
        /\ crdt_reg'[r] = ApplyRegs(crdt_reg[r], {op})
    BY <1>1 DEF AppendLocal, TypeOK
  <2>2. {op} \in SUBSET Ops
    BY <2>1, TypeNext DEF TypeOK
  <2>3. \A s \in Actors : RowsFrom(crdt_reg[s], issued')
    BY <1>0, <2>1 DEF RowsFrom
  <2>4. RowsFrom(crdt_reg'[r], issued')
    BY <1>0, <2>1, <2>2, <2>3, ApplyInventsNothing
  <2> QED BY <2>1, <2>3, <2>4
<1>2. ASSUME NEW r \in Actors, NEW c \in Calls, Merge(r, c)
      PROVE  issued' = issued /\ \A s \in Actors : RowsFrom(crdt_reg'[s], issued')
  <2>1. /\ issued' = issued
        /\ \A s \in Actors \ {r} : crdt_reg'[s] = crdt_reg[s]
        /\ crdt_reg'[r] = ApplyRegs(crdt_reg[r], call[c].ops)
    BY <1>2 DEF Merge, TypeOK, history
  <2>2. call[c].ops \subseteq issued /\ call[c].ops \in SUBSET Ops
    BY DEF CallsSound, CallSound, TypeOK
  <2>3. RowsFrom(crdt_reg'[r], issued)
    BY <1>0, <2>1, <2>2, ApplyInventsNothing
  <2> QED BY <1>0, <2>1, <2>3
<1>3. ASSUME NEW r \in Actors, NEW c \in Calls, ApplySnapshot(r, c)
      PROVE  issued' = issued /\ \A s \in Actors : RowsFrom(crdt_reg'[s], issued')
  <2>1. issued' = issued /\ \A s \in Actors \ {r} : crdt_reg'[s] = crdt_reg[s]
    BY <1>3 DEF ApplySnapshot, TypeOK, history
  <2>2. RowsFrom(crdt_reg'[r], issued)
    BY <1>3, SnapshotInventsNothing
  <2> QED BY <1>0, <2>1, <2>2
<1>4. ASSUME NEW r \in Actors, NEW keep \in 0..MaxSeq, Compact(r, keep)
      PROVE  issued' = issued /\ \A s \in Actors : RowsFrom(crdt_reg'[s], issued')
  BY <1>0, <1>4 DEF Compact, history
<1>5. ASSUME UNCHANGED <<tables, history>>
      PROVE  issued' = issued /\ \A s \in Actors : RowsFrom(crdt_reg'[s], issued')
  BY <1>0, <1>5 DEF tables, history
<1>6. issued \subseteq issued' /\ \A s \in Actors : RowsFrom(crdt_reg'[s], issued')
  BY <1>1, <1>2, <1>3, <1>4, <1>5, StepKinds DEF Add
<1>7. ASSUME NEW c \in Calls PROVE RowsFrom(call'[c].regs, issued')
  <2>1. RowsFrom(call[c].regs, issued) /\ RowsFrom(NoRegs, issued)
    BY DEF NothingInvented, RowsFrom, NoRegs
  <2>2. RowsFrom(call'[c].regs, issued)
    BY <1>0, <2>1, CallRegs
  <2> QED BY <1>6, <2>2 DEF RowsFrom
<1> QED BY <1>6, <1>7 DEF NothingInvented
-----------------------------------------------------------------------------
(* Counters                                                                *)

\* Nothing is counted and nothing was added in the initial state.
LEMMA TotalsInit == Init => TotalsLead
BY DEF Init, TotalsLead, OwnTotals, AtMost, NoCtrs, NoPair, NoCall

\* The sums of what a box added are numbers, and so are its totals.
LEMMA PairFields ==
  ASSUME NEW ctrs \in CtrTables, NEW k \in CtrKeys, NEW a \in Actors
  PROVE  /\ ctrs[k][a] \in Pairs
         /\ ctrs[k][a].pos \in Nat /\ ctrs[k][a].neg \in Nat
         /\ ctrs[k][a] = [pos |-> ctrs[k][a].pos, neg |-> ctrs[k][a].neg]
<1>1. ctrs[k][a] \in Pairs
  BY DEF CtrTables
<1> QED BY <1>1, ConstantsOK DEF Pairs, Totals

\* The same for the history of additions.
LEMMA SumFields ==
  ASSUME TypeOK, NEW k \in CtrKeys, NEW a \in Actors
  PROVE  /\ added[a][k].pos \in Nat /\ added[a][k].neg \in Nat
         /\ added[a][k] = [pos |-> added[a][k].pos, neg |-> added[a][k].neg]
<1>1. added[a][k] \in [pos : Nat, neg : Nat]
  BY DEF TypeOK
<1> QED BY <1>1

\* A step that issues no counter op and adds nothing keeps TotalsLead when the
\* tables only grow and stay within what was added.
LEMMA TotalsKept ==
  ASSUME TypeOK, TypeOK', TotalsLead, UNCHANGED added, issued \subseteq issued',
         \A o \in issued' : o \in issued \/ IsReg(o),
         \A r \in Actors : /\ AtMost(crdt_ctr'[r], added)
                           /\ CtrsGrow(crdt_ctr[r], crdt_ctr'[r]),
         \A c \in Calls : AtMost(call'[c].ctrs, added)
  PROVE  TotalsLead'
<1>1. OwnTotals'
  <2> SUFFICES ASSUME NEW a \in Actors, NEW k \in CtrKeys
               PROVE  /\ crdt_ctr'[a][k][a] = added[a][k]
                      /\ \/ added[a][k] = NoPair
                         \/ \E o \in issued' : /\ ~IsReg(o) /\ o.key = k /\ o.actor = a
                                               /\ PairOf(o) = added[a][k]
    BY DEF OwnTotals
  <2>1. /\ crdt_ctr[a][k][a] = added[a][k]
        /\ \/ added[a][k] = NoPair
           \/ \E o \in issued : /\ ~IsReg(o) /\ o.key = k /\ o.actor = a
                                /\ PairOf(o) = added[a][k]
    BY DEF TotalsLead, OwnTotals
  <2>2. crdt_ctr'[a] \in CtrTables /\ crdt_ctr[a] \in CtrTables
    BY DEF TypeOK
  <2>3. /\ crdt_ctr'[a][k][a].pos <= added[a][k].pos
        /\ crdt_ctr'[a][k][a].neg <= added[a][k].neg
        /\ added[a][k].pos <= crdt_ctr'[a][k][a].pos
        /\ added[a][k].neg <= crdt_ctr'[a][k][a].neg
    <3>1. AtMost(crdt_ctr'[a], added) /\ CtrsGrow(crdt_ctr[a], crdt_ctr'[a])
      OBVIOUS
    <3>2. /\ crdt_ctr[a][k][a].pos <= crdt_ctr'[a][k][a].pos
          /\ crdt_ctr[a][k][a].neg <= crdt_ctr'[a][k][a].neg
      BY <3>1 DEF CtrsGrow
    <3>3. /\ crdt_ctr'[a][k][a].pos <= added[a][k].pos
          /\ crdt_ctr'[a][k][a].neg <= added[a][k].neg
      BY <3>1 DEF AtMost
    <3> QED BY <2>1, <3>2, <3>3
  <2>4. /\ crdt_ctr'[a][k][a].pos \in Nat /\ crdt_ctr'[a][k][a].neg \in Nat
        /\ crdt_ctr'[a][k][a] = [pos |-> crdt_ctr'[a][k][a].pos,
                                 neg |-> crdt_ctr'[a][k][a].neg]
    BY <2>2, PairFields
  <2>5. /\ crdt_ctr'[a][k][a].pos = added[a][k].pos
        /\ crdt_ctr'[a][k][a].neg = added[a][k].neg
    <3>1. added[a][k].pos \in Nat /\ added[a][k].neg \in Nat
      BY SumFields
    <3> QED BY <2>3, <2>4, <3>1
  <2>6. crdt_ctr'[a][k][a] = added[a][k]
    BY <2>4, <2>5, SumFields
  <2> QED BY <2>1, <2>6
<1>2. \A o \in issued' : ~IsReg(o) =>
        o.pos <= added[o.actor][o.key].pos /\ o.neg <= added[o.actor][o.key].neg
  BY DEF TotalsLead
<1> QED BY <1>1, <1>2 DEF TotalsLead

\* applyToState shows no more than the ops it was given carry.
LEMMA ApplyAtMost ==
  ASSUME NEW ctrs \in CtrTables, NEW sums, AtMost(ctrs, sums), NEW ops \in SUBSET Ops,
         \A o \in ops : ~IsReg(o) =>
           o.pos <= sums[o.actor][o.key].pos /\ o.neg <= sums[o.actor][o.key].neg
  PROVE  AtMost(ApplyCtrs(ctrs, ops), sums) /\ CtrsGrow(ctrs, ApplyCtrs(ctrs, ops))
<1> DEFINE new == ApplyCtrs(ctrs, ops)
<1>1. ASSUME NEW k \in CtrKeys, NEW a \in Actors
      PROVE  /\ \/ new[k][a].pos = ctrs[k][a].pos
                \/ \E o \in ops : /\ ~IsReg(o) /\ o.key = k /\ o.actor = a
                                  /\ new[k][a].pos = o.pos
             /\ \/ new[k][a].neg = ctrs[k][a].neg
                \/ \E o \in ops : /\ ~IsReg(o) /\ o.key = k /\ o.actor = a
                                  /\ new[k][a].neg = o.neg
             /\ ctrs[k][a].pos <= new[k][a].pos /\ ctrs[k][a].neg <= new[k][a].neg
  BY ApplyCtrsLemma
<1> HIDE DEF new
<1>2. AtMost(new, sums) /\ CtrsGrow(ctrs, new)
  BY <1>1 DEF AtMost, CtrsGrow
<1> QED BY <1>2 DEF new

\* The merge of a snapshot's counters shows no more than either side did.
LEMMA SnapshotAtMost ==
  ASSUME TypeOK, NEW r \in Actors, NEW c \in Calls, ApplySnapshot(r, c),
         NEW sums, AtMost(crdt_ctr[r], sums), AtMost(call[c].ctrs, sums)
  PROVE  AtMost(crdt_ctr'[r], sums)
<1> DEFINE ctrs == call[c].ctrs
<1>1. \A k \in CtrKeys, a \in Actors :
        crdt_ctr'[r][k][a] = MergeCounter(crdt_ctr[r][k][a], {ctrs[k][a]})
  BY DEF ApplySnapshot, TypeOK
<1>2. ctrs \in CtrTables /\ crdt_ctr[r] \in CtrTables /\ AtMost(ctrs, sums)
  BY DEF TypeOK, CallStates
<1> HIDE DEF ctrs
<1>3. ASSUME NEW k \in CtrKeys, NEW a \in Actors
      PROVE  /\ crdt_ctr'[r][k][a].pos \in {ctrs[k][a].pos, crdt_ctr[r][k][a].pos}
             /\ crdt_ctr'[r][k][a].neg \in {ctrs[k][a].neg, crdt_ctr[r][k][a].neg}
  <2> DEFINE m == MergeCounter(crdt_ctr[r][k][a], {ctrs[k][a]})
  <2>1. crdt_ctr[r][k][a] \in Pairs /\ {ctrs[k][a]} \in SUBSET Pairs
    BY <1>2 DEF CtrTables
  <2>2. /\ m.pos \in {p.pos : p \in {ctrs[k][a]}} \cup {crdt_ctr[r][k][a].pos}
        /\ m.neg \in {p.neg : p \in {ctrs[k][a]}} \cup {crdt_ctr[r][k][a].neg}
    BY <2>1, MergeCounterLemma
  <2>3. crdt_ctr'[r][k][a] = m
    BY <1>1
  <2> HIDE DEF m
  <2> QED BY <2>2, <2>3
<1> QED BY <1>2, <1>3 DEF AtMost

\* Add: the op carries the sum of everything its box has added to the counter.
LEMMA TotalsAdd ==
  ASSUME ReplicaInv, TypeOK', TotalsLead, NEW r \in Actors, NEW now \in 1..MaxWall,
         NEW k \in CtrKeys, NEW d \in {-1, 1}, Add(r, k, d, now)
  PROVE  TotalsLead'
<1> USE DEF ReplicaInv
<1> DEFINE sum == Plus(added[r][k], d)
           op == NewOp(r, k, "inc", 0, sum, Tick(clock[r], now))
<1>1. crdt_ctr[r][k][r] = added[r][k]
  BY DEF TotalsLead, OwnTotals
<1>2. /\ crdt_ctr' = [crdt_ctr EXCEPT ![r] = ApplyCtrs(crdt_ctr[r], {op})]
      /\ issued' = issued \cup {op} /\ UNCHANGED call
      /\ added' = [added EXCEPT ![r][k] = sum]
  BY <1>1 DEF Add, NewTotals, AppendLocal
<1>3. /\ op.actor = r /\ op.key = k /\ op.kind = "inc" /\ op.pos = sum.pos
      /\ op.neg = sum.neg
  BY DEF NewOp
<1>4. /\ sum.pos \in Nat /\ sum.neg \in Nat /\ sum = [pos |-> sum.pos, neg |-> sum.neg]
      /\ added[r][k].pos <= sum.pos /\ added[r][k].neg <= sum.neg
  <2>1. added[r][k].pos \in Nat /\ added[r][k].neg \in Nat
    BY SumFields
  <2> QED BY <2>1 DEF Plus
<1> HIDE DEF op, sum
<1>5. /\ \A a \in Actors, j \in CtrKeys :
           added'[a][j] = IF a = r /\ j = k THEN sum ELSE added[a][j]
      /\ \A s \in Actors \ {r} : crdt_ctr'[s] = crdt_ctr[s]
      /\ crdt_ctr'[r] = ApplyCtrs(crdt_ctr[r], {op})
  BY <1>2 DEF TypeOK
<1>6. ~IsReg(op) /\ op \in Ops /\ op \in issued'
  BY <1>2, <1>3 DEF IsReg, TypeOK
<1>7. \A a \in Actors, j \in CtrKeys :
        added[a][j].pos <= added'[a][j].pos /\ added[a][j].neg <= added'[a][j].neg
  <2> SUFFICES ASSUME NEW a \in Actors, NEW j \in CtrKeys
               PROVE  /\ added[a][j].pos <= added'[a][j].pos
                      /\ added[a][j].neg <= added'[a][j].neg
    OBVIOUS
  <2>1. added[a][j].pos \in Nat /\ added[a][j].neg \in Nat
    BY SumFields
  <2>2. added'[a][j] = IF a = r /\ j = k THEN sum ELSE added[a][j]
    BY <1>5
  <2> QED BY <1>4, <2>1, <2>2
<1>8. ASSUME NEW ctrs \in CtrTables, AtMost(ctrs, added) PROVE AtMost(ctrs, added')
  <2> SUFFICES ASSUME NEW a \in Actors, NEW j \in CtrKeys
               PROVE  ctrs[j][a].pos <= added'[a][j].pos /\ ctrs[j][a].neg <= added'[a][j].neg
    BY DEF AtMost
  <2>1. /\ ctrs[j][a].pos <= added[a][j].pos /\ ctrs[j][a].neg <= added[a][j].neg
        /\ added[a][j].pos <= added'[a][j].pos /\ added[a][j].neg <= added'[a][j].neg
    BY <1>7, <1>8 DEF AtMost
  <2>2. ctrs[j][a].pos \in Nat /\ ctrs[j][a].neg \in Nat
    BY PairFields
  <2>3. /\ added[a][j].pos \in Nat /\ added[a][j].neg \in Nat
        /\ added'[a][j].pos \in Nat /\ added'[a][j].neg \in Nat
    BY <1>4, <1>5, SumFields
  <2> QED BY <2>1, <2>2, <2>3
<1>9. \A o \in issued' : ~IsReg(o) =>
        o.pos <= added'[o.actor][o.key].pos /\ o.neg <= added'[o.actor][o.key].neg
  <2> SUFFICES ASSUME NEW o \in issued', ~IsReg(o)
               PROVE  /\ o.pos <= added'[o.actor][o.key].pos
                      /\ o.neg <= added'[o.actor][o.key].neg
    OBVIOUS
  <2>1. CASE o = op
    BY <1>3, <1>4, <1>5, <2>1
  <2>2. CASE o # op
    <3>1. o \in issued /\ o \in Ops /\ o.actor \in Actors /\ o.key \in CtrKeys
      BY <1>2, <2>2, OpFields DEF IssuedOnce, TypeOK
    <3>2. /\ o.pos <= added[o.actor][o.key].pos /\ o.neg <= added[o.actor][o.key].neg
          /\ added[o.actor][o.key].pos <= added'[o.actor][o.key].pos
          /\ added[o.actor][o.key].neg <= added'[o.actor][o.key].neg
      BY <1>7, <3>1 DEF TotalsLead
    <3>3. o.pos \in Nat /\ o.neg \in Nat
      BY <3>1, ConstantsOK DEF Ops, Totals
    <3>4. /\ added[o.actor][o.key].pos \in Nat /\ added[o.actor][o.key].neg \in Nat
          /\ added'[o.actor][o.key].pos \in Nat /\ added'[o.actor][o.key].neg \in Nat
      BY <1>4, <1>5, <3>1, SumFields
    <3> QED BY <3>2, <3>3, <3>4
  <2> QED BY <2>1, <2>2
<1>10. \A s \in Actors : crdt_ctr[s] \in CtrTables /\ crdt_ctr'[s] \in CtrTables
  BY DEF TypeOK
<1>11. \A s \in Actors : AtMost(crdt_ctr[s], added')
  BY <1>8, <1>10 DEF TotalsLead
<1>12. AtMost(crdt_ctr'[r], added')
  <2>1. AtMost(ApplyCtrs(crdt_ctr[r], {op}), added')
    BY <1>6, <1>9, <1>10, <1>11, ApplyAtMost
  <2> QED BY <1>5, <2>1
<1>13. \A s \in Actors : AtMost(crdt_ctr'[s], added')
  BY <1>5, <1>11, <1>12
<1>14. \A c \in Calls : AtMost(call'[c].ctrs, added')
  <2> SUFFICES ASSUME NEW c \in Calls PROVE AtMost(call[c].ctrs, added')
    BY <1>2
  <2>1. call[c].ctrs \in CtrTables /\ AtMost(call[c].ctrs, added)
    BY DEF TypeOK, CallStates, TotalsLead
  <2> QED BY <1>8, <2>1
<1>15. OwnTotals'
  <2> SUFFICES ASSUME NEW a \in Actors, NEW j \in CtrKeys
               PROVE  /\ crdt_ctr'[a][j][a] = added'[a][j]
                      /\ \/ added'[a][j] = NoPair
                         \/ \E o \in issued' : /\ ~IsReg(o) /\ o.key = j /\ o.actor = a
                                               /\ PairOf(o) = added'[a][j]
    BY DEF OwnTotals
  <2> DEFINE old == crdt_ctr[r][j][r]
             new == crdt_ctr'[r][j][r]
  <2>1. /\ new.pos = old.pos \/ (op.key = j /\ new.pos = op.pos)
        /\ new.neg = old.neg \/ (op.key = j /\ new.neg = op.neg)
        /\ op.key = j => op.pos <= new.pos /\ op.neg <= new.neg
    BY <1>3, <1>5, <1>6, <1>10, ApplyCtrsLemma
  <2>2. /\ new.pos \in Nat /\ new.neg \in Nat /\ new = [pos |-> new.pos, neg |-> new.neg]
        /\ old.pos \in Nat /\ old.neg \in Nat /\ old = [pos |-> old.pos, neg |-> old.neg]
    BY <1>10, PairFields
  <2>3. old = added[r][j]
    BY DEF TotalsLead, OwnTotals
  <2> HIDE DEF old, new
  <2>4. CASE a = r /\ j = k
    <3>1. new.pos = sum.pos /\ new.neg = sum.neg
      BY <1>3, <1>4, <2>1, <2>2, <2>3, <2>4
    <3>2. new = sum
      BY <1>4, <2>2, <3>1
    <3>3. PairOf(op) = sum
      BY <1>3, <1>4 DEF PairOf
    <3> QED BY <1>3, <1>5, <1>6, <2>4, <3>2, <3>3 DEF new
  <2>5. CASE ~(a = r /\ j = k)
    <3>1. added'[a][j] = added[a][j]
      BY <1>5, <2>5
    <3>2. crdt_ctr'[a][j][a] = crdt_ctr[a][j][a]
      <4>1. CASE a # r
        BY <1>5, <4>1
      <4>2. CASE a = r
        <5>1. new.pos = old.pos /\ new.neg = old.neg
          BY <1>3, <2>1, <2>5, <4>2
        <5>2. new = old
          BY <2>2, <5>1
        <5> QED BY <4>2, <5>2 DEF new, old
      <4> QED BY <4>1, <4>2
    <3> QED BY <1>2, <3>1, <3>2 DEF TotalsLead, OwnTotals
  <2> QED BY <2>4, <2>5
<1> QED BY <1>9, <1>13, <1>14, <1>15 DEF TotalsLead

\* No step makes a counter run ahead of what its actor added.
LEMMA TotalsNext ==
  ASSUME ReplicaInv, TotalsLead, [Next]_vars
  PROVE  TotalsLead'
<1> USE DEF ReplicaInv
<1>0. TypeOK'
  BY TypeNext
<1>1. \A s \in Actors : /\ crdt_ctr[s] \in CtrTables /\ AtMost(crdt_ctr[s], added)
                        /\ CtrsGrow(crdt_ctr[s], crdt_ctr[s])
  <2> SUFFICES ASSUME NEW s \in Actors
               PROVE  /\ crdt_ctr[s] \in CtrTables /\ AtMost(crdt_ctr[s], added)
                      /\ CtrsGrow(crdt_ctr[s], crdt_ctr[s])
    OBVIOUS
  <2>1. crdt_ctr[s] \in CtrTables /\ AtMost(crdt_ctr[s], added)
    BY DEF TypeOK, TotalsLead
  <2>2. \A k \in CtrKeys, a \in Actors :
          crdt_ctr[s][k][a].pos \in Nat /\ crdt_ctr[s][k][a].neg \in Nat
    BY <2>1, PairFields
  <2>3. CtrsGrow(crdt_ctr[s], crdt_ctr[s])
    BY <2>2 DEF CtrsGrow
  <2> QED BY <2>1, <2>3
<1>2. \A c \in Calls : AtMost(call'[c].ctrs, added)
  <2> SUFFICES ASSUME NEW c \in Calls PROVE AtMost(call'[c].ctrs, added)
    OBVIOUS
  <2>1. AtMost(NoCtrs, added)
    <3>1. \A a \in Actors, k \in CtrKeys :
            added[a][k].pos \in Nat /\ added[a][k].neg \in Nat
      BY SumFields
    <3> QED BY <3>1 DEF AtMost, NoCtrs, NoPair
  <2>2. AtMost(call[c].ctrs, added)
    BY DEF TotalsLead
  <2> QED BY <1>1, <2>1, <2>2, CallCtrs
<1>3. ASSUME NEW r \in Actors, NEW op \in Ops, AppendLocal(r, op), IsReg(op),
             UNCHANGED added
      PROVE  TotalsLead'
  <2>1. /\ issued' = issued \cup {op}
        /\ \A s \in Actors \ {r} : crdt_ctr'[s] = crdt_ctr[s]
        /\ crdt_ctr'[r] = ApplyCtrs(crdt_ctr[r], {op})
    BY <1>3 DEF AppendLocal, TypeOK
  <2>2. AtMost(crdt_ctr'[r], added) /\ CtrsGrow(crdt_ctr[r], crdt_ctr'[r])
    BY <1>1, <1>3, <2>1, ApplyAtMost
  <2> QED BY <1>0, <1>1, <1>2, <1>3, <2>1, <2>2, TotalsKept
<1>4. ASSUME NEW r \in Actors, NEW c \in Calls, Merge(r, c) PROVE TotalsLead'
  <2>1. /\ UNCHANGED <<issued, added>>
        /\ \A s \in Actors \ {r} : crdt_ctr'[s] = crdt_ctr[s]
        /\ crdt_ctr'[r] = ApplyCtrs(crdt_ctr[r], call[c].ops)
    BY <1>4 DEF Merge, TypeOK, history
  <2>2. call[c].ops \subseteq issued /\ call[c].ops \in SUBSET Ops
    BY DEF CallsSound, CallSound, TypeOK
  <2>3. \A o \in call[c].ops : ~IsReg(o) =>
          o.pos <= added[o.actor][o.key].pos /\ o.neg <= added[o.actor][o.key].neg
    BY <2>2 DEF TotalsLead
  <2>4. AtMost(crdt_ctr'[r], added) /\ CtrsGrow(crdt_ctr[r], crdt_ctr'[r])
    BY <1>1, <2>1, <2>2, <2>3, ApplyAtMost
  <2> QED BY <1>0, <1>1, <1>2, <2>1, <2>4, TotalsKept
<1>5. ASSUME NEW r \in Actors, NEW c \in Calls, ApplySnapshot(r, c) PROVE TotalsLead'
  <2>1. UNCHANGED <<issued, added>> /\ \A s \in Actors \ {r} : crdt_ctr'[s] = crdt_ctr[s]
    BY <1>5 DEF ApplySnapshot, TypeOK, history
  <2>2. AtMost(crdt_ctr'[r], added)
    BY <1>1, <1>5, SnapshotAtMost DEF TotalsLead
  <2>3. CtrsGrow(crdt_ctr[r], crdt_ctr'[r])
    BY <1>5, SnapshotGrows
  <2> QED BY <1>0, <1>1, <1>2, <2>1, <2>2, <2>3, TotalsKept
<1>6. ASSUME UNCHANGED <<crdt_ctr, issued, added>> PROVE TotalsLead'
  BY <1>0, <1>1, <1>2, <1>6, TotalsKept
<1>7. ASSUME NEW r \in Actors, NEW keep \in 0..MaxSeq, Compact(r, keep)
      PROVE  TotalsLead'
  BY <1>6, <1>7 DEF Compact, history
<1>8. ASSUME UNCHANGED <<tables, history>> PROVE TotalsLead'
  BY <1>6, <1>8 DEF tables, history
<1> QED BY <1>0, <1>3, <1>4, <1>5, <1>7, <1>8, StepKinds, TotalsAdd
-----------------------------------------------------------------------------
(* The theorems                                                            *)

\* The inductive invariant of this module.
ConvergenceInv == ReplicaInv /\ NothingInvented /\ TotalsLead

\* Every reachable state satisfies it.
THEOREM ConvergenceInvariant == Spec => []ConvergenceInv
<1>1. Init => ConvergenceInv
  BY ReplicaInit, InventedInit, TotalsInit DEF ConvergenceInv
<1>2. ConvergenceInv /\ [Next]_vars => ConvergenceInv'
  BY ReplicaNext, InventedNext, TotalsNext DEF ConvergenceInv
<1> QED BY <1>1, <1>2, PTL DEF Spec

\* When a box knows all that an actor has issued it counts all that it added.
LEMMA CountsAll ==
  ASSUME ConvergenceInv, NEW r \in Actors, NEW a \in Actors, NEW k \in CtrKeys,
         seq[r][a] = seq[a][a]
  PROVE  crdt_ctr[r][k][a] = added[a][k]
<1> USE DEF ConvergenceInv, ReplicaInv
<1> DEFINE pair == crdt_ctr[r][k][a]
           sum == added[a][k]
<1>1. /\ pair.pos \in Nat /\ pair.neg \in Nat /\ pair = [pos |-> pair.pos, neg |-> pair.neg]
      /\ sum.pos \in Nat /\ sum.neg \in Nat /\ sum = [pos |-> sum.pos, neg |-> sum.neg]
  <2>1. crdt_ctr[r] \in CtrTables
    BY DEF TypeOK
  <2> QED BY <2>1, PairFields, SumFields
<1>2. pair.pos <= sum.pos /\ pair.neg <= sum.neg
  BY DEF TotalsLead, AtMost
<1>3. sum.pos <= pair.pos /\ sum.neg <= pair.neg
  <2>1. CASE sum = NoPair
    BY <1>1, <2>1 DEF NoPair
  <2>2. CASE sum # NoPair
    <3>1. PICK o \in issued : ~IsReg(o) /\ o.key = k /\ o.actor = a /\ PairOf(o) = sum
      BY <2>2 DEF TotalsLead, OwnTotals
    <3>2. o.seq <= seq[r][a]
      BY <3>1 DEF IssuedOnce
    <3>3. InState(crdt_reg[r], crdt_ctr[r], o)
      BY <3>1, <3>2 DEF Coverage
    <3>4. pair.pos >= o.pos /\ pair.neg >= o.neg
      BY <3>1, <3>3 DEF InState
    <3>5. o.pos = sum.pos /\ o.neg = sum.neg
      BY <3>1 DEF PairOf
    <3> HIDE DEF pair, sum
    <3> QED BY <1>1, <3>4, <3>5
  <2> QED BY <2>1, <2>2
<1> HIDE DEF pair, sum
<1>4. pair.pos = sum.pos /\ pair.neg = sum.neg
  BY <1>1, <1>2, <1>3
<1>5. pair = sum
  BY <1>1, <1>4
<1> QED BY <1>5 DEF pair, sum

\* A row that one box holds is not beaten by the row of a box that knows all.
LEMMA RowsReach ==
  ASSUME ConvergenceInv, NEW r \in Actors, NEW s \in Actors, seq[s] = Heads,
         NEW k \in RegKeys, crdt_reg[r][k] # NoRow
  PROVE  crdt_reg[s][k] # NoRow /\ ~Wins(crdt_reg[r][k], crdt_reg[s][k])
<1> USE DEF ConvergenceInv, ReplicaInv
<1>1. PICK o \in issued : IsReg(o) /\ o.key = k /\ RowOf(o) = crdt_reg[r][k]
  BY DEF NothingInvented, RowsFrom
<1>2. o.actor \in Actors
  BY OpFields DEF TypeOK
<1>3. o.seq <= seq[s][o.actor]
  BY <1>2 DEF IssuedOnce, Heads
<1>4. InState(crdt_reg[s], crdt_ctr[s], o)
  BY <1>3 DEF Coverage
<1> QED BY <1>1, <1>4 DEF InState

\* Two boxes that have received every op hold the same registers and counters.
THEOREM ConvergenceHolds == Spec => []Convergence
<1>1. ConvergenceInv => Convergence
  <2> SUFFICES ASSUME ConvergenceInv, NEW r \in Actors, NEW s \in Actors,
                      seq[r] = Heads, seq[s] = Heads
               PROVE  crdt_reg[r] = crdt_reg[s] /\ crdt_ctr[r] = crdt_ctr[s]
    BY DEF Convergence
  <2>0. /\ crdt_reg[r] \in RegTables /\ crdt_reg[s] \in RegTables
        /\ crdt_ctr[r] \in CtrTables /\ crdt_ctr[s] \in CtrTables
    BY DEF ConvergenceInv, ReplicaInv, TypeOK
  <2>1. ASSUME NEW k \in RegKeys PROVE crdt_reg[r][k] = crdt_reg[s][k]
    <3>1. crdt_reg[r][k] \in Rows /\ crdt_reg[s][k] \in Rows
      BY <2>0 DEF RegTables
    <3>2. /\ crdt_reg[r][k] # NoRow =>
               crdt_reg[s][k] # NoRow /\ ~Wins(crdt_reg[r][k], crdt_reg[s][k])
          /\ crdt_reg[s][k] # NoRow =>
               crdt_reg[r][k] # NoRow /\ ~Wins(crdt_reg[s][k], crdt_reg[r][k])
      BY RowsReach
    <3> QED BY <3>1, <3>2, WinsTotal
  <2>2. ASSUME NEW k \in CtrKeys, NEW a \in Actors
        PROVE  crdt_ctr[r][k][a] = crdt_ctr[s][k][a]
    <3>1. seq[r][a] = seq[a][a] /\ seq[s][a] = seq[a][a]
      BY DEF Heads
    <3> QED BY <3>1, CountsAll
  <2>3. crdt_reg[r] = crdt_reg[s]
    BY <2>0, <2>1 DEF RegTables
  <2>4. crdt_ctr[r] = crdt_ctr[s]
    <3>1. \A k \in CtrKeys : crdt_ctr[r][k] = crdt_ctr[s][k]
      BY <2>0, <2>2 DEF CtrTables
    <3> QED BY <2>0, <3>1 DEF CtrTables
  <2> QED BY <2>3, <2>4
<1> QED BY <1>1, ConvergenceInvariant, PTL

\* No addition is counted twice, whatever is delivered again, and none is
\* missing once the ops that carry it have arrived.
THEOREM CountedOnceHolds == Spec => []CountedOnce
<1>1. ConvergenceInv => CountedOnce
  <2> SUFFICES ASSUME ConvergenceInv, NEW r \in Actors, NEW a \in Actors, NEW k \in CtrKeys
               PROVE  /\ crdt_ctr[r][k][a].pos <= added[a][k].pos
                      /\ crdt_ctr[r][k][a].neg <= added[a][k].neg
                      /\ seq[r][a] = seq[a][a] => crdt_ctr[r][k][a] = added[a][k]
    BY DEF CountedOnce
  <2>1. AtMost(crdt_ctr[r], added)
    BY DEF ConvergenceInv, TotalsLead
  <2> QED BY <2>1, CountsAll DEF AtMost
<1> QED BY <1>1, ConvergenceInvariant, PTL
-----------------------------------------------------------------------------
(* The clock                                                               *)

\* A clock is at or past the stamp of a row; it is past it.
Reached(x, c) == x.wall < c.wall \/ (x.wall = c.wall /\ x.logical <= c.logical)
Passed(x, c)  == x.wall < c.wall \/ (x.wall = c.wall /\ x.logical < c.logical)

\* The clock has reached the stamp of every register, or is about to be told of
\* it: between the commit of a merge and the end of its observe loop.
ClockInv ==
  \A r \in Actors, k \in RegKeys :
    Reached(crdt_reg[r][k], clock[r]) \/ StampOf(crdt_reg[r][k]) \in observing[r]

\* Nothing is above the clock in the initial state: there are no rows.
LEMMA ClockInit == Init => ClockInv
BY DEF Init, ClockInv, Reached, NoRegs, NoRow

\* tick passes whatever the clock had reached, also when the wall jumped back.
LEMMA TickPasses ==
  ASSUME NEW c \in Clocks, NEW now \in 1..MaxWall, NEW x \in Rows, Reached(x, c)
  PROVE  Passed(x, Tick(c, now))
<1>1. /\ c.wall \in Nat /\ c.logical \in Nat /\ now \in Nat
      /\ x.wall \in Nat /\ x.logical \in Nat
  BY RowFields, ConstantsOK DEF Clocks, Walls
<1>2. CASE now > c.wall
  <2>1. Tick(c, now).wall = now
    BY <1>2 DEF Tick
  <2> QED BY <1>1, <1>2, <2>1 DEF Reached, Passed
<1>3. CASE ~(now > c.wall)
  <2>1. Tick(c, now).wall = c.wall /\ Tick(c, now).logical = c.logical + 1
    BY <1>3 DEF Tick
  <2> QED BY <1>1, <1>3, <2>1 DEF Reached, Passed
<1> QED BY <1>2, <1>3

\* observe keeps what the clock had reached and reaches the stamp it is told.
LEMMA ObserveReaches ==
  ASSUME NEW c \in Clocks, NEW s \in Clocks, NEW now \in 1..MaxWall, NEW x \in Rows,
         Reached(x, c) \/ StampOf(x) = s
  PROVE  Reached(x, ObserveStamp(c, s, now))
<1> DEFINE d == ObserveStamp(c, s, now)
<1>1. /\ c.wall \in Nat /\ c.logical \in Nat /\ s.wall \in Nat /\ s.logical \in Nat
      /\ now \in Nat /\ x.wall \in Nat /\ x.logical \in Nat
  BY RowFields, ConstantsOK DEF Clocks, Walls
<1>2. Reached(x, c) \/ (x.wall = s.wall /\ x.logical = s.logical)
  BY DEF StampOf
<1>3. CASE s.wall > c.wall /\ s.wall >= now
  <2>1. d.wall = s.wall /\ d.logical = s.logical
    BY <1>1, <1>3 DEF ObserveStamp
  <2> HIDE DEF d
  <2> QED BY <1>1, <1>2, <1>3, <2>1 DEF Reached, d
<1>4. CASE s.wall = c.wall /\ s.logical > c.logical
  <2>1. d.wall = c.wall /\ d.logical = s.logical
    BY <1>1, <1>4 DEF ObserveStamp
  <2> QED BY <1>1, <1>2, <1>4, <2>1 DEF Reached
<1>5. CASE /\ ~(s.wall > c.wall /\ s.wall >= now)
           /\ ~(s.wall = c.wall /\ s.logical > c.logical)
           /\ now > c.wall
  <2>1. d.wall = now /\ d.logical = 0
    BY <1>1, <1>5 DEF ObserveStamp
  <2> QED BY <1>1, <1>2, <1>5, <2>1 DEF Reached
<1>6. CASE /\ ~(s.wall > c.wall /\ s.wall >= now)
           /\ ~(s.wall = c.wall /\ s.logical > c.logical)
           /\ ~(now > c.wall)
  <2>1. d = c
    BY <1>1, <1>6 DEF ObserveStamp
  <2> QED BY <1>1, <1>2, <1>6, <2>1 DEF Reached
<1> QED BY <1>3, <1>4, <1>5, <1>6

\* A local mutation: every register has its old row, which tick has passed, or
\* the op's, and in a last-writer-wins domain the op's own register has the op's.
LEMMA ClockLocal ==
  ASSUME TypeOK, ClockInv, NEW r \in Actors, NEW now \in 1..MaxWall, CanTick(r, now),
         NEW op \in Ops, op.actor = r, StampOf(op) = Tick(clock[r], now), AppendLocal(r, op)
  PROVE  /\ ClockInv'
         /\ ~GrowOnly /\ IsReg(op) /\ op.key \in RegKeys =>
              crdt_reg'[r][op.key] = RowOf(op)
<1>1. /\ \A s \in Actors \ {r} : crdt_reg'[s] = crdt_reg[s] /\ clock'[s] = clock[s]
      /\ crdt_reg'[r] = ApplyRegs(crdt_reg[r], {op})
      /\ clock'[r] = StampOf(op) /\ observing' = observing
  BY DEF AppendLocal, TypeOK
<1>2. crdt_reg[r] \in RegTables /\ {op} \in SUBSET Ops /\ clock[r] \in Clocks
  BY DEF TypeOK
<1>3. \A k \in RegKeys : crdt_reg[r][k] \in Rows /\ Passed(crdt_reg[r][k], StampOf(op))
  <2> SUFFICES ASSUME NEW k \in RegKeys
               PROVE  crdt_reg[r][k] \in Rows /\ Passed(crdt_reg[r][k], Tick(clock[r], now))
    OBVIOUS
  <2>1. crdt_reg[r][k] \in Rows
    BY <1>2 DEF RegTables
  <2>2. Reached(crdt_reg[r][k], clock[r])
    BY DEF ClockInv, CanTick, Unlocked
  <2> QED BY <2>1, <2>2, <1>2, TickPasses
<1>4. \A k \in RegKeys : crdt_reg'[r][k] = crdt_reg[r][k]
                         \/ (op.key = k /\ crdt_reg'[r][k] = RowOf(op))
  BY <1>1, <1>2, ApplyRegsLemma
<1>5. ASSUME NEW k \in RegKeys PROVE Reached(crdt_reg'[r][k], clock'[r])
  <2>1. CASE crdt_reg'[r][k] = crdt_reg[r][k]
    <3>1. crdt_reg[r][k].wall \in Nat /\ crdt_reg[r][k].logical \in Nat
      BY <1>3, RowFields
    <3>2. StampOf(op).logical \in Nat
      BY OpFields DEF Clocks
    <3> QED BY <2>1, <1>1, <1>3, <3>1, <3>2 DEF Reached, Passed
  <2>2. CASE crdt_reg'[r][k] = RowOf(op)
    <3>1. op.logical \in Nat
      BY DEF Ops
    <3> QED BY <2>2, <1>1, <3>1 DEF Reached, RowOf, StampOf
  <2> QED BY <2>1, <2>2, <1>4
<1>6. ClockInv'
  <2> SUFFICES ASSUME NEW s \in Actors, NEW k \in RegKeys
               PROVE  Reached(crdt_reg'[s][k], clock'[s])
                      \/ StampOf(crdt_reg'[s][k]) \in observing'[s]
    BY DEF ClockInv
  <2>1. CASE s = r
    BY <2>1, <1>5
  <2>2. CASE s # r
    BY <2>2, <1>1 DEF ClockInv
  <2> QED BY <2>1, <2>2
<1>7. ASSUME ~GrowOnly, IsReg(op), op.key \in RegKeys
      PROVE  crdt_reg'[r][op.key] = RowOf(op)
  <2> DEFINE old == crdt_reg[r][op.key]
  <2>1. ~Wins(RowOf(op), crdt_reg'[r][op.key])
    BY <1>1, <1>2, <1>7, ApplyRegsLemma
  <2>2. Wins(RowOf(op), old)
    <3>1. StampLess(old, RowOf(op))
      BY <1>3, <1>7 DEF Passed, StampLess, RowOf, StampOf
    <3> QED BY <3>1, <1>7 DEF Wins, LastWriterWins
  <2> QED BY <2>1, <2>2, <1>4, <1>7
<1> QED BY <1>6, <1>7

\* Set, Delete and Add are such mutations.
LEMMA LocalOps ==
  ASSUME TypeOK, NEW r \in Actors, NEW now \in 1..MaxWall,
         \/ \E k \in RegKeys, v \in 1..MaxValue : Set(r, k, v, now)
         \/ \E k \in RegKeys : Delete(r, k, now)
         \/ \E k \in CtrKeys, d \in {-1, 1} : Add(r, k, d, now)
  PROVE  \E op \in Ops : /\ CanTick(r, now) /\ AppendLocal(r, op)
                         /\ op.actor = r /\ StampOf(op) = Tick(clock[r], now)
                         /\ IsReg(op) => op.key \in RegKeys
<1>0. NoPair \in Pairs /\ 0 \in Values /\ 1..MaxValue \subseteq Values
  BY ConstantsOK DEF NoPair, Pairs, Totals, Values
<1>1. ASSUME NEW k, NEW kind, NEW v, NEW p
      PROVE  LET op == NewOp(r, k, kind, v, p, Tick(clock[r], now))
             IN  /\ op.actor = r /\ StampOf(op) = Tick(clock[r], now)
                 /\ op.kind = kind /\ op.key = k
  BY DEF NewOp, StampOf, Tick
<1>2. ASSUME NEW k \in RegKeys, NEW v \in 1..MaxValue, Set(r, k, v, now)
      PROVE  \E op \in Ops : /\ CanTick(r, now) /\ AppendLocal(r, op)
                             /\ op.actor = r /\ StampOf(op) = Tick(clock[r], now)
                             /\ IsReg(op) => op.key \in RegKeys
  <2> DEFINE op == NewOp(r, k, "set", v, NoPair, Tick(clock[r], now))
  <2>1. CanTick(r, now) /\ AppendLocal(r, op)
    BY <1>2 DEF Set
  <2>2. op \in Ops
    BY <2>1, <1>0, NewOpType
  <2>3. op.actor = r /\ StampOf(op) = Tick(clock[r], now) /\ op.key = k
    BY <1>1
  <2> HIDE DEF op
  <2> QED BY <2>1, <2>2, <2>3
<1>3. ASSUME NEW k \in RegKeys, Delete(r, k, now)
      PROVE  \E op \in Ops : /\ CanTick(r, now) /\ AppendLocal(r, op)
                             /\ op.actor = r /\ StampOf(op) = Tick(clock[r], now)
                             /\ IsReg(op) => op.key \in RegKeys
  <2> DEFINE op == NewOp(r, k, "del", 0, NoPair, Tick(clock[r], now))
  <2>1. CanTick(r, now) /\ AppendLocal(r, op)
    BY <1>3 DEF Delete
  <2>2. op \in Ops
    BY <2>1, <1>0, NewOpType
  <2>3. op.actor = r /\ StampOf(op) = Tick(clock[r], now) /\ op.key = k
    BY <1>1
  <2> HIDE DEF op
  <2> QED BY <2>1, <2>2, <2>3
<1>4. ASSUME NEW k \in CtrKeys, NEW d \in {-1, 1}, Add(r, k, d, now)
      PROVE  \E op \in Ops : /\ CanTick(r, now) /\ AppendLocal(r, op)
                             /\ op.actor = r /\ StampOf(op) = Tick(clock[r], now)
                             /\ IsReg(op) => op.key \in RegKeys
  <2> DEFINE op == NewOp(r, k, "inc", 0, NewTotals(r, k, d), Tick(clock[r], now))
  <2>1. CanTick(r, now) /\ AppendLocal(r, op) /\ NewTotals(r, k, d) \in Pairs
    BY <1>4 DEF Add
  <2>2. op \in Ops
    BY <2>1, <1>0, NewOpType
  <2>3. op.actor = r /\ StampOf(op) = Tick(clock[r], now) /\ op.kind = "inc"
    BY <1>1
  <2>4. ~IsReg(op)
    BY <2>3 DEF IsReg
  <2> HIDE DEF op
  <2> QED BY <2>1, <2>2, <2>3, <2>4
<1> QED BY <1>2, <1>3, <1>4

\* After a merge a register has its old row, which the clock has reached, or one
\* whose stamp waits to be observed.
LEMMA ClockMerge ==
  ASSUME TypeOK, ClockInv, NEW r \in Actors, NEW c \in Calls,
         Merge(r, c) \/ ApplySnapshot(r, c)
  PROVE  ClockInv'
<1>1. /\ \A s \in Actors \ {r} : crdt_reg'[s] = crdt_reg[s] /\ observing'[s] = observing[s]
      /\ clock' = clock
      /\ Unlocked(r)
  BY DEF Merge, ApplySnapshot, TypeOK
<1>2. crdt_reg[r] \in RegTables /\ call[c].ops \in SUBSET Ops /\ call[c].regs \in RegTables
  BY DEF TypeOK, CallStates
<1>3. ASSUME NEW k \in RegKeys
      PROVE  crdt_reg'[r][k] = crdt_reg[r][k] \/ StampOf(crdt_reg'[r][k]) \in observing'[r]
  <2>1. CASE Merge(r, c)
    <3>1. /\ crdt_reg'[r] = ApplyRegs(crdt_reg[r], call[c].ops)
          /\ observing'[r] = {StampOf(o) : o \in call[c].ops}
      BY <2>1 DEF Merge, TypeOK
    <3>2. crdt_reg'[r][k] = crdt_reg[r][k]
          \/ \E o \in call[c].ops : crdt_reg'[r][k] = RowOf(o)
      BY <3>1, <1>2, ApplyRegsLemma
    <3>3. \A o : StampOf(RowOf(o)) = StampOf(o)
      BY DEF StampOf, RowOf
    <3> QED BY <3>1, <3>2, <3>3
  <2>2. CASE ApplySnapshot(r, c)
    <3> DEFINE rows == {call[c].regs[k]} \ {NoRow}
    <3>1. /\ crdt_reg'[r][k] = MergeRegister(crdt_reg[r][k], rows)
          /\ observing'[r] = {StampOf(x) : x \in SnapRows(call[c])}
      BY <2>2 DEF ApplySnapshot, TypeOK
    <3>2. /\ crdt_reg[r][k] \in Rows /\ rows \in SUBSET Rows /\ NoRow \notin rows
          /\ rows \subseteq SnapRows(call[c])
      BY <1>2 DEF RegTables, SnapRows
    <3> HIDE DEF rows
    <3>3. MergeRegister(crdt_reg[r][k], rows) \in rows \cup {crdt_reg[r][k]}
      BY <3>2, MergeRegisterLemma
    <3> QED BY <3>1, <3>2, <3>3
  <2> QED BY <2>1, <2>2
<1>4. \A k \in RegKeys : Reached(crdt_reg[r][k], clock[r])
  BY <1>1 DEF ClockInv, Unlocked
<1> SUFFICES ASSUME NEW s \in Actors, NEW k \in RegKeys
             PROVE  Reached(crdt_reg'[s][k], clock'[s])
                    \/ StampOf(crdt_reg'[s][k]) \in observing'[s]
  BY DEF ClockInv
<1>5. CASE s = r
  BY <1>5, <1>1, <1>3, <1>4
<1>6. CASE s # r
  BY <1>6, <1>1 DEF ClockInv
<1> QED BY <1>5, <1>6

\* The steps that change the clock alone: a rollback, an observe, a restart.
LEMMA ClockMoves ==
  ASSUME TypeOK, ClockInv, NEW r \in Actors, NEW now \in 1..MaxWall,
         \/ LocalRollback(r, now)
         \/ \E s \in observing[r] : Observe(r, s, now)
         \/ Restart(r, now)
  PROVE  ClockInv'
<1>1. /\ \A s \in Actors \ {r} : clock'[s] = clock[s] /\ observing'[s] = observing[s]
      /\ crdt_reg' = crdt_reg
  BY DEF LocalRollback, Observe, Restart, TypeOK, tables
<1>2. clock[r] \in Clocks /\ crdt_reg[r] \in RegTables
      /\ \A k \in RegKeys : crdt_reg[r][k] \in Rows
  BY DEF TypeOK, RegTables
<1>3. ASSUME NEW k \in RegKeys
      PROVE  Reached(crdt_reg[r][k], clock'[r]) \/ StampOf(crdt_reg[r][k]) \in observing'[r]
  <2> DEFINE x == crdt_reg[r][k]
  <2>0. x \in Rows /\ x.wall \in Nat /\ x.logical \in Nat
    BY <1>2, RowFields
  <2>1. CASE LocalRollback(r, now)
    <3>1. clock'[r] = Tick(clock[r], now) /\ Reached(x, clock[r])
      BY <2>1 DEF LocalRollback, TypeOK, CanTick, Unlocked, ClockInv
    <3>2. Passed(x, clock'[r])
      BY <3>1, <2>0, <1>2, TickPasses
    <3>3. clock'[r].wall \in Nat /\ clock'[r].logical \in Nat
      BY <3>1, <1>2, ConstantsOK DEF Tick, Clocks, Walls
    <3> HIDE DEF x
    <3> QED BY <3>2, <3>3, <2>0 DEF Reached, Passed, x
  <2>2. CASE \E s \in observing[r] : Observe(r, s, now)
    <3>1. PICK s \in observing[r] : Observe(r, s, now)
      BY <2>2
    <3>2. /\ clock'[r] = ObserveStamp(clock[r], s, now) /\ s \in Clocks
          /\ observing'[r] = observing[r] \ {s}
      BY <3>1 DEF Observe, TypeOK
    <3>3. Reached(x, clock[r]) \/ StampOf(x) \in observing[r]
      BY DEF ClockInv
    <3>4. Reached(x, clock[r]) \/ StampOf(x) = s => Reached(x, clock'[r])
      BY <3>2, <2>0, <1>2, ObserveReaches
    <3> QED BY <3>2, <3>3, <3>4
  <2>3. CASE Restart(r, now)
    <3> DEFINE zero == [wall |-> 0, logical |-> 0]
               top  == MaxStamp(crdt_reg[r])
    <3>0. clock'[r] = OpenedClock(r, now)
      BY <2>3 DEF Restart, TypeOK
    <3>1. CASE \A j \in RegKeys : crdt_reg[r][j] = NoRow
      <4>1. clock'[r] = zero /\ x = NoRow
        BY <3>0, <3>1 DEF OpenedClock
      <4> QED BY <4>1 DEF Reached, NoRow
    <3>2. CASE ~(\A j \in RegKeys : crdt_reg[r][j] = NoRow)
      <4>1. clock'[r] = ObserveStamp(zero, top, now)
        BY <3>0, <3>2 DEF OpenedClock
      <4>2. top \in Rows /\ ~StampLess(top, x)
        BY <1>2, MaxStampLemma DEF RegTables
      <4> HIDE DEF top
      <4>3. top.wall \in Nat /\ top.logical \in Nat /\ StampOf(top) \in Clocks /\ zero \in Clocks
        BY <4>2, RowFields, ConstantsOK DEF Rows, StampOf, Clocks, Walls
      <4>4. ObserveStamp(zero, top, now) = ObserveStamp(zero, StampOf(top), now)
        BY DEF ObserveStamp, StampOf
      <4>5. Reached(top, clock'[r])
        BY <4>1, <4>2, <4>3, <4>4, ObserveReaches
      <4>6. clock'[r] \in Clocks
        BY <4>1, <4>3, <4>4, ObserveType
      <4>7. clock'[r].wall \in Nat /\ clock'[r].logical \in Nat
        BY <4>6, ConstantsOK DEF Clocks, Walls
      <4> HIDE DEF x
      <4> QED BY <4>2, <4>3, <4>5, <4>7, <2>0 DEF Reached, StampLess, x
    <3> QED BY <3>1, <3>2
  <2> QED BY <2>1, <2>2, <2>3
<1> SUFFICES ASSUME NEW s \in Actors, NEW k \in RegKeys
             PROVE  Reached(crdt_reg'[s][k], clock'[s])
                    \/ StampOf(crdt_reg'[s][k]) \in observing'[s]
  BY DEF ClockInv
<1>4. CASE s = r
  BY <1>4, <1>1, <1>3
<1>5. CASE s # r
  BY <1>5, <1>1 DEF ClockInv
<1> QED BY <1>4, <1>5

\* Steps that leave registers and clocks as they are.
LEMMA ClockIdle ==
  ASSUME ClockInv, UNCHANGED <<crdt_reg, clock, observing>>
  PROVE  ClockInv'
BY DEF ClockInv

\* Every step keeps the clocks in order.
LEMMA ClockNext == TypeOK /\ ClockInv /\ [Next]_vars => ClockInv'
<1> SUFFICES ASSUME TypeOK, ClockInv, [Next]_vars PROVE ClockInv'
  OBVIOUS
<1>1. ASSUME NEW r \in Actors, NEW now \in 1..MaxWall,
             \/ \E k \in RegKeys, v \in 1..MaxValue : Set(r, k, v, now)
             \/ \E k \in RegKeys : Delete(r, k, now)
             \/ \E k \in CtrKeys, d \in {-1, 1} : Add(r, k, d, now)
      PROVE  ClockInv'
  BY <1>1, LocalOps, ClockLocal
<1>2. ASSUME NEW r \in Actors, NEW now \in 1..MaxWall,
             \/ LocalRollback(r, now)
             \/ \E s \in observing[r] : Observe(r, s, now)
             \/ Restart(r, now)
      PROVE  ClockInv'
  BY <1>2, ClockMoves
<1>3. ASSUME NEW r \in Actors, NEW keep \in 0..MaxSeq, Compact(r, keep)
      PROVE  ClockInv'
  BY <1>3, ClockIdle DEF Compact
<1>4. ASSUME NEW c \in Calls,
             \/ \E r \in Actors, vv \in VVs : DeltaReadVV(c, r, vv)
             \/ DeltaReadFloors(c)
             \/ DeltaReadOps(c)
             \/ SnapshotReadVV(c)
             \/ SnapshotReadRegs(c)
             \/ SnapshotReadCtrs(c)
             \/ Forget(c)
      PROVE  ClockInv'
  BY <1>4, ClockIdle DEF DeltaReadVV, DeltaReadFloors, DeltaReadOps, SnapshotReadVV,
              SnapshotReadRegs, SnapshotReadCtrs, Forget, tables
<1>5. ASSUME NEW c \in Calls, NEW r \in Actors, Merge(r, c) \/ ApplySnapshot(r, c)
      PROVE  ClockInv'
  BY <1>5, ClockMerge
<1>6. CASE UNCHANGED vars
  BY <1>6, ClockIdle DEF vars
<1> QED BY <1>1, <1>2, <1>3, <1>4, <1>5, <1>6 DEF Next

\* The clock has reached every stamp of the box whenever the lock is free, across
\* restarts, rollbacks and wall clocks that jump (clock.tick, clock.observe, Open).
THEOREM ClockAheadHolds == Spec => []ClockAhead
<1>1. ClockInv => ClockAhead
  BY DEF ClockInv, ClockAhead, Reached, Unlocked
<1> QED BY <1>1, ClockInit, ClockNext, TypeCorrect, PTL DEF Spec

\* A local write to a last-writer-wins register is what the box reads back.
THEOREM LocalWriteWinsHolds == Spec => LocalWriteWins
<1> DEFINE Mine == \A r \in Actors : \A o \in issued' \ issued :
              ~GrowOnly /\ IsReg(o) /\ o.actor = r => crdt_reg'[r][o.key] = RowOf(o)
<1>1. TypeOK /\ ClockInv /\ [Next]_vars => Mine
  <2> SUFFICES ASSUME TypeOK, ClockInv, [Next]_vars PROVE Mine
    OBVIOUS
  <2>1. ASSUME NEW r \in Actors, NEW now \in 1..MaxWall,
               \/ \E k \in RegKeys, v \in 1..MaxValue : Set(r, k, v, now)
               \/ \E k \in RegKeys : Delete(r, k, now)
               \/ \E k \in CtrKeys, d \in {-1, 1} : Add(r, k, d, now)
        PROVE  Mine
    <3>1. PICK op \in Ops : /\ CanTick(r, now) /\ AppendLocal(r, op)
                            /\ op.actor = r /\ StampOf(op) = Tick(clock[r], now)
                            /\ IsReg(op) => op.key \in RegKeys
      BY <2>1, LocalOps
    <3>2. issued' = issued \cup {op}
      BY <3>1 DEF AppendLocal
    <3>3. ~GrowOnly /\ IsReg(op) => crdt_reg'[r][op.key] = RowOf(op)
      BY <3>1, ClockLocal
    <3> QED BY <3>1, <3>2, <3>3
  <2>2. CASE issued' = issued
    BY <2>2
  <2>3. ASSUME NEW r \in Actors, NEW now \in 1..MaxWall,
               \/ LocalRollback(r, now)
               \/ \E s \in observing[r] : Observe(r, s, now)
               \/ Restart(r, now)
        PROVE  issued' = issued
    BY <2>3 DEF LocalRollback, Observe, Restart, history
  <2>4. ASSUME NEW r \in Actors, NEW keep \in 0..MaxSeq, Compact(r, keep)
        PROVE  issued' = issued
    BY <2>4 DEF Compact, history
  <2>5. ASSUME NEW c \in Calls,
               \/ \E r \in Actors, vv \in VVs : DeltaReadVV(c, r, vv)
               \/ DeltaReadFloors(c)
               \/ DeltaReadOps(c)
               \/ SnapshotReadVV(c)
               \/ SnapshotReadRegs(c)
               \/ SnapshotReadCtrs(c)
               \/ \E r \in Actors : Merge(r, c)
               \/ \E r \in Actors : ApplySnapshot(r, c)
               \/ Forget(c)
        PROVE  issued' = issued
    BY <2>5 DEF DeltaReadVV, DeltaReadFloors, DeltaReadOps, SnapshotReadVV, SnapshotReadRegs,
                SnapshotReadCtrs, Merge, ApplySnapshot, Forget, history
  <2>6. CASE UNCHANGED vars
    BY <2>2, <2>6 DEF vars
  <2> HIDE DEF Mine
  <2> QED BY <2>1, <2>2, <2>3, <2>4, <2>5, <2>6 DEF Next
<1>2. Spec => []ClockInv
  BY ClockInit, ClockNext, TypeCorrect, PTL DEF Spec
<1>3. Mine => [\A r \in Actors : \A o \in issued' \ issued :
              ~GrowOnly /\ IsReg(o) /\ o.actor = r => crdt_reg'[r][o.key] = RowOf(o)]_vars
  OBVIOUS
<1> QED BY <1>1, <1>2, <1>3, TypeCorrect, PTL DEF Spec, LocalWriteWins
-----------------------------------------------------------------------------
(***************************************************************************)
(* The replicated store implements OpSets.  A local write originates an    *)
(* op; Merge and ApplySnapshot learn the ops their new version vector      *)
(* claims; every other step leaves both sets as they are.                  *)
(***************************************************************************)
\* The fields the mapping looks at.
LEMMA MappedFields ==
  ASSUME ReplicaInv
  PROVE  /\ \A o \in issued : o \in Ops /\ o.actor \in Actors /\ o.seq \in Nat
         /\ \A s, a \in Actors : seq[s][a] \in Nat
BY OpFields, MetaFields DEF ReplicaInv, TypeOK

\* A box whose version vector rises, and nobody else's, learns.
LEMMA LearnStep ==
  ASSUME ReplicaInv, UNCHANGED issued, NEW r \in Actors,
         \A s \in Actors \ {r} : \A a \in Actors : seq'[s][a] = seq[s][a],
         \A a \in Actors : seq'[r][a] \in Nat /\ seq[r][a] <= seq'[r][a]
  PROVE  Abstract!Next
<1>1. /\ \A o \in issued : o.actor \in Actors /\ o.seq \in Nat
      /\ \A s, a \in Actors : seq[s][a] \in Nat
  BY MappedFields
<1>2. \A s \in Actors \ {r} : known'[s] = known[s]
  BY <1>1 DEF known
<1>3. /\ known[r] \subseteq known'[r] /\ known'[r] \subseteq issued
      /\ \A o \in known'[r], p \in issued : EarlierOp(p, o) => p \in known'[r]
  <2>1. \A o \in issued : o \in known'[r] <=> o.seq <= seq'[r][o.actor]
    BY DEF known
  <2>2. known'[r] \subseteq issued
    BY DEF known
  <2>3. \A o \in known[r] : o \in issued /\ o.seq <= seq[r][o.actor]
    BY DEF known
  <2>4. known[r] \subseteq known'[r]
    BY <1>1, <2>1, <2>3
  <2> QED BY <1>1, <2>1, <2>2, <2>4 DEF EarlierOp
<1>4. known' = [known EXCEPT ![r] = known[r] \cup known'[r]]
  BY <1>2, <1>3 DEF known
<1>5. Abstract!Learn(r, known'[r])
  BY <1>3, <1>4 DEF Abstract!Learn, Abstract!Before
<1> QED BY <1>5 DEF Abstract!Next

\* A step that neither issues an op nor moves a version vector is a stutter.
LEMMA StutterStep ==
  ASSUME UNCHANGED issued, UNCHANGED seq
  PROVE  UNCHANGED <<issued, known>>
BY DEF known

\* A local write originates its op.
LEMMA OriginateStep ==
  ASSUME ReplicaInv, NEW r \in Actors, NEW op \in Ops, AppendLocal(r, op),
         op.actor = r, op.seq = seq[r][r] + 1
  PROVE  Abstract!Next
<1>1. /\ \A o \in issued : o.actor \in Actors /\ o.seq \in Nat
      /\ \A s, a \in Actors : seq[s][a] \in Nat
      /\ \A o \in issued : o.seq <= seq[o.actor][o.actor]
      /\ \A s, a \in Actors : seq[s][a] <= seq[a][a]
  BY MappedFields DEF ReplicaInv, IssuedOnce, VVBounded
<1>2. /\ issued' = issued \cup {op}
      /\ \A s, a \in Actors : seq'[s][a] = IF s = r /\ a = r THEN op.seq ELSE seq[s][a]
  BY DEF AppendLocal, ReplicaInv, TypeOK, VVs
<1>3. \A p \in issued : p # op /\ ~EarlierOp(op, p)
  BY <1>1 DEF EarlierOp
<1>4. \A p \in issued : EarlierOp(p, op) => p \in known[r]
  BY <1>1 DEF EarlierOp, known
<1>5. \A s \in Actors \ {r} : known'[s] = known[s]
  <2> SUFFICES ASSUME NEW s \in Actors \ {r} PROVE known'[s] = known[s]
    OBVIOUS
  <2>1. ~(op.seq <= seq'[s][r])
    BY <1>1, <1>2
  <2>2. \A o \in issued : seq'[s][o.actor] = seq[s][o.actor]
    BY <1>1, <1>2
  <2> QED BY <1>2, <2>1, <2>2 DEF known
<1>6. known'[r] = known[r] \cup {op}
  <2>1. op.seq <= seq'[r][r]
    BY <1>1, <1>2
  <2>2. \A o \in issued : o.seq <= seq'[r][o.actor] <=> o.seq <= seq[r][o.actor]
    BY <1>1, <1>2
  <2> QED BY <1>2, <2>1, <2>2 DEF known
<1>7. known' = [known EXCEPT ![r] = known[r] \cup {op}]
  BY <1>5, <1>6 DEF known
<1>8. Abstract!Originate(r, op)
  BY <1>2, <1>3, <1>4, <1>7 DEF Abstract!Originate, Abstract!Before
<1>9. op \in issued' \ issued
  BY <1>2, <1>3
<1> QED BY <1>8, <1>9 DEF Abstract!Next

\* Merge raises its box's version vector and no other.
LEMMA MergeRaises ==
  ASSUME ReplicaInv, NEW r \in Actors, NEW c \in Calls, Merge(r, c)
  PROVE  /\ UNCHANGED issued
         /\ \A s \in Actors \ {r} : \A a \in Actors : seq'[s][a] = seq[s][a]
         /\ \A a \in Actors : seq'[r][a] \in Nat /\ seq[r][a] <= seq'[r][a]
<1> DEFINE ops == call[c].ops
           log == InsertIfNew(crdt_op[r], ops)
           run(a) == AdvanceContiguous(log, a, seq[r][a])
<1>1. /\ seq' = [seq EXCEPT ![r] = [a \in Actors |->
                   IF \E o \in ops : o.actor = a THEN run(a) ELSE seq[r][a]]]
      /\ UNCHANGED issued
  BY DEF Merge, history
<1>2. log \subseteq issued
  BY DEF ReplicaInv, CallsSound, CallSound, InsertIfNew, LogApplied
<1> HIDE DEF log
<1>3. ASSUME NEW a \in Actors
      PROVE  /\ run(a) \in Nat /\ seq[r][a] <= run(a)
             /\ seq[r][a] \in Nat
  BY <1>2, MetaFields, RunIssued DEF ReplicaInv
<1> HIDE DEF run, ops
<1>4. seq \in [Actors -> VVs]
  BY DEF ReplicaInv, TypeOK
<1>5. \A a \in Actors : seq'[r][a] = run(a) \/ seq'[r][a] = seq[r][a]
  BY <1>1, <1>4
<1>6. \A s \in Actors \ {r} : seq'[s] = seq[s]
  BY <1>1, <1>4
<1> QED BY <1>1, <1>3, <1>5, <1>6

\* So does ApplySnapshot.
LEMMA SnapshotRaises ==
  ASSUME ReplicaInv, NEW r \in Actors, NEW c \in Calls, ApplySnapshot(r, c)
  PROVE  /\ UNCHANGED issued
         /\ \A s \in Actors \ {r} : \A a \in Actors : seq'[s][a] = seq[s][a]
         /\ \A a \in Actors : seq'[r][a] \in Nat /\ seq[r][a] <= seq'[r][a]
<1> DEFINE vv == call[c].vv
           newSeq(a) == Max({seq[r][a], vv[a]})
           newFloor(a) == Max({floor[r][a], vv[a]})
           log == {o \in crdt_op[r] : vv[o.actor] = 0 \/ o.seq > newFloor(o.actor)}
           run(a) == AdvanceContiguous(log, a, newSeq(a))
<1>1. /\ seq' = [seq EXCEPT ![r] = [a \in Actors |->
                   IF vv[a] = 0 THEN seq[r][a] ELSE run(a)]]
      /\ UNCHANGED issued
  BY DEF ApplySnapshot, RaisedFloor, history
<1>2. log \subseteq issued
  BY DEF ReplicaInv, LogApplied
<1> HIDE DEF log
<1>3. ASSUME NEW a \in Actors
      PROVE  /\ newSeq(a) \in Seqs /\ newSeq(a) \in Nat
             /\ seq[r][a] \in Nat /\ seq[r][a] <= newSeq(a)
  <2>1. /\ seq[r][a] \in Nat /\ seq[r][a] \in Seqs
        /\ vv[a] \in Nat /\ vv[a] \in Seqs
    BY MetaFields, CallFields DEF ReplicaInv
  <2>2. seq[r][a] \in Int /\ vv[a] \in Int
    BY <2>1
  <2> HIDE DEF vv
  <2>3. newSeq(a) \in {seq[r][a], vv[a]} /\ seq[r][a] <= newSeq(a)
    BY <2>2, MaxOfTwo
  <2> HIDE DEF newSeq
  <2> QED BY <2>1, <2>3
<1> HIDE DEF newSeq, newFloor
<1>4. ASSUME NEW a \in Actors PROVE run(a) \in Nat /\ newSeq(a) <= run(a)
  BY <1>2, <1>3, RunIssued DEF ReplicaInv
<1> HIDE DEF run, vv
<1>5. seq \in [Actors -> VVs]
  BY DEF ReplicaInv, TypeOK
<1>6. \A a \in Actors : seq'[r][a] = run(a) \/ seq'[r][a] = seq[r][a]
  BY <1>1, <1>5
<1>7. \A s \in Actors \ {r} : seq'[s] = seq[s]
  BY <1>1, <1>5
<1>8. \A a \in Actors : seq[r][a] <= run(a)
  BY <1>3, <1>4
<1> QED BY <1>1, <1>3, <1>4, <1>6, <1>7, <1>8

\* Every step of the store is a step of OpSets or a stutter.
LEMMA StepRefines ==
  ASSUME ReplicaInv, [Next]_vars
  PROVE  Abstract!Next \/ UNCHANGED <<issued, known>>
<1>0. TypeOK
  BY DEF ReplicaInv
<1>p. NoPair \in Pairs /\ 0 \in Values
  BY ConstantsOK DEF Values, NoPair, Pairs, Totals
<1>1. ASSUME NEW r \in Actors, NEW now \in 1..MaxWall, NEW k \in RegKeys,
             NEW v \in 1..MaxValue, Set(r, k, v, now)
      PROVE  Abstract!Next
  <2> DEFINE op == NewOp(r, k, "set", v, NoPair, Tick(clock[r], now))
  <2>1. op \in Ops /\ AppendLocal(r, op)
    <3>1. v \in Values
      BY ConstantsOK DEF Values
    <3> QED BY <1>0, <1>p, <1>1, <3>1, NewOpType DEF Set
  <2>2. op.actor = r /\ op.seq = seq[r][r] + 1
    BY DEF NewOp
  <2> HIDE DEF op
  <2> QED BY <2>1, <2>2, OriginateStep
<1>2. ASSUME NEW r \in Actors, NEW now \in 1..MaxWall, NEW k \in RegKeys,
             Delete(r, k, now)
      PROVE  Abstract!Next
  <2> DEFINE op == NewOp(r, k, "del", 0, NoPair, Tick(clock[r], now))
  <2>1. op \in Ops /\ AppendLocal(r, op)
    BY <1>0, <1>p, <1>2, NewOpType DEF Delete
  <2>2. op.actor = r /\ op.seq = seq[r][r] + 1
    BY DEF NewOp
  <2> HIDE DEF op
  <2> QED BY <2>1, <2>2, OriginateStep
<1>3. ASSUME NEW r \in Actors, NEW now \in 1..MaxWall, NEW k \in CtrKeys,
             NEW d \in {-1, 1}, Add(r, k, d, now)
      PROVE  Abstract!Next
  <2> DEFINE op == NewOp(r, k, "inc", 0, NewTotals(r, k, d), Tick(clock[r], now))
  <2>1. op \in Ops /\ AppendLocal(r, op)
    <3>1. NewTotals(r, k, d) \in Pairs
      BY <1>3 DEF Add
    <3> QED BY <1>0, <1>p, <1>3, <3>1, NewOpType DEF Add
  <2>2. op.actor = r /\ op.seq = seq[r][r] + 1
    BY DEF NewOp
  <2> HIDE DEF op
  <2> QED BY <2>1, <2>2, OriginateStep
<1>4. ASSUME NEW c \in Calls, NEW r \in Actors, Merge(r, c) PROVE Abstract!Next
  BY <1>4, MergeRaises, LearnStep
<1>5. ASSUME NEW c \in Calls, NEW r \in Actors, ApplySnapshot(r, c) PROVE Abstract!Next
  BY <1>5, SnapshotRaises, LearnStep
<1>6. ASSUME NEW r \in Actors, NEW now \in 1..MaxWall,
             LocalRollback(r, now) \/ (\E s \in observing[r] : Observe(r, s, now))
               \/ Restart(r, now)
      PROVE  UNCHANGED <<issued, seq>>
  BY <1>6 DEF LocalRollback, Observe, Restart, tables, history
<1>7. ASSUME NEW r \in Actors, NEW keep \in 0..MaxSeq, Compact(r, keep)
      PROVE  UNCHANGED <<issued, seq>>
  BY <1>7 DEF Compact, history
<1>8. ASSUME NEW c \in Calls,
             \/ \E r \in Actors, vv \in VVs : DeltaReadVV(c, r, vv)
             \/ DeltaReadFloors(c) \/ DeltaReadOps(c) \/ SnapshotReadVV(c)
             \/ SnapshotReadRegs(c) \/ SnapshotReadCtrs(c) \/ Forget(c)
      PROVE  UNCHANGED <<issued, seq>>
  BY <1>8 DEF DeltaReadVV, DeltaReadFloors, DeltaReadOps, SnapshotReadVV,
              SnapshotReadRegs, SnapshotReadCtrs, Forget, tables, history
<1>9. CASE UNCHANGED vars
  BY <1>9, StutterStep DEF vars
<1>10. CASE UNCHANGED <<issued, seq>>
  BY <1>10, StutterStep
<1> QED BY <1>1, <1>2, <1>3, <1>4, <1>5, <1>6, <1>7, <1>8, <1>9, <1>10 DEF Next

\* The store implements OpSets: no merge, snapshot, compaction, crash or
\* rolled-back write makes a box acknowledge an op out of order or take one
\* back, and it acknowledges only what its origin wrote (store.go).
THEOREM StoreImplementsOpSets == Spec => ImplementsOpSets
<1>1. Init => Abstract!Init
  BY DEF Init, Abstract!Init, known
<1>2. ReplicaInv /\ [Next]_vars => [Abstract!Next]_<<issued, known>>
  BY StepRefines
<1> QED BY <1>1, <1>2, ReplicaInvariant, PTL DEF Spec, ImplementsOpSets, Abstract!Spec
=============================================================================
