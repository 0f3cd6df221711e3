------------------------------ MODULE CrdtStore ------------------------------
(***************************************************************************)
(* The replicated store of backend/internal/crdtsync (store.go, types.go): *)
(* every box keeps an op log, a materialised state of last-writer-wins     *)
(* registers and PN-counters, a version vector and a compaction floor per  *)
(* origin actor, and a hybrid logical clock.  Boxes exchange deltas (sets  *)
(* of ops) and snapshots that may be lost, duplicated and reordered.       *)
(*                                                                         *)
(* One domain is modelled.  A transaction under Store.mu is one step.      *)
(* Store.Delta and Store.Snapshot take no lock: each of their SQL queries  *)
(* is a step of its own, so a writer may run between any two of them.  The *)
(* clock.observe calls that follow the commit of Merge and ApplySnapshot,  *)
(* still under Store.mu, are steps of their own too: a crash can fall      *)
(* between the commit and the last of them.                                *)
(***************************************************************************)
EXTENDS Integers, FiniteSets, FiniteSetsExt

CONSTANTS
  N,          \* number of boxes
  RegKeys,    \* (key, field) pairs used as registers
  CtrKeys,    \* (key, field) pairs used as counters
  MaxValue,   \* register values are 1..MaxValue, in the order of their bytes
  GrowOnly,   \* policy.go: the domain keeps the first writer, refuses deletes
  DeltaLimit, \* ops per delta (DefaultDeltaLimit in the code)
  MaxSeq,     \* bound: sequence numbers
  Budget,     \* bound: how many ops each box originates, at most MaxSeq
  MaxWall,    \* bound: readings of the wall clock are 1..MaxWall
  MaxLogical, \* bound: logical component of the clock
  MaxTotal,   \* bound: cumulative counter totals
  Faults,     \* the failures of a run: "restart", "rollback"
  Calls       \* bound: slots for Delta calls and their answers in flight

ASSUME ConstantsOK ==
  /\ N \in Nat \ {0}
  /\ MaxValue \in Nat
  /\ GrowOnly \in BOOLEAN
  /\ DeltaLimit \in Nat \ {0}
  /\ MaxSeq \in Nat
  /\ Budget \in [1..N -> 0..MaxSeq]
  /\ MaxWall \in Nat
  /\ MaxLogical \in Nat
  /\ MaxTotal \in Nat

(***************************************************************************)
(* Instance ULIDs are only ever compared for order, so they are numbers.   *)
(* Value 0 stands for the NULL value of a tombstone: "live beats deleted,  *)
(* then the larger bytes" is then the order of numbers.                    *)
(***************************************************************************)
Actors == 1..N
Seqs   == 0..MaxSeq
Walls  == 0..MaxWall
Values == 0..MaxValue
Totals == 0..MaxTotal

Clocks == [wall : Walls, logical : 0..MaxLogical]
Rows   == [wall : Walls, logical : 0..MaxLogical, actor : 0..N, val : Values]
Pairs  == [pos : Totals, neg : Totals]
Ops    == [actor : Actors, seq : 1..MaxSeq, key : RegKeys \cup CtrKeys,
           kind : {"set", "del", "inc"}, val : Values, pos : Totals,
           neg : Totals, wall : Walls, logical : 0..MaxLogical]
VVs    == [Actors -> Seqs]
RegTables == [RegKeys -> Rows]
CtrTables == [CtrKeys -> [Actors -> Pairs]]

\* A register that has no row, and a counter that has none.
NoRow  == [wall |-> 0, logical |-> 0, actor |-> 0, val |-> 0]
NoPair == [pos |-> 0, neg |-> 0]
NoVV   == [a \in Actors |-> 0]
NoRegs == [k \in RegKeys |-> NoRow]
NoCtrs == [k \in CtrKeys |-> [a \in Actors |-> NoPair]]

VARIABLES
  crdt_op,   \* table crdt_op of each box: the ops it still holds
  crdt_reg,  \* table crdt_reg: register rows
  crdt_ctr,  \* table crdt_ctr: counter totals per actor
  seq,       \* crdt_meta.seq, the version vector
  floor,     \* crdt_meta.floor
  clock,     \* the in-memory hybrid logical clock
  observing, \* stamps committed but not yet observed; Store.mu is held
  call,      \* Delta calls, with what each has read so far, or its answer
  issued,    \* history: every op any box ever originated
  added      \* history: the sums of what each box passed to Add

tables  == <<crdt_op, crdt_reg, crdt_ctr, seq, floor>>
history == <<issued, added>>
vars    == <<crdt_op, crdt_reg, crdt_ctr, seq, floor, clock, observing, call,
             issued, added>>
-----------------------------------------------------------------------------
(* Stamps and the register order                                           *)

\* Stamp.Compare < 0, for whatever carries wall, logical and actor.
StampLess(x, y) ==
  \/ x.wall < y.wall
  \/ x.wall = y.wall /\ x.logical < y.logical
  \/ x.wall = y.wall /\ x.logical = y.logical /\ x.actor < y.actor

SameStamp(x, y) ==
  x.wall = y.wall /\ x.logical = y.logical /\ x.actor = y.actor

\* registerWins: the last writer, then a live value, then the larger bytes.
LastWriterWins(in, cur) ==
  \/ StampLess(cur, in)
  \/ SameStamp(in, cur) /\ in.val > cur.val

\* registerWinsIn: a grow-only domain keeps the first writer.
FirstWriterWins(in, cur) ==
  \/ StampLess(in, cur)
  \/ SameStamp(in, cur) /\ in.val < cur.val

Wins(in, cur) ==
  IF GrowOnly THEN FirstWriterWins(in, cur) ELSE LastWriterWins(in, cur)

\* What mergeRegister leaves when it is run over all of rows, in any order.
Winner(rows) == CHOOSE w \in rows : \A x \in rows : ~Wins(x, w)

\* Fault: the last delivered row is kept whatever its stamp.
MergeRegister_LastArrived(cur, rows) ==
  IF rows = {} THEN cur ELSE CHOOSE w \in rows : TRUE

MergeRegister(cur, rows) ==
  LET all == rows \cup ({cur} \ {NoRow})
  IN  IF all = {} THEN NoRow ELSE Winner(all)

\* mergeCounter over all of pairs: the maximum of each total.
MergeCounter(cur, pairs) ==
  [pos |-> Max({p.pos : p \in pairs} \cup {cur.pos}),
   neg |-> Max({p.neg : p \in pairs} \cup {cur.neg})]

\* clock.tick
Tick(c, now) ==
  IF now > c.wall THEN [wall |-> now, logical |-> 0]
                  ELSE [wall |-> c.wall, logical |-> c.logical + 1]

\* Fault: a remote stamp with the clock's own wall is taken as not newer.
ObserveStamp_WallOnly(c, s, now) ==
  IF s.wall > c.wall /\ s.wall >= now THEN [wall |-> s.wall, logical |-> s.logical]
  ELSE IF now > c.wall THEN [wall |-> now, logical |-> 0] ELSE c

\* clock.observe
ObserveStamp(c, s, now) ==
  CASE s.wall > c.wall /\ s.wall >= now -> [wall |-> s.wall, logical |-> s.logical]
    [] s.wall = c.wall /\ s.logical > c.logical ->
         [wall |-> c.wall, logical |-> s.logical]
    [] ~(s.wall > c.wall /\ s.wall >= now)
         /\ ~(s.wall = c.wall /\ s.logical > c.logical) /\ now > c.wall ->
         [wall |-> now, logical |-> 0]
    [] OTHER -> c

StampOf(x) == [wall |-> x.wall, logical |-> x.logical]
-----------------------------------------------------------------------------
(* Ops and the tables                                                      *)

IsReg(o) == o.kind \in {"set", "del"}
RowOf(o)  == [wall |-> o.wall, logical |-> o.logical, actor |-> o.actor,
              val |-> o.val]
PairOf(o) == [pos |-> o.pos, neg |-> o.neg]

\* applyToState over a set of ops.
ApplyRegs(regs, ops) ==
  [k \in RegKeys |->
     MergeRegister(regs[k], {RowOf(o) : o \in {p \in ops : IsReg(p) /\ p.key = k}})]

ApplyCtrs(ctrs, ops) ==
  [k \in CtrKeys |-> [a \in Actors |->
     MergeCounter(ctrs[k][a],
       {PairOf(o) : o \in {p \in ops : ~IsReg(p) /\ p.key = k /\ p.actor = a}})]]

HasRow(log, a, n) == \E o \in log : o.actor = a /\ o.seq = n

\* insertOpIfNew: INSERT OR IGNORE on the primary key (actor, seq).
InsertIfNew(log, ops) == log \cup {o \in ops : ~HasRow(log, o.actor, o.seq)}

\* Fault: the run is looked for from the first row, which may be compacted away.
AdvanceContiguous_FromOne(log, a, cur) ==
  CHOOSE n \in 0..MaxSeq :
    /\ \A i \in 1..n : HasRow(log, a, i)
    /\ ~HasRow(log, a, n + 1)

\* advanceContiguous: the end of the run of rows that starts after cur.
AdvanceContiguous(log, a, cur) ==
  CHOOSE n \in cur..MaxSeq :
    /\ \A i \in (cur + 1)..n : HasRow(log, a, i)
    /\ ~HasRow(log, a, n + 1)

\* opsAfter: the first n rows of one actor after a sequence number.
OpsAfter(log, a, after, n) ==
  LET rows == {o \in log : o.actor = a /\ o.seq > after}
  IN  {o \in rows : Cardinality({p \in rows : p.seq <= o.seq}) <= n}
-----------------------------------------------------------------------------
\* A slot is idle, holds a call that box at is executing (it has read
\* everything that precedes pc), or holds an answer in flight: "delta" or
\* "snapshot".  The fields a state does not use keep their values in NoCall.
NoCall == [pc |-> "idle", at |-> 1, peerVV |-> NoVV, todo |-> {}, ops |-> {},
           vv |-> NoVV, regs |-> NoRegs, ctrs |-> NoCtrs]

Init ==
  /\ crdt_op = [r \in Actors |-> {}]
  /\ crdt_reg = [r \in Actors |-> NoRegs]
  /\ crdt_ctr = [r \in Actors |-> NoCtrs]
  /\ seq = [r \in Actors |-> NoVV]
  /\ floor = [r \in Actors |-> NoVV]
  /\ clock = [r \in Actors |-> [wall |-> 0, logical |-> 0]]
  /\ observing = [r \in Actors |-> {}]
  /\ call = [c \in Calls |-> NoCall]
  /\ issued = {}
  /\ added = [r \in Actors |-> [k \in CtrKeys |-> NoPair]]

Unlocked(r) == observing[r] = {}

(***************************************************************************)
(* Local mutations.  The wall clock is read by tick and may have jumped    *)
(* either way since the last reading.                                      *)
(***************************************************************************)
AppendLocal(r, op) ==
  /\ ~HasRow(crdt_op[r], r, op.seq)
  /\ crdt_op'  = [crdt_op EXCEPT ![r] = @ \cup {op}]
  /\ crdt_reg' = [crdt_reg EXCEPT ![r] = ApplyRegs(@, {op})]
  /\ crdt_ctr' = [crdt_ctr EXCEPT ![r] = ApplyCtrs(@, {op})]
  /\ seq'      = [seq EXCEPT ![r][r] = op.seq]
  /\ clock'    = [clock EXCEPT ![r] = StampOf(op)]
  /\ issued'   = issued \cup {op}
  /\ UNCHANGED <<floor, observing, call>>

\* An op of box r, not yet stamped into its log.
NewOp(r, k, kind, val, pair, stamp) ==
  [actor |-> r, seq |-> seq[r][r] + 1, key |-> k, kind |-> kind, val |-> val,
   pos |-> pair.pos, neg |-> pair.neg, wall |-> stamp.wall,
   logical |-> stamp.logical]

CanTick(r, now) ==
  /\ Unlocked(r)
  /\ seq[r][r] < Budget[r]
  /\ Tick(clock[r], now).logical <= MaxLogical

Set(r, k, v, now) ==
  /\ CanTick(r, now)
  /\ AppendLocal(r, NewOp(r, k, "set", v, NoPair, Tick(clock[r], now)))
  /\ UNCHANGED added

Delete(r, k, now) ==
  /\ ~GrowOnly
  /\ CanTick(r, now)
  /\ AppendLocal(r, NewOp(r, k, "del", 0, NoPair, Tick(clock[r], now)))
  /\ UNCHANGED added

\* A counter's totals after one more delta.
Plus(pair, delta) ==
  IF delta >= 0 THEN [pos |-> pair.pos + delta, neg |-> pair.neg]
                ELSE [pos |-> pair.pos, neg |-> pair.neg - delta]

\* Fault: the op carries the delta.
NewTotals_DeltaOnly(r, k, delta) == Plus(NoPair, delta)

\* The totals box r emits after adding delta: cumulative, never the delta.
NewTotals(r, k, delta) == Plus(crdt_ctr[r][k][r], delta)

Add(r, k, delta, now) ==
  /\ CanTick(r, now)
  /\ NewTotals(r, k, delta) \in Pairs
  /\ AppendLocal(r, NewOp(r, k, "inc", 0, NewTotals(r, k, delta),
                          Tick(clock[r], now)))
  /\ added' = [added EXCEPT ![r][k] = Plus(@, delta)]

\* A local transaction that fails after tick: it rolls back, the clock does not.
LocalRollback(r, now) ==
  /\ "rollback" \in Faults
  /\ CanTick(r, now)
  /\ clock' = [clock EXCEPT ![r] = Tick(@, now)]
  /\ UNCHANGED <<tables, observing, call, history>>
-----------------------------------------------------------------------------
(***************************************************************************)
(* Delta, one step per query.  The peer's version vector decides only what *)
(* is transmitted: doc.go allows it to be stale, wrong or empty.           *)
(***************************************************************************)
DeltaReadVV(c, r, peerVV) ==
  LET todo == {a \in Actors : seq[r][a] > peerVV[a]}
  IN  /\ call[c].pc = "idle"
      /\ todo # {}      \* otherwise the answer is empty and Merge ignores it
      /\ call' = [call EXCEPT ![c] = [NoCall EXCEPT
                    !.pc = "floors", !.at = r, !.todo = todo,
                    !.peerVV = [a \in Actors |-> IF a \in todo THEN peerVV[a] ELSE 0]]]
      /\ UNCHANGED <<tables, clock, observing, history>>

\* The peer lacks ops that are no longer in the log.
BehindFloor(c) ==
  \E a \in call[c].todo : call[c].peerVV[a] < floor[call[c].at][a]

DeltaReadFloors(c) ==
  /\ call[c].pc = "floors"
  /\ call' = [call EXCEPT ![c] =
       IF BehindFloor(c) THEN [NoCall EXCEPT !.pc = "snapVV", !.at = call[c].at]
                         ELSE [call[c] EXCEPT !.pc = "ops"]]
  /\ UNCHANGED <<tables, clock, observing, history>>

\* One iteration of the loop over the sorted actors; the last one answers.
DeltaReadOps(c) ==
  /\ call[c].pc = "ops"
  /\ LET a    == Min(call[c].todo)
         ops  == call[c].ops \cup
                   OpsAfter(crdt_op[call[c].at], a, call[c].peerVV[a],
                            DeltaLimit - Cardinality(call[c].ops))
         done == call[c].todo = {a} \/ Cardinality(ops) >= DeltaLimit
     IN  call' = [call EXCEPT ![c] =
                    IF done THEN [NoCall EXCEPT !.pc = "delta", !.ops = ops]
                    ELSE [call[c] EXCEPT !.todo = call[c].todo \ {a}, !.ops = ops]]
  /\ UNCHANGED <<tables, clock, observing, history>>

\* Snapshot reads the version vector first, then the state it covers.
SnapshotReadVV(c) ==
  /\ call[c].pc = "snapVV"
  /\ call' = [call EXCEPT ![c].pc = "snapRegs", ![c].vv = seq[call[c].at]]
  /\ UNCHANGED <<tables, clock, observing, history>>

SnapshotReadRegs(c) ==
  /\ call[c].pc = "snapRegs"
  /\ call' = [call EXCEPT ![c].pc = "snapCtrs", ![c].regs = crdt_reg[call[c].at]]
  /\ UNCHANGED <<tables, clock, observing, history>>

\* Fault: the version vector is read after the state.
TakenVV_ReadLast(c) == seq[call[c].at]

\* The version vector a snapshot carries: the one read before the state.
TakenVV(c) == call[c].vv

SnapshotReadCtrs(c) ==
  /\ call[c].pc = "snapCtrs"
  /\ call' = [call EXCEPT ![c] = [NoCall EXCEPT
       !.pc = "snapshot", !.vv = TakenVV(c), !.regs = call[c].regs,
       !.ctrs = crdt_ctr[call[c].at]]]
  /\ UNCHANGED <<tables, clock, observing, history>>
-----------------------------------------------------------------------------
(* Merge, ApplySnapshot, Compact: one transaction each, under Store.mu.    *)

Merge(r, c) ==
  LET ops == call[c].ops
      log == InsertIfNew(crdt_op[r], ops)
  IN
  /\ call[c].pc = "delta"
  /\ Unlocked(r)
  /\ GrowOnly => \A o \in ops : o.kind # "del"
  /\ crdt_op' = [crdt_op EXCEPT ![r] = log]
  /\ seq' = [seq EXCEPT ![r] = [a \in Actors |->
               IF \E o \in ops : o.actor = a
               THEN AdvanceContiguous(log, a, seq[r][a])
               ELSE seq[r][a]]]
  /\ crdt_reg' = [crdt_reg EXCEPT ![r] = ApplyRegs(@, ops)]
  /\ crdt_ctr' = [crdt_ctr EXCEPT ![r] = ApplyCtrs(@, ops)]
  /\ observing' = [observing EXCEPT ![r] = {StampOf(o) : o \in ops}]
  /\ UNCHANGED <<floor, clock, call, history>>

\* Fault: the snapshot raises the version vector and not the floor.
RaisedFloor_NotRaised(r, a, vv) == floor[r][a]

\* The rows a snapshot covers never reached this log.
RaisedFloor(r, a, vv) == Max({floor[r][a], vv[a]})

SnapRows(snap) == {snap.regs[k] : k \in RegKeys} \ {NoRow}

ApplySnapshot(r, c) ==
  LET snap == call[c]
      newSeq(a)   == Max({seq[r][a], snap.vv[a]})
      newFloor(a) == RaisedFloor(r, a, snap.vv)
      log == {o \in crdt_op[r] :
                snap.vv[o.actor] = 0 \/ o.seq > newFloor(o.actor)}
  IN
  /\ snap.pc = "snapshot"
  /\ Unlocked(r)
  /\ GrowOnly => \A row \in SnapRows(snap) : row.val # 0
  /\ crdt_reg' = [crdt_reg EXCEPT ![r] = [k \in RegKeys |->
                    MergeRegister(crdt_reg[r][k], {snap.regs[k]} \ {NoRow})]]
  /\ crdt_ctr' = [crdt_ctr EXCEPT ![r] = [k \in CtrKeys |-> [a \in Actors |->
                    MergeCounter(crdt_ctr[r][k][a], {snap.ctrs[k][a]})]]]
  /\ crdt_op' = [crdt_op EXCEPT ![r] = log]
  /\ floor' = [floor EXCEPT ![r] = [a \in Actors |-> newFloor(a)]]
  /\ seq' = [seq EXCEPT ![r] = [a \in Actors |->
               IF snap.vv[a] = 0 THEN seq[r][a]
               ELSE AdvanceContiguous(log, a, newSeq(a))]]
  /\ observing' = [observing EXCEPT ![r] = {StampOf(x) : x \in SnapRows(snap)}]
  /\ UNCHANGED <<clock, call, history>>

\* The clock.observe loop that ends Merge and ApplySnapshot.
Observe(r, s, now) ==
  /\ s \in observing[r]
  /\ observing' = [observing EXCEPT ![r] = @ \ {s}]
  /\ clock' = [clock EXCEPT ![r] = ObserveStamp(@, s, now)]
  /\ UNCHANGED <<tables, call, history>>

\* Fault: the comparison with the old floor is dropped.
CompactedFloor_Unclamped(r, a, keep) == seq[r][a] - keep

\* Compact's new floor for one actor; the old one when it would not rise.
CompactedFloor(r, a, keep) == Max({floor[r][a], seq[r][a] - keep})

Compact(r, keep) ==
  /\ Unlocked(r)
  /\ LET newFloor(a) == CompactedFloor(r, a, keep)
     IN  /\ floor' = [floor EXCEPT ![r] = [a \in Actors |-> newFloor(a)]]
         /\ crdt_op' = [crdt_op EXCEPT ![r] =
              {o \in @ : \/ o.seq > newFloor(o.actor)
                         \/ newFloor(o.actor) = floor[r][o.actor]}]
  /\ UNCHANGED <<crdt_reg, crdt_ctr, seq, clock, observing, call, history>>
-----------------------------------------------------------------------------
(* Crashes and the network                                                 *)

MaxStamp(regs) ==
  CHOOSE w \in {regs[k] : k \in RegKeys} :
    \A k \in RegKeys : ~StampLess(w, regs[k])

\* Fault: Open leaves the clock at zero.
OpenedClock_NotSeeded(r, now) == [wall |-> 0, logical |-> 0]

\* Open re-seeds a zero clock from the highest stamp of crdt_reg, if any.
OpenedClock(r, now) ==
  LET zero == [wall |-> 0, logical |-> 0]
  IN  IF \A k \in RegKeys : crdt_reg[r][k] = NoRow THEN zero
      ELSE ObserveStamp(zero, MaxStamp(crdt_reg[r]), now)

\* The process dies, with its calls and its clock, and Open runs again.
Restart(r, now) ==
  /\ "restart" \in Faults
  /\ clock' = [clock EXCEPT ![r] = OpenedClock(r, now)]
  /\ observing' = [observing EXCEPT ![r] = {}]
  /\ call' = [c \in Calls |->
       IF call[c].pc \notin {"delta", "snapshot"} /\ call[c].at = r
       THEN NoCall ELSE call[c]]
  /\ UNCHANGED <<tables, history>>

\* Merge and ApplySnapshot leave the answer in place: it may come again, to
\* any box, until the network forgets it.
Forget(c) ==
  /\ call[c].pc \in {"delta", "snapshot"}
  /\ call' = [call EXCEPT ![c] = NoCall]
  /\ UNCHANGED <<tables, clock, observing, history>>

Next ==
  \/ \E r \in Actors, now \in 1..MaxWall :
       \/ \E k \in RegKeys, v \in 1..MaxValue : Set(r, k, v, now)
       \/ \E k \in RegKeys : Delete(r, k, now)
       \/ \E k \in CtrKeys, d \in {-1, 1} : Add(r, k, d, now)
       \/ LocalRollback(r, now)
       \/ \E s \in observing[r] : Observe(r, s, now)
       \/ Restart(r, now)
  \/ \E r \in Actors, keep \in 0..MaxSeq : Compact(r, keep)
  \/ \E c \in Calls :
       \/ \E r \in Actors, vv \in VVs : DeltaReadVV(c, r, vv)
       \/ DeltaReadFloors(c)
       \/ DeltaReadOps(c)
       \/ SnapshotReadVV(c)
       \/ SnapshotReadRegs(c)
       \/ SnapshotReadCtrs(c)
       \/ \E r \in Actors : Merge(r, c)
       \/ \E r \in Actors : ApplySnapshot(r, c)
       \/ Forget(c)

Spec == Init /\ [][Next]_vars
-----------------------------------------------------------------------------
CallStates ==
  [pc : {"idle", "floors", "ops", "snapVV", "snapRegs", "snapCtrs", "delta",
         "snapshot"},
   at : Actors, peerVV : VVs, todo : SUBSET Actors, ops : SUBSET Ops,
   vv : VVs, regs : RegTables, ctrs : CtrTables]

\* Every variable has its type.
TypeOK ==
  /\ crdt_op \in [Actors -> SUBSET Ops]
  /\ crdt_reg \in [Actors -> RegTables]
  /\ crdt_ctr \in [Actors -> CtrTables]
  /\ seq \in [Actors -> VVs]
  /\ floor \in [Actors -> VVs]
  /\ clock \in [Actors -> Clocks]
  /\ observing \in [Actors -> SUBSET Clocks]
  /\ call \in [Calls -> CallStates]
  /\ issued \in SUBSET Ops
  /\ added \in [Actors -> [CtrKeys -> [pos : Nat, neg : Nat]]]

\* The effect of an op is in a box's state: its register holds the op's row or
\* one that row does not beat; its counter is at least the op's totals.
InState(regs, ctrs, o) ==
  IF IsReg(o)
  THEN regs[o.key] # NoRow /\ ~Wins(RowOf(o), regs[o.key])
  ELSE /\ ctrs[o.key][o.actor].pos >= o.pos
       /\ ctrs[o.key][o.actor].neg >= o.neg

\* A version vector never claims an op whose effect is not in the state: the
\* peer would never be asked for it again (advanceContiguous, and the order of
\* the reads in Snapshot).
Coverage ==
  \A r \in Actors, o \in issued :
    o.seq <= seq[r][o.actor] => InState(crdt_reg[r], crdt_ctr[r], o)

\* Every op between the floor and the version vector is still in the log, so
\* Delta can serve every peer that is not behind the floor.
Servable ==
  \A r \in Actors, o \in issued :
    floor[r][o.actor] < o.seq /\ o.seq <= seq[r][o.actor] => o \in crdt_op[r]

Heads == [a \in Actors |-> seq[a][a]]

\* Boxes that have received every op hold the same state, whatever the order,
\* the duplicates, the snapshots and the compactions along the way.
Convergence ==
  \A r, s \in Actors :
    seq[r] = Heads /\ seq[s] = Heads =>
      crdt_reg[r] = crdt_reg[s] /\ crdt_ctr[r] = crdt_ctr[s]

\* The clock is at or past every register stamp of the box once the lock is
\* released, across restarts and wall clocks that jump back (clock.observe).
ClockAhead ==
  \A r \in Actors, k \in RegKeys :
    Unlocked(r) =>
      \/ crdt_reg[r][k].wall < clock[r].wall
      \/ /\ crdt_reg[r][k].wall = clock[r].wall
         /\ crdt_reg[r][k].logical <= clock[r].logical

\* A counter never shows more of an actor's additions than the actor made, and
\* shows all of them once its ops have arrived, however often they arrive
\* (Add emits cumulative totals, mergeCounter takes the maximum).
CountedOnce ==
  \A r, a \in Actors, k \in CtrKeys :
    /\ crdt_ctr[r][k][a].pos <= added[a][k].pos
    /\ crdt_ctr[r][k][a].neg <= added[a][k].neg
    /\ seq[r][a] = seq[a][a] => crdt_ctr[r][k][a] = added[a][k]

\* A local write to a last-writer-wins register is what the box reads back.
LocalWriteWins ==
  [][\A r \in Actors : \A o \in issued' \ issued :
       ~GrowOnly /\ IsReg(o) /\ o.actor = r => crdt_reg'[r][o.key] = RowOf(o)]_vars

\* No step lowers a version vector or a floor, and a register changes only to
\* a row that beats the one it held.
Monotone ==
  [][\A r \in Actors :
       /\ \A a \in Actors : seq'[r][a] >= seq[r][a] /\ floor'[r][a] >= floor[r][a]
       /\ \A k \in RegKeys :
            crdt_reg[r][k] # NoRow /\ crdt_reg'[r][k] # crdt_reg[r][k] =>
              crdt_reg'[r][k] # NoRow /\ Wins(crdt_reg'[r][k], crdt_reg[r][k])]_vars

-----------------------------------------------------------------------------
(* The inductive invariant behind Coverage, Servable and Convergence.      *)

\* Sequence numbers are used once, in order, on keys of the right kind.
IssuedOnce ==
  /\ \A o \in issued :
       /\ o.seq <= seq[o.actor][o.actor]
       /\ o.key \in IF IsReg(o) THEN RegKeys ELSE CtrKeys
  /\ \A o, p \in issued : o.actor = p.actor /\ o.seq = p.seq => o = p

\* No box knows more of an actor than the actor itself.
VVBounded ==
  \A r, a \in Actors : floor[r][a] <= seq[r][a] /\ seq[r][a] <= seq[a][a]

\* A log holds only ops that were issued, and the effect of a logged op is in
\* the state even while a gap keeps the version vector below it.
LogApplied ==
  \A r \in Actors : \A o \in crdt_op[r] :
    o \in issued /\ InState(crdt_reg[r], crdt_ctr[r], o)

\* A delta carries issued ops; what a snapshot has read so far covers the
\* version vector it read first.
CallSound(cl) ==
  /\ cl.ops \subseteq issued
  /\ \A a \in Actors : cl.vv[a] <= seq[a][a]
  /\ cl.pc \in {"snapRegs", "snapCtrs"} => \A a \in Actors : cl.vv[a] <= seq[cl.at][a]
  /\ cl.pc = "snapCtrs" =>
       \A o \in issued : IsReg(o) /\ o.seq <= cl.vv[o.actor] =>
         InState(cl.regs, cl.ctrs, o)
  /\ cl.pc = "snapshot" =>
       \A o \in issued : o.seq <= cl.vv[o.actor] => InState(cl.regs, cl.ctrs, o)

CallsSound == \A c \in Calls : CallSound(call[c])

\* The inductive invariant: each part is needed to show another preserved.
ReplicaInv ==
  /\ TypeOK
  /\ IssuedOnce
  /\ VVBounded
  /\ LogApplied
  /\ CallsSound
  /\ Coverage
  /\ Servable

\* Every register row is the row of one of ops.
RowsFrom(regs, ops) ==
  \A k \in RegKeys : regs[k] # NoRow =>
    \E o \in ops : IsReg(o) /\ o.key = k /\ RowOf(o) = regs[k]

\* No box and no snapshot holds a row that was not issued for its register.
NothingInvented ==
  /\ \A r \in Actors : RowsFrom(crdt_reg[r], issued)
  /\ \A c \in Calls : RowsFrom(call[c].regs, issued)

\* A table of counters shows no more of an actor than the actor added.
AtMost(ctrs, sums) ==
  \A a \in Actors, k \in CtrKeys :
    ctrs[k][a].pos <= sums[a][k].pos /\ ctrs[k][a].neg <= sums[a][k].neg

\* A box's own total is what it added, and the last op it issued carries it.
OwnTotals ==
  \A a \in Actors, k \in CtrKeys :
    /\ crdt_ctr[a][k][a] = added[a][k]
    /\ \/ added[a][k] = NoPair
       \/ \E o \in issued : /\ ~IsReg(o) /\ o.key = k /\ o.actor = a
                            /\ PairOf(o) = added[a][k]

\* The totals of every table, snapshot and op are bounded by what was added.
TotalsLead ==
  /\ OwnTotals
  /\ \A r \in Actors : AtMost(crdt_ctr[r], added)
  /\ \A c \in Calls : AtMost(call[c].ctrs, added)
  /\ \A o \in issued : ~IsReg(o) =>
       o.pos <= added[o.actor][o.key].pos /\ o.neg <= added[o.actor][o.key].neg
-----------------------------------------------------------------------------
\* types.go: "every stamp this actor emits sorts strictly after every stamp it
\* has previously emitted".
StampsIncrease ==
  \A o, p \in issued : o.actor = p.actor /\ o.seq < p.seq => StampLess(o, p)
=============================================================================
