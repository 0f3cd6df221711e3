------------------------------ MODULE AppFleet -------------------------------
(***************************************************************************)
(* The apps of a fleet: what the user wants on every box (app_desired) and *)
(* what each box reports it has (app_registry), in one table of rows here, *)
(* as on the wire (internal/multiinstance/appsync.go).  A click in the     *)
(* store changes this box's disk and then writes both rows; a reconcile    *)
(* loop brings the disk to what is wanted and reports; the fabric loop     *)
(* pulls a peer's rows above a time cursor, pushes its own above the same  *)
(* cursor, and advances it (internal/fabric/fabric.go).                    *)
(*                                                                         *)
(* Boxes are numbers in the order of their ULIDs.  Versions and the words  *)
(* of a failure are left out: a failed row has the kind of its failure.    *)
(***************************************************************************)
EXTENDS Integers, FiniteSets, FiniteSetsExt

CONSTANTS
  N,          \* number of boxes; every box has all of them in its roster
  Apps,       \* app IDs, numbers in their order
  Dials,      \* the peers each box discovers
  Runs,       \* the boxes whose architecture an app supports
  Ahead,      \* how far the clock of a box is ahead of the slowest
  Verified,   \* the origins whose signature checks out: rostered, not revoked
  Starts,     \* how a fleet may be at the start: "new", "settled"
  MaxEvents,  \* bound: clicks of the user, and faults
  FleetFaults, \* which faults: "wipe", "installer", "network"
  MaxTime     \* bound: times read from a clock

Boxes == 1..N
Fleet == 0              \* DesiredSetULID, less than every ULID
Keys  == (Boxes \cup {Fleet}) \X Apps

ASSUME FleetConstants ==
  /\ N \in Nat \ {0}
  /\ Apps \subseteq Nat
  /\ Dials \in [Boxes -> SUBSET Boxes]
  /\ Runs \in [Apps -> SUBSET Boxes]
  /\ Ahead \in [Boxes -> Nat]
  /\ Verified \subseteq Boxes
  /\ MaxEvents \in Nat /\ MaxTime \in Nat

States == {"", "realised", "removed", "arch", "io"}    \* RealiseState, RealiseDetail
\* An app is re-realised once for every time its box lost it, and no more.
MaxAgain == 1 + MaxEvents
Rows   == [on : BOOLEAN, by : Boxes \cup {0}, at : Nat, state : States, again : 0..MaxAgain]
NoRow  == [on |-> FALSE, by |-> 0, at |-> 0, state |-> "", again |-> 0]
Row(on, by, at, state, again) ==
  [on |-> on, by |-> by, at |-> at, state |-> state, again |-> again]

\* A table entry with its install generation and uninstall observations.
NoGen   == [n |-> 0, at |-> 0]
NoObs   == [o \in Boxes |-> [at |-> 0, epoch |-> -1]]
NoEntry == [row |-> NoRow, gen |-> NoGen, obs |-> NoObs]

NoRound == [peer |-> 0, seen |-> 0]
NoClick == [app |-> -1, want |-> FALSE]

VARIABLES
  table,  \* app_desired, app_registry and the two tables beside it, per box
  disk,   \* the apps installed on each box
  cursor, \* Service.cursors, in memory
  round,  \* syncPeer: the peer, and maxSeen after the pull
  plan,   \* Reconcile: the actions still to perform
  click,  \* the store handler of a box
  soon,   \* apps re-realised so recently that the next is deferred
  clock,  \* time
  events  \* clicks and faults so far

fleetVars == <<table, disk, cursor, round, plan, click, soon, clock, events>>
-----------------------------------------------------------------------------
(* upsertEntry, the generations and the quorum                             *)

\* Fault: the counter is overwritten like the rest.
Upsert_Overwrites(e, r) == [e EXCEPT !.row = r]

\* The counter of re-realisations only grows; the rest is overwritten.
Upsert(e, r) ==
  [e EXCEPT !.row = [r EXCEPT !.again = Max({r.again, e.row.again})]]

BumpGeneration(e, at) ==
  IF at > e.gen.at \/ e.gen.n = 0
    THEN [e EXCEPT !.gen = [n |-> e.gen.n + 1, at |-> at]]
    ELSE e

RecordObservation(e, origin, at) ==
  [e EXCEPT !.obs[origin] = [at |-> Max({at, @.at}), epoch |-> e.gen.n]]

\* distinctUninstallOrigins: of this generation, and not from before it.
Origins(e) == {o \in Boxes : e.obs[o].epoch = e.gen.n /\ e.obs[o].at >= e.gen.at}

\* Fault: a majority, also of two.
Threshold_Majority == N \div 2 + 1

\* uninstallQuorumThreshold: with two boxes either one is enough.
Threshold == IF N <= 2 THEN 1 ELSE N \div 2 + 1
Quorum(e) == Cardinality(Origins(e)) >= Threshold
-----------------------------------------------------------------------------
(* mergeEntry and mergeDesired                                             *)

\* bumpReRealiseCounter, bumpGeneration, recordUninstallObservation.
Counted(e, r) ==
  IF e.row.at > 0 /\ r.again > e.row.again THEN [e EXCEPT !.row.again = r.again] ELSE e
Noted(e, r, origin) ==
  IF r.on THEN BumpGeneration(Counted(e, r), r.at)
  ELSE IF origin \in Verified THEN RecordObservation(Counted(e, r), origin, r.at)
  ELSE Counted(e, r)

\* The flag alone changes: the row is rebuilt without the state of its report.
Flagged(e, on) == Upsert(e, Row(on, e.row.by, e.row.at, "", 0))

\* An equal stamp: a removal with its quorum, else install wins.
Tied(e, r) ==
  LET merged == e.row.on \/ r.on IN
  IF ~r.on /\ Quorum(e) THEN Upsert(e, [r EXCEPT !.by = Max({r.by, e.row.by})])
  ELSE IF r.by > e.row.by THEN Upsert(e, [r EXCEPT !.on = merged])
  ELSE IF merged /\ ~e.row.on THEN Flagged(e, TRUE)
  ELSE e

MergeReport(old, r, origin) ==
  LET e == Noted(old, r, origin) IN
  IF r.at > e.row.at THEN Upsert(e, [r EXCEPT !.on = r.on \/ ~Quorum(e)])
  ELSE IF r.at = e.row.at THEN Tied(e, r)
  ELSE IF ~r.on /\ e.row.on /\ Quorum(e) THEN Flagged(e, FALSE)
  ELSE e

\* Last writer wins, by time and then by actor; only from a verified origin.
MergeDesired(e, r, origin) ==
  IF origin \in Verified /\ (r.at > e.row.at \/ (r.at = e.row.at /\ r.by > e.row.by))
    THEN [e EXCEPT !.row = r]
    ELSE e

MergeEntry(k, e, r, origin) ==
  IF k[1] = Fleet THEN MergeDesired(e, r, origin) ELSE MergeReport(e, r, origin)

\* ChangesetSince, and ApplyChangeset of such a changeset from origin.
Changed(rows, since) == {k \in Keys : rows[k].row.at > since}
Applied(mine, origin, theirs, keys) ==
  [k \in Keys |-> IF k \in keys THEN MergeEntry(k, mine[k], theirs[k].row, origin)
                                ELSE mine[k]]
-----------------------------------------------------------------------------
(* Local writes                                                            *)

Now(b) == clock + 1 + Ahead[b]

\* desireMutate: later than every desire this box has seen.
DesireStamp(b) ==
  Max({Now(b)} \cup {table[b][<<Fleet, a>>].row.at + 1 : a \in Apps})

\* localMutate.
Reported(old, b, on, state, again) ==
  LET e == Upsert(old, Row(on, b, Now(b), state, again)) IN
  IF on THEN BumpGeneration(e, Now(b)) ELSE e

Event     == events < MaxEvents /\ events' = events + 1
Faulty(f) == f \in FleetFaults /\ events < MaxEvents

Ticks == clock < MaxTime /\ clock' = clock + 1
-----------------------------------------------------------------------------
(* The store's handlers (cmd/server/main.go)                               *)

\* appStore.Install or Uninstall, before any row is written.
Click(b, a) ==
  /\ click[b] = NoClick
  /\ Event
  /\ \/ /\ a \notin disk[b] /\ b \in Runs[a]
        /\ disk' = [disk EXCEPT ![b] = @ \cup {a}]
        /\ click' = [click EXCEPT ![b] = [app |-> a, want |-> TRUE]]
     \/ /\ a \in disk[b]
        /\ disk' = [disk EXCEPT ![b] = @ \ {a}]
        /\ click' = [click EXCEPT ![b] = [app |-> a, want |-> FALSE]]
  /\ UNCHANGED <<table, cursor, round, plan, soon, clock>>

\* desireMutate's row: DesireInstall, or DesireRemove's tombstone.
Desire(b, a, want) == Row(want, b, DesireStamp(b), "", 0)

\* recordAppDesire, then recordAppRealised or recordAppUnrealised.
Record(b) ==
  LET a == click[b].app  want == click[b].want IN
  /\ click[b] # NoClick
  /\ Ticks
  /\ table' = [table EXCEPT
                 ![b][<<Fleet, a>>].row = Desire(b, a, want),
                 ![b][<<b, a>>] = Reported(@, b, want,
                                    IF want THEN "realised" ELSE "removed", 0)]
  /\ click' = [click EXCEPT ![b] = NoClick]
  /\ UNCHANGED <<disk, cursor, round, plan, soon, events>>
-----------------------------------------------------------------------------
(* PlanReconcile and Reconcile                                             *)

\* This box's row says that it had the app.
Had(b, a) == LET r == table[b][<<b, a>>].row IN r.on /\ r.state = "realised"

Wanted(b, a)   == table[b][<<Fleet, a>>].row.at > 0 /\ table[b][<<Fleet, a>>].row.on
Unwanted(b, a) == table[b][<<Fleet, a>>].row.at > 0 /\ ~table[b][<<Fleet, a>>].row.on

\* The installed set is read from the disk.
Lacks(b, a) == a \notin disk[b]

Installs(b) ==
  {[app |-> a, install |-> TRUE,
    again |-> IF Had(b, a) THEN table[b][<<b, a>>].row.again + 1 ELSE 0,
    deferred |-> Had(b, a) /\ table[b][<<b, a>>].row.again > 0 /\ a \in soon[b]]
   : a \in {x \in Apps : Wanted(b, x) /\ Lacks(b, x)}}
Removals(b) ==
  {[app |-> a, install |-> FALSE, again |-> 0, deferred |-> FALSE]
   : a \in {x \in Apps : Unwanted(b, x) /\ x \in disk[b]}}

\* Fault: only what is missing is looked at.
PlanFrom_NoRemovals(b) == Installs(b)
PlanFrom(b) == Installs(b) \cup Removals(b)

PlanReconcile(b) ==
  /\ plan[b] = {}
  /\ PlanFrom(b) # {}
  /\ plan' = [plan EXCEPT ![b] = PlanFrom(b)]
  /\ UNCHANGED <<table, disk, cursor, round, click, soon, clock, events>>

\* The actions are sorted by app.
First(b) == CHOOSE x \in plan[b] : \A y \in plan[b] : x.app <= y.app

\* What the installer makes of an action: "" when it worked.
Outcomes(b, x) ==
  IF x.install /\ b \notin Runs[x.app] THEN {"arch"}
  ELSE IF ~x.install /\ x.app \notin disk[b] THEN {"io"}       \* "not installed"
  ELSE {""} \cup (IF Faulty("installer") THEN {"io"} ELSE {})

\* reportFailureIfChanged: the same failure is not written again.
Unchanged(b, a, out) == out # "" /\ table[b][<<b, a>>].row.state = out

\* LocalInstall, LocalReRealise, LocalUninstall or ReportRealiseFailure.
ReportOf(b, x, out) ==
  Reported(table[b][<<b, x.app>>], b, x.install /\ out = "",
           IF out # "" THEN out ELSE IF x.install THEN "realised" ELSE "removed",
           IF out = "" THEN x.again ELSE 0)

\* Realise or Unrealise of the first action, unless it is deferred, and the report.
Perform(b) ==
  /\ plan[b] # {}
  /\ LET x == First(b) IN
     /\ plan' = [plan EXCEPT ![b] = @ \ {x}]
     /\ IF x.deferred
          THEN UNCHANGED <<table, disk, soon, clock, events>>
          ELSE \E out \in Outcomes(b, x) :
                 /\ disk' = [disk EXCEPT ![b] = IF out # "" THEN @
                                                ELSE IF x.install THEN @ \cup {x.app}
                                                ELSE @ \ {x.app}]
                 /\ IF Unchanged(b, x.app, out)
                      THEN UNCHANGED <<table, clock>>
                      ELSE Ticks /\ table' = [table EXCEPT ![b][<<b, x.app>>] = ReportOf(b, x, out)]
                 /\ soon' = [soon EXCEPT ![b] = IF out = "" /\ x.again > 0 THEN @ \cup {x.app}
                                                ELSE @]
                 /\ IF out = "io" /\ (x.install \/ x.app \in disk[b])
                      THEN Event ELSE UNCHANGED events
  /\ UNCHANGED <<cursor, round, click>>

\* The window since the last re-realisation is over.
Elapse(b) ==
  /\ soon[b] # {}
  /\ soon' = [soon EXCEPT ![b] = {}]
  /\ UNCHANGED <<table, disk, cursor, round, plan, click, clock, events>>
-----------------------------------------------------------------------------
(* syncPeer                                                                *)

\* A round of b with p has nothing to carry; such rounds are left out.
Level(b, p) == Changed(table[p], cursor[b][p]) \cup Changed(table[b], cursor[b][p]) = {}

\* Fault: the cursor is the time of the round.
Latest_WallClock(rows, keys, seen) == clock + 1

\* maxSeen: the newest row carried.
Latest(rows, keys, seen) == Max({seen} \cup {rows[k].row.at : k \in keys})

\* The pull: what the peer has above the cursor, merged here.
Pull(b, p) ==
  /\ round[b] = NoRound
  /\ p \in Dials[b]
  /\ ~Level(b, p)
  /\ LET keys == Changed(table[p], cursor[b][p]) IN
     /\ table' = [table EXCEPT ![b] = Applied(@, p, table[p], keys)]
     /\ round' = [round EXCEPT ![b] =
                    [peer |-> p, seen |-> Latest(table[p], keys, cursor[b][p])]]
  /\ UNCHANGED <<disk, cursor, plan, click, soon, clock, events>>

\* The push: what this box has above the same cursor; then the cursor moves.
Push(b) ==
  /\ round[b] # NoRound
  /\ LET p    == round[b].peer
         keys == Changed(table[b], cursor[b][p]) IN
     /\ table' = [table EXCEPT ![p] = Applied(@, b, table[b], keys)]
     /\ cursor' = [cursor EXCEPT ![b][p] = Max({@, Latest(table[b], keys, round[b].seen)})]
  /\ round' = [round EXCEPT ![b] = NoRound]
  /\ UNCHANGED <<disk, plan, click, soon, clock, events>>

\* The push fails: what was pulled stays, the cursor does not move.
PushFails(b) ==
  /\ round[b] # NoRound
  /\ Faulty("network") /\ Event
  /\ round' = [round EXCEPT ![b] = NoRound]
  /\ UNCHANGED <<table, disk, cursor, plan, click, soon, clock>>

\* A reboot of a box whose apps and database are in RAM.
Wipe(b) ==
  /\ Faulty("wipe") /\ Event
  /\ table' = [table EXCEPT ![b] = [k \in Keys |-> NoEntry]]
  /\ disk' = [disk EXCEPT ![b] = {}]
  /\ cursor' = [cursor EXCEPT ![b] = [p \in Boxes |-> 0]]
  /\ round' = [round EXCEPT ![b] = NoRound]
  /\ plan' = [plan EXCEPT ![b] = {}]
  /\ click' = [click EXCEPT ![b] = NoClick]
  /\ UNCHANGED <<soon, clock>>

\* A new fleet; or one in which each app was wanted at time 1, is reported by
\* every box, just now for the second time on box 1, and is known to all.
Settled(k) ==
  IF k[1] = Fleet THEN [NoEntry EXCEPT !.row = Row(TRUE, 1, 1, "", 0)]
  ELSE IF k[1] \in Runs[k[2]]
    THEN [NoEntry EXCEPT !.row = Row(TRUE, k[1], 2, "realised", IF k[1] = 1 THEN 1 ELSE 0),
                         !.gen = [n |-> 1, at |-> 2]]
  ELSE [NoEntry EXCEPT !.row = Row(FALSE, k[1], 2, "arch", 0),
                       !.obs[k[1]] = [at |-> 2, epoch |-> 0]]

FleetInit ==
  /\ \/ /\ "new" \in Starts
        /\ table = [b \in Boxes |-> [k \in Keys |-> NoEntry]]
        /\ disk = [b \in Boxes |-> {}]
        /\ cursor = [b \in Boxes |-> [p \in Boxes |-> 0]]
        /\ soon = [b \in Boxes |-> {}]
        /\ clock = 0 /\ events = 0
     \/ /\ "settled" \in Starts
        /\ table = [b \in Boxes |-> [k \in Keys |-> Settled(k)]]
        /\ disk = [b \in Boxes |-> {a \in Apps : b \in Runs[a]}]
        /\ cursor = [b \in Boxes |-> [p \in Boxes |-> 2]]
        /\ soon = [b \in Boxes |-> IF b = 1 THEN Apps ELSE {}]
        /\ clock = 2 /\ events = 1
  /\ round = [b \in Boxes |-> NoRound]
  /\ plan = [b \in Boxes |-> {}]
  /\ click = [b \in Boxes |-> NoClick]

Reconcile(b) == PlanReconcile(b) \/ Perform(b)

FleetNext ==
  \E b \in Boxes :
    \/ \E a \in Apps : Click(b, a)
    \/ Record(b) \/ Reconcile(b) \/ Elapse(b)
    \/ \E p \in Boxes : Pull(b, p)
    \/ Push(b) \/ PushFails(b) \/ Wipe(b)

(***************************************************************************)
(* Handlers finish, the reconcile ticker and the fabric loop keep running, *)
(* SyncOnce visits every peer, and time passes.                            *)
(***************************************************************************)
FleetFairness ==
  \A b \in Boxes :
    /\ WF_fleetVars(Record(b))
    /\ WF_fleetVars(Reconcile(b))
    /\ WF_fleetVars(Elapse(b))
    /\ \A p \in Dials[b] : []<><<Pull(b, p)>>_fleetVars \/ []<>Level(b, p)
    /\ []<>(round[b] = NoRound)

FleetSpec == FleetInit /\ [][FleetNext]_fleetVars /\ FleetFairness
-----------------------------------------------------------------------------
\* Types.
FleetTypeOK ==
  /\ \A b \in Boxes, k \in Keys :
       /\ table[b][k].row \in Rows
       /\ table[b][k].gen \in [n : Nat, at : Nat]
       /\ table[b][k].obs \in [Boxes -> [at : Nat, epoch : Nat \cup {-1}]]
  /\ disk \in [Boxes -> SUBSET Apps]
  /\ cursor \in [Boxes -> [Boxes -> Nat]]
  /\ \A b \in Boxes : soon[b] \subseteq Apps
  /\ clock < MaxTime

(***************************************************************************)
(* "A direct clone of the next": once the user stops clicking, every box   *)
(* agrees on what is wanted, has on its disk exactly what is wanted of     *)
(* what it can run, and says why where it cannot; whatever was clicked     *)
(* where, lost to a reboot or re-installed, and a deferral is never the    *)
(* reason that an app is missing (PlanReconcile, reRealiseDeferredUntil).  *)
(***************************************************************************)
Follows(b, a) ==
  /\ (Wanted(b, a) /\ b \in Runs[a]) => a \in disk[b]
  /\ (Wanted(b, a) /\ b \notin Runs[a]) => table[b][<<b, a>>].row.state = "arch"
  /\ Unwanted(b, a) => a \notin disk[b]
FleetAgrees ==
  <>[](\A a \in Apps :
         /\ \A b, c \in Boxes : table[b][<<Fleet, a>>].row = table[c][<<Fleet, a>>].row
         /\ \A b \in Boxes : Follows(b, a))

(***************************************************************************)
(* app_registry holds "what actually happened" on a box, and only that box *)
(* knows: what it reported at a time is not turned round by a merge.       *)
(***************************************************************************)
OwnReportStands ==
  [][\A b \in Boxes, a \in Apps :
       LET mine == table[b][<<b, a>>].row  new == table'[b][<<b, a>>].row IN
       mine.at > 0 /\ new.at = mine.at => new.on = mine.on]_fleetVars

(***************************************************************************)
(* "GROW-ONLY": the count of re-realisations that a box's database holds   *)
(* never falls while the database lives, whichever row wins, so the fleet  *)
(* remembers for a box that forgets (upsertEntry, bumpReRealiseCounter).   *)
(***************************************************************************)
CountGrows ==
  [][\A b \in Boxes, k \in Keys :
       table'[b][k].row.at > 0 => table'[b][k].row.again >= table[b][k].row.again]_fleetVars

(***************************************************************************)
(* "Advancing the cursor never loses an update (a row older than the       *)
(* cursor cannot win LWW anyway)" (fabric.go): of a desire that would win  *)
(* at a peer, one of the two boxes' next rounds carries it.                *)
(***************************************************************************)
CursorLosesNothing ==
  \A b, p \in Boxes : \A a \in Apps :
    LET mine == table[b][<<Fleet, a>>].row  theirs == table[p][<<Fleet, a>>].row IN
    (p \in Dials[b] /\ b \in Dials[p] /\ mine.at > theirs.at) =>
      (mine.at > cursor[b][p] \/ mine.at > cursor[p][b])
=============================================================================
