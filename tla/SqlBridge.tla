------------------------------ MODULE SqlBridge ------------------------------
(***************************************************************************)
(* The bridge of internal/sqlcrdt between a live SQLite table and the      *)
(* replicated store, for one row with one replicated column.  A cycle      *)
(* captures (diff the table against the baseline, emit the changes, make   *)
(* the baseline a copy of the table) and then materialises (read the       *)
(* merged registers, write the row, copy the table again).  The bridge's   *)
(* lock excludes another cycle; it excludes neither the services that      *)
(* write the table through connections of their own nor the merges of the  *)
(* syncer, which fall between any two steps.                               *)
(*                                                                         *)
(* A local Set is stamped above everything seen, so it always wins its     *)
(* register (ClockAhead of module CrdtStore); a peer's op that loses       *)
(* changes nothing and is left out.                                        *)
(***************************************************************************)
EXTENDS Integers

CONSTANTS
  MaxChanges,   \* bound: application writes and peer ops that win
  MaxFailures   \* bound: cycles that end early

ASSUME BridgeAssumption == MaxChanges \in Nat /\ MaxFailures \in Nat

NoRow == -1    \* the table has no such row
NoValue == 0   \* the row is there, its column was never set
Cells == NoRow .. MaxChanges

VARIABLES
  cell,       \* the row in the live table
  base,       \* the row in the baseline
  rowField,   \* the register of RowField: "unset", "live" or "dead"
  column,     \* the register of the column, NoValue when never set
  cycle,      \* where the cycle is
  change,     \* the change the cycle emits, [op, new]
  merged,     \* what the cycle read of the registers, [row, col]
  unsent,     \* history: {the last application write} until it is emitted
  changes, failures

bridgeVars == <<cell, base, rowField, column, cycle, change, merged, unsent, changes, failures>>

NoChange == [op |-> "none", new |-> NoRow]
NotRead == [row |-> "unset", col |-> NoValue]

BridgeInit ==
  /\ cell = NoRow /\ base = NoRow
  /\ rowField = "unset" /\ column = NoValue
  /\ cycle = "idle" /\ change = NoChange /\ merged = NotRead
  /\ unsent = {} /\ changes = 0 /\ failures = 0

-----------------------------------------------------------------------------
(* The other writers. *)

(* A service of the box inserts, updates or deletes the row. *)
AppWrites(new) ==
  /\ changes < MaxChanges
  /\ changes' = changes + 1
  /\ new # cell
  /\ cell' = new
  /\ unsent' = IF cycle = "idle" /\ new = base THEN {} ELSE {new}
  /\ UNCHANGED <<base, rowField, column, cycle, change, merged, failures>>

(* The syncer merges a peer's op that wins its register. *)
PeerWrites(row, col) ==
  /\ changes < MaxChanges
  /\ changes' = changes + 1
  /\ rowField' = row /\ column' = col
  /\ UNCHANGED <<cell, base, cycle, change, merged, unsent, failures>>

-----------------------------------------------------------------------------
(* Capture. *)

(* What the session extension reports for the row. *)
Diff(old, new) ==
  IF new = old THEN NoChange
  ELSE [op |-> CASE new = NoRow -> "delete" [] old = NoRow -> "insert" [] OTHER -> "update",
        new |-> new]

(* With an empty changeset the baseline is not touched. *)
StartCapture ==
  /\ cycle = "idle"
  /\ change' = Diff(base, cell)
  /\ cycle' = IF cell = base THEN "captured" ELSE "row"
  /\ UNCHANGED <<cell, base, rowField, column, merged, unsent, changes, failures>>

(* Insert and delete are ops on RowField; an update of a row is not. *)
EmitRow ==
  /\ cycle = "row"
  /\ rowField' = CASE change.op = "insert" -> "live"
                   [] change.op = "delete" -> "dead"
                   [] OTHER -> rowField
  /\ cycle' = IF change.op = "delete" THEN "copy" ELSE "column"
  /\ unsent' = IF change.op = "delete" THEN unsent \ {change.new} ELSE unsent
  /\ UNCHANGED <<cell, base, column, change, merged, changes, failures>>

EmitColumn ==
  /\ cycle = "column"
  /\ column' = change.new
  /\ cycle' = "copy"
  /\ unsent' = unsent \ {change.new}
  /\ UNCHANGED <<cell, base, rowField, change, merged, changes, failures>>

(* refreshBaselineLocked copies the table as it is by now. *)
RefreshAfterCapture ==
  /\ cycle = "copy"
  /\ base' = cell
  /\ cycle' = "captured" /\ change' = NoChange
  /\ UNCHANGED <<cell, rowField, column, merged, unsent, changes, failures>>

-----------------------------------------------------------------------------
(* Materialise. *)

ReadRegisters ==
  /\ cycle = "captured"
  /\ merged' = [row |-> rowField, col |-> column]
  /\ cycle' = "read"
  /\ UNCHANGED <<cell, base, rowField, column, change, unsent, changes, failures>>

(* Fault: dead rows are only not written.                                  *)
Materialised_LiveKeysOnly(m, old) ==
  CASE m.row # "live" -> old
    [] m.col # NoValue -> m.col
    [] OTHER -> IF old = NoRow THEN NoValue ELSE old

(* AllKeys lists the key once either register was set; the row is live     *)
(* only by RowField.  A row without a column inserts or does nothing.      *)
Registered(m) == m # NotRead
Materialised(m, old) ==
  CASE ~Registered(m) -> old
    [] m.row # "live" -> NoRow
    [] m.col # NoValue -> m.col
    [] OTHER -> IF old = NoRow THEN NoValue ELSE old

WriteRow ==
  /\ cycle = "read"
  /\ cell' = Materialised(merged, cell)
  /\ cycle' = "written" /\ merged' = NotRead
  /\ UNCHANGED <<base, rowField, column, change, unsent, changes, failures>>

RefreshAfterMaterialise ==
  /\ cycle = "written"
  /\ base' = cell
  /\ cycle' = "idle"
  /\ UNCHANGED <<cell, rowField, column, change, merged, unsent, changes, failures>>

(* An SQLite error ends the cycle where it is, and so does a restart of    *)
(* the process: table, baseline and registers are on disk.                 *)
CycleFails ==
  /\ cycle # "idle" /\ failures < MaxFailures
  /\ failures' = failures + 1
  /\ cycle' = "idle" /\ change' = NoChange /\ merged' = NotRead
  /\ UNCHANGED <<cell, base, rowField, column, unsent, changes>>

-----------------------------------------------------------------------------
CycleStep ==
  \/ StartCapture \/ EmitRow \/ EmitColumn \/ RefreshAfterCapture
  \/ ReadRegisters \/ WriteRow \/ RefreshAfterMaterialise

BridgeNext ==
  \/ AppWrites(NoRow) \/ AppWrites(changes + 1)
  \/ PeerWrites("live", changes + 1) \/ PeerWrites(rowField, changes + 1)
  \/ PeerWrites("dead", column)
  \/ CycleStep
  \/ CycleFails

(* Run cycles on a ticker for the life of the process. *)
BridgeFairness == WF_bridgeVars(CycleStep)

BridgeSpec == BridgeInit /\ [][BridgeNext]_bridgeVars /\ BridgeFairness

(* Types. *)
BridgeTypeOK ==
  /\ cell \in Cells /\ base \in Cells
  /\ rowField \in {"unset", "live", "dead"} /\ column \in NoValue .. MaxChanges
  /\ cycle \in {"idle", "row", "column", "copy", "captured", "read", "written"}
  /\ unsent \subseteq Cells
  /\ changes \in 0..MaxChanges /\ failures \in 0..MaxFailures

-----------------------------------------------------------------------------
(* What Cycle's comment and session.go promise of the refresh, "so a       *)
(* change is emitted exactly once": between two cycles, an application's   *)
(* write that was not emitted is still in the table and still differs from *)
(* the baseline, so that the next cycle emits it.                          *)
EmittedOnce == cycle = "idle" => \A new \in unsent : cell = new /\ cell # base

(* Once services and peers stop writing, the row becomes and stays what    *)
(* the merged registers say, whatever cycles failed on the way and wherever*)
(* a restart hit them: materialiseLocked writes live rows and removes dead *)
(* ones, and nothing the bridge does itself moves the registers again.     *)
RowFollowsRegisters ==
  <>[](/\ rowField = "live" => cell # NoRow /\ (column # NoValue => cell = column)
       /\ rowField = "dead" \/ (rowField = "unset" /\ column # NoValue) => cell = NoRow)
=============================================================================
