--------------------------- MODULE CrdtImplements ----------------------------
(***************************************************************************)
(* The replicated store implements OpSets: the ops a box has acknowledged  *)
(* are those its version vector claims.  Rows beyond a gap are in the log  *)
(* and in the state, but nobody is told of them.                           *)
(***************************************************************************)
EXTENDS CrdtStore

known == [r \in Actors |-> {o \in issued : o.seq <= seq[r][o.actor]}]

EarlierOp(p, o) == p.actor = o.actor /\ p.seq < o.seq

Abstract == INSTANCE OpSets WITH Boxes <- Actors, Precedes <- EarlierOp

\* Every step of the store is a step of OpSets or leaves it unchanged: no
\* merge, snapshot, compaction, crash or rolled-back write makes a box
\* acknowledge an op out of order, twice, or take one back.
ImplementsOpSets == Abstract!Spec
=============================================================================
