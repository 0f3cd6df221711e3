------------------------------- MODULE OpSets --------------------------------
(***************************************************************************)
(* What replication promises, without logs, deltas, snapshots or rounds:   *)
(* each box knows a set of ops.  It originates ops of its own, numbered in *)
(* order, and learns what others have originated, for each origin without  *)
(* a gap (a version vector can say no more).  Nothing is ever unlearned.   *)
(***************************************************************************)
EXTENDS Naturals

CONSTANTS
  Boxes,
  Precedes(_, _) \* p comes before o among the ops of one origin

VARIABLES
  issued, \* every op originated so far; an op has an actor, its origin
  known   \* the ops each box has acknowledged

\* The ops of S that come before o at its origin.
Before(S, o) == {p \in S : Precedes(p, o)}

Init ==
  /\ issued = {}
  /\ known = [b \in Boxes |-> {}]

\* A box adds the next op of its own, having every earlier one.
Originate(b, o) ==
  /\ o.actor = b
  /\ \A p \in issued : p # o /\ ~Precedes(o, p)
  /\ Before(issued, o) \subseteq known[b]
  /\ issued' = issued \cup {o}
  /\ known' = [known EXCEPT ![b] = @ \cup {o}]

\* A box learns ops that exist, of each origin the next ones.
Learn(b, S) ==
  /\ S \subseteq issued
  /\ \A o \in S : Before(issued, o) \subseteq known[b] \cup S
  /\ known' = [known EXCEPT ![b] = @ \cup S]
  /\ UNCHANGED issued

Next ==
  \E b \in Boxes :
    \/ \E o \in issued' \ issued : Originate(b, o)
    \/ Learn(b, known'[b])

Spec == Init /\ [][Next]_<<issued, known>>
=============================================================================
