---------------------------- MODULE MCSyncRounds -----------------------------
(* Who replicates, dials and writes what in an instance.                   *)
EXTENDS SyncRounds

\* The second box runs an older version, without the last domain.
OneLacksLast == [b \in Boxes |-> IF b = 2 THEN Domains \ {D} ELSE Domains]
Mutual == [b \in Boxes |-> Boxes \ {b}]

\* Box 1 writes, to the first domain.
OneWriter ==
  [b \in Boxes |-> [d \in Domains |-> IF b = 1 /\ d = 1 THEN MaxSeq ELSE 0]]
=============================================================================
