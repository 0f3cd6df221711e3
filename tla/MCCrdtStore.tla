----------------------------- MODULE MCCrdtStore -----------------------------
(* How many ops each box originates in an instance.                        *)
EXTENDS CrdtImplements

OneWriter == [a \in 1..N |-> IF a = 1 THEN MaxSeq ELSE 0]
AllWrite  == [a \in 1..N |-> MaxSeq]
=============================================================================
