----------------------------- MODULE MCAppFleet ------------------------------
(* Fleets in which every box dials every other, and the clocks they have.   *)
EXTENDS AppFleet

Mesh      == [b \in Boxes |-> Boxes \ {b}]
Anywhere  == [a \in Apps |-> Boxes]
FirstOnly == [a \in Apps |-> {1}]
InStep    == [b \in Boxes |-> 0]
FirstFast == [b \in Boxes |-> IF b = 1 THEN 3 ELSE 0]
=============================================================================
