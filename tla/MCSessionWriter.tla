--------------------------- MODULE MCSessionWriter ---------------------------
(* Frames for the writer's runs: two bulk frames, either of which fills the *)
(* queue, and a frame larger than the queue.                                *)
EXTENDS SessionWriter

CONSTANTS bulk1, bulk2, huge

MCItems == {bulk1, bulk2, huge}

MCpriority == [i \in Items |-> 3]

MCcontrol == [i \in Items |-> FALSE]

MCsize == [i \in Items |-> IF i = huge THEN 2 ELSE 1]
=============================================================================
