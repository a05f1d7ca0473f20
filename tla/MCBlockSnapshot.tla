--------------------------- MODULE MCBlockSnapshot ---------------------------
(* BlockSnapshot for TLC: a line of four blocks, one on each of four processes,
   so that partners are no neighbours; one block may move, and two processes may
   be lost, together or one after the other. *)
EXTENDS BlockSnapshot

MCProc == 1..4

MCFirst == <<1, 2, 3, 4>>

MCBlock == 1..4

MCAdj == [b \in MCBlock |-> {b - 1, b + 1} \cap MCBlock]

MCHome == [b \in MCBlock |-> b - 1]
=============================================================================
