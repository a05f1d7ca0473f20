--------------------------- MODULE MCTargetLevels ---------------------------
(* TargetLevels for TLC: a line of blocks of binary trees over three
   processes, with levels 0 1 2 2 1 1.  A split of a finest block spreads over
   two levels to the coarsest one, a merge of the finest octet makes way for
   the next one, and all neighbours of a block live on other processes. *)
EXTENDS TargetLevels

CONSTANTS Up, Down    \* how far requests may be above and below the level

MCBlock == 1..6

MCProcess == 1..3

MCLevel == <<0, 1, 2, 2, 1, 1>>

MCProcOf == <<3, 1, 2, 1, 2, 3>>

MCLocal == <<<<2, 4>>, <<3, 5>>, <<1, 6>>>>

MCNbr == [b \in MCBlock |-> {b - 1, b + 1} \cap MCBlock]

MCSiblings == <<{}, {}, {4}, {3}, {6}, {5}>>

(* Two blocks may ask for Up levels more, the others for one. *)
MCRequest ==
  [b \in MCBlock |->
     {l \in 0..4 : /\ l >= MCLevel[b] - Down
                   /\ l <= MCLevel[b] + (IF b \in {2, 5} THEN Up ELSE 1)}]

Flag(m, e, r) == [multiple |-> m, earlyOut |-> e, reevaluate |-> r]

(* One cycle whose callback is asked again after a split for balance, and
   several cycles *)
OneCycle == {Flag(FALSE, FALSE, TRUE)}

Cycles == {Flag(TRUE, TRUE, FALSE)}

AgainInCycles == {Flag(TRUE, TRUE, TRUE)}

Either == OneCycle \cup Cycles
=============================================================================
