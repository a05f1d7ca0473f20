-------------------------- MODULE MCPhantomCorner --------------------------
(* PhantomMigration for TLC, in two dimensions: four trees of two levels around a
   point, in units of the smallest block.  Block <<size, x, y>> has its lower left
   corner at (x, y).  Three families around the point (4, 4) merge, one of them to
   the level above the other two; each neighbour of the large block to be is then
   half its size. *)
EXTENDS PhantomMigration, Integers

MCRank == 1..4

Corner(s) == {k * s : k \in 0..((8 \div s) - 1)}

MCId == UNION {{s} \X Corner(s) \X Corner(s) : s \in {1, 2, 4}}

MCChildren ==
  [b \in MCId |-> LET h == b[1] \div 2 IN
     IF h = 0 THEN <<>>
     ELSE <<<<h, b[2], b[3]>>, <<h, b[2] + h, b[3]>>,
            <<h, b[2], b[3] + h>>, <<h, b[2] + h, b[3] + h>>>>]

(* Boxes that share a point of their borders, and none inside *)
Meets(b, c, i) == b[i] <= c[i] + c[1] /\ c[i] <= b[i] + b[1]

Overlaps(b, c, i) == b[i] < c[i] + c[1] /\ c[i] < b[i] + b[1]

MCTouch == [b \in MCId |-> {c \in MCId : /\ Meets(b, c, 2) /\ Meets(b, c, 3)
                                        /\ ~(Overlaps(b, c, 2) /\ Overlaps(b, c, 3))}]

(* The families that merge: to a block of size 4 and to two of size 2 *)
Large == <<4, 4, 0>>

Small == {<<2, 2, 2>>, <<2, 2, 4>>}

Merging == UNION {ToSet(MCChildren[f]) : f \in {Large} \cup Small}

Leaf == Merging \cup {b \in MCId : b[1] = 2 /\ b \notin Small}

(* The first child of the large block and that of the upper small one are alone on
   their processes; what touches the former goes to process 2, all else to 3. *)
Place ==
  [b \in Leaf |-> CASE b = MCChildren[Large][1] -> 1
                    [] b = <<1, 2, 4>> -> 4
                    [] OTHER -> IF MCChildren[Large][1] \in MCTouch[b] THEN 2 ELSE 3]

MCJobs ==
  {[place |-> Place, mark |-> [b \in Leaf |-> IF b \in Merging THEN "merge" ELSE "keep"],
    network |-> [p \in MCRank |-> MCRank \ {p}],
    buffers |-> FALSE, earlyOut |-> FALSE, rounds |-> <<>>]}
=============================================================================
