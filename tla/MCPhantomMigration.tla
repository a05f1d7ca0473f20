------------------------- MODULE MCPhantomMigration -------------------------
(* PhantomMigration for TLC: three binary trees in a line.  The one in the
   middle is split in two leaves that may merge, the outer ones may split.  One
   of the placements makes a process empty by a merge, one has a buffer process
   without blocks from the beginning. *)
EXTENDS PhantomMigration

MCRank == 1..3

MCId == {1, 2, 3, 11, 12, 21, 22, 31, 32}

MCChildren == [x \in MCId |-> IF x <= 3 THEN <<10 * x + 1, 10 * x + 2>> ELSE <<>>]

(* Where a block begins and ends on the line *)
Begin(x) == IF x <= 3 THEN 2 * x ELSE (2 * (x \div 10)) + (x % 10) - 1

End(x) == IF x <= 3 THEN 2 * x + 2 ELSE Begin(x) + 1

MCTouch == [x \in MCId |-> {y \in MCId : Begin(y) = End(x) \/ End(y) = Begin(x)}]

B == {1, 21, 22, 3}

Places == {1 :> 1 @@ 21 :> 1 @@ 22 :> 2 @@ 3 :> 3,
           1 :> 2 @@ 21 :> 3 @@ 22 :> 2 @@ 3 :> 1,
           1 :> 1 @@ 21 :> 1 @@ 22 :> 2 @@ 3 :> 2}

Marks == {m \in [B -> {"keep", "split", "merge"}] :
            /\ m[1] # "merge" /\ m[3] # "merge"
            /\ m[21] # "split" /\ m[21] = m[22]}

Keeps == [b \in B |-> "keep"]

(* The process network of the blocks, and of a chain that ends in buffers *)
NetworkOf(place) ==
  [p \in MCRank |-> {place[c] : c \in {d \in B : \E b \in B : place[b] = p /\ d \in MCTouch[b]}}
                     \ {p}]

WithBuffers(place) ==
  [p \in MCRank |-> NetworkOf(place)[p] \cup
     {q \in MCRank : q \in {p - 1, p + 1} /\ \E e \in {p, q} : \A b \in B : place[b] # e}]

(* Answers of load balancing: to one process, by branch, by tree, and apart *)
Assignments == {[x \in MCId |-> 2],
                [x \in MCId |-> ((x % 10) % 3) + 1],
                [x \in MCId |-> IF x \in {1, 11, 12} THEN 3 ELSE 1]}

Plans(n) == UNION {[1..k -> Assignments] : k \in 0..n}

JobsOf(places, marks, bufs, outs, plans) ==
  {[place |-> pl, mark |-> m, buffers |-> bu, earlyOut |-> ou, rounds |-> r,
    network |-> IF bu THEN WithBuffers(pl) ELSE NetworkOf(pl)] :
   pl \in places, m \in marks, bu \in bufs, ou \in outs, r \in plans}

(* Every combination; the early out only for a refresh that keeps all levels *)
AllJobs == JobsOf(Places, Marks, BOOLEAN, {FALSE}, Plans(2))
             \cup JobsOf(Places, {Keeps}, BOOLEAN, {TRUE}, Plans(1))

ASSUME TwoHopsEnough == OneBetween

ASSUME EarlyOutKeepsLevels == LevelsKept
=============================================================================
