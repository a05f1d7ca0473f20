------------------------------- MODULE MCGrid -------------------------------
(* A NX x NY grid of blocks of W x H cells, periodic in x and walled in y when
   Periodic is TRUE, open on all sides otherwise (but walled in y when it is one
   cell high).  A particle sits in the middle of a cell, its interaction range is
   Radius cells and a time step takes it at most Step cells, both measured along
   the axes. *)
EXTENDS Integers

CONSTANTS NX, NY, W, H, Radius, Step, Periodic,
          ProcOf    \* which process has which block

Block == (0 .. NX - 1) \X (0 .. NY - 1)

(* One block per process, and a column of blocks on process 0 beside one
   process for each block of the other columns *)
OnePerBlock == [b \in Block |-> b[1] + NX * b[2]]
ColumnFirst == [b \in Block |-> IF b[1] = 0 THEN 0 ELSE b[1] + (NX - 1) * b[2]]

Ranks == {ProcOf[b] : b \in Block}
MCNoRank == -1

LX == NX * W
LY == NY * H

(* Outside: where a step can end, and where the ghosts of a periodic grid lie *)
MarginX == IF Periodic THEN LX ELSE Step
MarginY == IF Periodic \/ LY = 1 THEN 0 ELSE Step
Cell == (0 - MarginX .. LX - 1 + MarginX) \X (0 - MarginY .. LY - 1 + MarginY)

Dist(p, q) == IF p < q THEN q - p ELSE p - q
Within(p, q, d) ==
  /\ Dist(p[1], q[1]) <= d \/ (Periodic /\ LX - Dist(p[1], q[1]) <= d)
  /\ Dist(p[2], q[2]) <= d

Cells(b) == (b[1] * W .. b[1] * W + W - 1) \X (b[2] * H .. b[2] * H + H - 1)
CellsOf(r) == UNION {Cells(b) : b \in {c \in Block : ProcOf[c] = r}}

OwnerTable == [p \in Cell |->
  IF \E r \in Ranks : p \in CellsOf(r)
  THEN CHOOSE r \in Ranks : p \in CellsOf(r) ELSE MCNoRank]

OverlapTable == [p \in Cell |->
  {r \in Ranks : \E q \in CellsOf(r) : Within(p, q, Radius)}]

(* Processes with blocks that touch, corners included *)
NbrTable == [r \in Ranks |->
  {s \in Ranks \ {r} : \E p \in CellsOf(r), q \in CellsOf(s) : Within(p, q, 1)}]

InsideTable == [r \in Ranks |->
  {p \in Cell : \E b \in Block :
     /\ ProcOf[b] = r
     /\ {p[1] - Radius, p[1] + Radius} \X {p[2] - Radius, p[2] + Radius}
          \subseteq Cells(b)}]

WrapTable == [p \in Cell |-> <<IF Periodic THEN p[1] % LX ELSE p[1], p[2]>>]

(* Twice the distance to the middle of r's blocks, against the length LX *)
ImageTable == [r \in Ranks |-> [p \in Cell |->
  LET columns == {b[1] : b \in {c \in Block : ProcOf[c] = r}}
      low  == CHOOSE c \in columns : \A e \in columns : c <= e
      high == CHOOSE c \in columns : \A e \in columns : e <= c
      twice == 2 * p[1] + 1 - (low + high + 1) * W
  IN <<IF Periodic /\ twice < 0 - LX THEN p[1] + LX
       ELSE IF Periodic /\ twice > LX THEN p[1] - LX ELSE p[1], p[2]>>]]

ReachTable == [p \in Cell |->
  {q \in Cell : Dist(p[1], q[1]) <= Step /\ Dist(p[2], q[2]) <= Step}]

-----------------------------------------------------------------------------
(* The values of the constants of the synchronizations.  TLC evaluates the tables above
   once, but a definition that replaces a constant at each use. *)
MCRank == Ranks
MCPos == Cell
MCOwnerOf == OwnerTable
MCOverlap == OverlapTable
MCNbr == NbrTable
MCInside == InsideTable
MCWrap == WrapTable
MCImage == ImageTable
MCReach == ReachTable
=============================================================================
