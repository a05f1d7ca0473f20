---------------------------- MODULE BubbleModel ----------------------------
(* The ids of gas bubbles in the free-surface lattice Boltzmann method:       *)
(* lbm/free_surface/bubble_model, driven by dynamics/CellConversionSweep.     *)
(*                                                                            *)
(* A time step converts cells on every block, then all processes call         *)
(* update(): they exchange the ids of border cells, merge bubbles that touch, *)
(* and split bubbles a conversion may have cut. Between two collective calls  *)
(* a process touches only its own state, so each stretch between two of them  *)
(* is one action of all processes.                                            *)
(*                                                                            *)
(* The domain is a row of blocks, one on each process, in two dimensions      *)
(* (D2Q9). A bubble's volume is the number of its cells: fill levels and      *)
(* densities are abstracted. "interface" and "gas" cells carry an id.         *)
EXTENDS Integers, Sequences, FiniteSets, FiniteSetsExt, SequencesExt

CONSTANTS
  Blocks,          \* number of blocks in the row, and of processes
  Width, Rows,     \* cells of a block
  Shapes,          \* initial contents of the cells
  MaxUpdates,      \* bound: time steps
  Races,           \* whether border cells facing each other may convert together
  None             \* INVALID_BUBBLE_ID

Rank == 1..Blocks

Cell == (1..Blocks * Width) \X (1..Rows)

ASSUME ShapesAssumption == Shapes \subseteq [Cell -> {"liquid", "interface", "gas"}]

VARIABLES
  content,   \* cell -> kind of the cell (its flags, current on all processes)
  id,        \* rank -> cell of the block or its ghost layer -> bubble id or None
  rename,    \* rank -> bubble id -> bubble id (renameVec_)
  merged,    \* rank -> whether a merge is registered (hasMerges_)
  bubbles,   \* rank -> bubble id -> volume
  change,    \* rank -> bubble id -> <<gained, lost>> since the last update
  hints,     \* rank -> cells where a bubble may have been cut (splitsToProcess_)
  phase,     \* what all processes do next
  updates    \* time steps done

vars == <<content, id, rename, merged, bubbles, change, hints, phase, updates>>

-----------------------------------------------------------------------------
(* Geometry *)
Owner(c) == ((c[1] - 1) \div Width) + 1

Own == [p \in Rank |-> {c \in Cell : Owner(c) = p}]

(* The block's cells and its ghost layer *)
View == [p \in Rank |->
  {c \in Cell : (p - 1) * Width <= c[1] /\ c[1] <= p * Width + 1}]

Ghosts == [p \in Rank |-> View[p] \ Own[p]]

Apart(m, n) == IF m < n THEN n - m ELSE m - n

Near == [c \in Cell |->
  {n \in Cell \ {c} : Apart(n[1], c[1]) <= 1 /\ Apart(n[2], c[2]) <= 1}]

Facing == [c \in Cell |-> {n \in Near[c] : n[1] = c[1] \/ n[2] = c[2]}]

(* The elements of a set by ascending key *)
Sorted(S, key) ==
  [k \in 1..Cardinality(S) |->
     CHOOSE x \in S : Cardinality({y \in S : key[y] < key[x]}) = k - 1]

Ascending(S) == Sorted(S, [x \in S |-> x])

(* Neighbours in the order of D2Q9: N, S, W, E, NW, NE, SW, SE *)
Direction(c, n) ==
  CASE n[1] = c[1] -> IF n[2] > c[2] THEN 1 ELSE 2
    [] n[2] = c[2] -> IF n[1] < c[1] THEN 3 ELSE 4
    [] OTHER -> (IF n[2] > c[2] THEN 5 ELSE 7) + (IF n[1] < c[1] THEN 0 ELSE 1)

Neighbors == [c \in Cell |->
  Sorted(Near[c], [n \in Near[c] |-> Direction(c, n)])]

(* The iteration order of a field: x runs fastest. *)
FieldIndex(c) == c[2] * Blocks * Width + c[1]

InOrder(S) == Sorted(S, [c \in S |-> FieldIndex(c)])

(* The part of a region that hangs together with S by a neighbourhood *)
Reached(S, region, next) ==
  LET grow[T \in SUBSET region] ==
        LET U == T \cup (region \cap UNION {next[c] : c \in T})
        IN IF U = T THEN T ELSE grow[U]
  IN grow[S]

-----------------------------------------------------------------------------
(* MergeInformation: a rename vector and whether a merge is registered *)

(* registerMerge: the larger id is renamed; a rename it had is merged as well. *)
RECURSIVE Renamed(_, _, _)
Renamed(r, a, b) ==
  IF a = b THEN r
  ELSE LET lo == Min({a, b})
           hi == Max({a, b})
       IN IF r[hi] = hi THEN [r EXCEPT ![hi] = lo]
          ELSE LET s == Renamed(r, lo, r[hi]) IN [s EXCEPT ![hi] = s[s[hi]]]

(* State m of a process: its vector m.rename and m.merged *)
Register(m, a, b) ==
  [rename |-> Renamed(m.rename, a, b), merged |-> m.merged \/ a # b]

(* resolveTransitiveRenames *)
Resolve(r) ==
  LET root[b \in DOMAIN r] == IF r[b] = b THEN b ELSE root[r[b]]
  IN [b \in DOMAIN r |-> root[b]]

(* communicateMerges: the resolved vectors of all are gathered; the entries of
   the others are registered by descending id, then by rank. *)
Communicated(all) ==
  LET gathered == [q \in Rank |-> Resolve(all[q].rename)]
      size == Cardinality(DOMAIN gathered[1])
      entries == [k \in 1..(size - 1) * Blocks |->
                    [id |-> size - 1 - ((k - 1) \div Blocks), rank |-> ((k - 1) % Blocks) + 1]]
      others(p) == SelectSeq(entries, LAMBDA e : e.rank # p /\ gathered[e.rank][e.id] # e.id)
      noted(p) == FoldLeft(LAMBDA m, e : Register(m, gathered[e.rank][e.id], e.id),
                           [all[p] EXCEPT !.rename = gathered[p]], others(p))
  IN [p \in Rank |-> [noted(p) EXCEPT !.rename = Resolve(@)]]

(* mergeAndReorderBubbleVector: the last bubbles that are kept move, the last
   first, into the gaps the merged ones leave. *)
MovedTo(r) ==
  LET kept == {b \in DOMAIN r : r[b] = b}
      size == Cardinality(kept)
      gaps == Ascending({b \in DOMAIN r \ kept : b < size})
      last == Reverse(Ascending({b \in kept : b >= size}))
  IN [b \in kept |-> IF b < size THEN b ELSE gaps[CHOOSE k \in DOMAIN last : last[k] = b]]

(* Mutant: merged bubbles leave gaps in the numbering. *)
CompactedNot(r) == r

Compacted(r) == LET to == MovedTo(r) IN [b \in DOMAIN r |-> to[r[b]]]

Total(f, S) == MapThenSumSet(LAMBDA x : f[x], S)

(* Mutant: a bubble that fills a gap leaves its volume behind. *)
MergedUnmoved(r, volumes) ==
  [b \in Range(r) |-> volumes[b] + Total(volumes, {d \in DOMAIN r \ {b} : r[d] = b})]

(* Bubbles that end in one entry add their volumes. *)
MergedVolumes(r, volumes) ==
  [b \in Range(r) |-> Total(volumes, {d \in DOMAIN r : r[d] = b})]

(* renameOnBubbleField: also in the ghost layer *)
RenamedField(f, r) == [c \in DOMAIN f |-> IF f[c] = None THEN None ELSE r[f[c]]]

Unrenamed(size) ==
  [p \in Rank |-> [rename |-> [b \in 0..size - 1 |-> b], merged |-> FALSE]]

-----------------------------------------------------------------------------
(* Exchange of the border cells *)

Notes == [p \in Rank |-> [rename |-> rename[p], merged |-> merged[p]]]

(* Pairs of a ghost cell one neighbour fills and an own cell beside it, in the
   order unpackData looks at them *)
Contacts == [p \in Rank |-> [q \in 0..Blocks + 1 |->
  LET around(g) == SelectSeq(Neighbors[g], LAMBDA n : n \in Own[p])
      pairs(g) == [k \in DOMAIN around(g) |-> <<g, around(g)[k]>>]
  IN FoldLeft(LAMBDA s, g : s \o pairs(g), <<>>,
              InOrder({c \in Ghosts[p] : Owner(c) = q}))]]

(* p takes the border cells of both sides, in the order the messages come, and
   registers every contact of two bubbles it sees (lookForMerges). *)
Received(p, first, ids, m) ==
  LET f == [c \in View[p] |-> ids[Owner(c)][c]]
      touch == SelectSeq(Contacts[p][p + first] \o Contacts[p][p - first],
                 LAMBDA e : f[e[1]] # None /\ f[e[2]] # None /\ f[e[1]] # f[e[2]])
  IN [field |-> f, note |-> FoldLeft(LAMBDA k, e : Register(k, f[e[1]], f[e[2]]), m, touch)]

-----------------------------------------------------------------------------
(* New bubbles *)

(* Regions of the flood fill on one block: by faces only, and by fill level, so
   it does not look at ids. *)
Regions(p) ==
  LET gas == {c \in Own[p] : content[c] # "liquid"}
  IN {Reached({c}, gas, Facing) : c \in gas}

(* markAndCreateSplittedBubbles: a fill starts at the first marked cell in field
   order of every region that has one. *)
Filled(p, marked) ==
  LET regions == {R \in Regions(p) : R \cap marked # {}}
      start == [R \in regions |-> FieldIndex(InOrder(R \cap marked)[1])]
  IN Sorted(regions, start)

(* communicateAndApply: the new bubbles of all, by rank, fill the entries of the
   marked ones first and are then appended. *)
NewId(k, free, size) == IF k <= Len(free) THEN free[k] ELSE size + k - Len(free) - 1

(* The ids and volumes once all processes have filled the regions with marked
   cells *)
Created(ids, volumes, free, marked) ==
  LET size == Cardinality(DOMAIN volumes)
      filled == [p \in Rank |-> Filled(p, marked[p])]
      all == FoldLeft(\o, <<>>, filled)
      idOf == [k \in DOMAIN all |-> NewId(k, free, size)]
      top == IF Len(all) > Len(free) THEN size + Len(all) - Len(free) ELSE size
      at(b) == {k \in DOMAIN all : idOf[k] = b}
  IN [field |-> [p \in Rank |-> [c \in View[p] |->
                   LET new == {k \in DOMAIN all : c \in all[k] /\ c \in Own[p]}
                   IN IF new = {} THEN ids[p][c] ELSE idOf[CHOOSE k \in new : TRUE]]],
      volumes |-> [b \in 0..top - 1 |->
                     IF at(b) = {} THEN volumes[b]
                     ELSE Cardinality(all[CHOOSE k \in at(b) : TRUE])]]

-----------------------------------------------------------------------------
(* A time step converts cells *)

(* filled and drained are the interface cells with convertToLiquidFlag and
   convertToGasFlag. A drained cell beside a filled one stays interface. *)
Emptied(filled, drained) == {c \in drained : Near[c] \cap filled = {}}

(* "old" liquid cells beside a new gas cell, and gas cells beside a new liquid one *)
Closed(filled, empty) ==
  [c \in Cell |->
    CASE c \in filled -> "liquid"
      [] c \in empty -> "gas"
      [] content[c] = "liquid" /\ Near[c] \cap empty # {} -> "interface"
      [] content[c] = "gas" /\ Near[c] \cap filled # {} -> "interface"
      [] OTHER -> content[c]]

(* Mutant: the ghost layer is not searched for the other part. *)
SplitSeenInside(p, f, c, b) ==
  LET alike == {n \in Near[c] \cap Own[p] : f[n] = b}
      region == {n \in Own[p] \ {c} : f[n] = b /\ Apart(n[1], c[1]) <= 3
                                               /\ Apart(n[2], c[2]) <= 3}
  IN \E n \in alike : ~(alike \subseteq Reached({n}, region, Near))

(* checkForSplit and extendedSplitCheck: neighbours of the lost cell with its id
   that do not hang together within three cells, as far as the process sees. A
   split the first check does not see the second does not see either. *)
SplitSeen(p, f, c, b) ==
  LET alike == {n \in Near[c] \cap View[p] : f[n] = b}
      region == {n \in View[p] \ {c} : f[n] = b /\ Apart(n[1], c[1]) <= 3
                                                /\ Apart(n[2], c[2]) <= 3}
  IN \E n \in alike : ~(alike \subseteq Reached({n}, region, Near))

(* State of a process that converts: field, note, hints, change *)
Lose(p, s, c) ==
  LET f == [s.field EXCEPT ![c] = None]
      b == s.field[c]
  IN [s EXCEPT !.field = f, !.change[b][2] = @ + 1,
               !.hints = IF SplitSeen(p, f, c, b) THEN @ \cup {c} ELSE @]

(* The first neighbour found gives the id, every other one is merged. *)
Gain(p, s, c) ==
  LET ids == SelectSeq([k \in DOMAIN Neighbors[c] |->
                 IF Neighbors[c][k] \in View[p] THEN s.field[Neighbors[c][k]] ELSE None],
               LAMBDA b : b # None)
  IN IF ids = <<>> THEN s
     ELSE [s EXCEPT !.field[c] = ids[1], !.change[ids[1]][1] = @ + 1,
             !.note = FoldLeft(LAMBDA m, b : Register(m, ids[1], b), @, ids)]

(* Border cells facing each other converted in one step, one of them lost *)
Race(filled, gained) ==
  \E c \in filled, d \in filled \cup gained :
    /\ Owner(c) # Owner(d)
    /\ c \in View[Owner(d)] /\ d \in View[Owner(c)]

Convert(filled, drained) ==
  LET empty == Emptied(filled, drained)
      gained == {c \in Cell : content[c] = "liquid" /\ Near[c] \cap empty # {}}
      start(p) == [field |-> id[p], note |-> Notes[p], hints |-> hints[p], change |-> change[p]]
      lost(p) == FoldLeft(LAMBDA s, c : Lose(p, s, c), start(p), InOrder(filled \cap Own[p]))
      done(p) == FoldLeft(LAMBDA s, c : Gain(p, s, c), lost(p), InOrder(gained \cap Own[p]))
  IN /\ phase = "convert"
     /\ updates < MaxUpdates
     /\ Races \/ ~Race(filled, gained)
     /\ content' = Closed(filled, empty)
     /\ \E all \in {[p \in Rank |-> done(p)]} :
          /\ id' = [p \in Rank |-> all[p].field]
          /\ rename' = [p \in Rank |-> all[p].note.rename]
          /\ merged' = [p \in Rank |-> all[p].note.merged]
          /\ hints' = [p \in Rank |-> all[p].hints]
          /\ change' = [p \in Rank |-> all[p].change]
     /\ phase' = "exchange"
     /\ updates' = updates + 1
     /\ UNCHANGED bubbles

-----------------------------------------------------------------------------
(* update() *)

(* The first exchange of the ids, all processes before their next collective *)
Exchange(first) ==
  /\ phase = "exchange"
  /\ \E got \in {[p \in Rank |-> Received(p, first, id, Notes[p])]} :
     /\ id' = [p \in Rank |-> got[p].field]
     /\ rename' = [p \in Rank |-> got[p].note.rename]
     /\ merged' = [p \in Rank |-> got[p].note.merged]
     /\ phase' = "merge"
     /\ UNCHANGED <<content, bubbles, change, hints, updates>>

(* getAndResetVolumeDiff, Allreduce, applyVolumeDiff *)
Summed(p) == [b \in DOMAIN bubbles[p] |->
  bubbles[p][b] + Total([q \in Rank |-> change[q][b][1]], Rank)
                - Total([q \in Rank |-> change[q][b][2]], Rank)]

Unchanged(volumes) == [p \in Rank |-> [b \in DOMAIN volumes[p] |-> <<0, 0>>]]

(* All processes forget merges, for as many bubbles as there are now. *)
Cleared(volumes) ==
  LET blank == Unrenamed(Cardinality(DOMAIN volumes[1]))
  IN /\ rename' = [p \in Rank |-> blank[p].rename]
     /\ merged' = [p \in Rank |-> blank[p].merged]
     /\ change' = Unchanged(volumes)

(* The collective reduction, and the merges when any process has one *)
Merge ==
  /\ phase = "merge"
  /\ \E agreed \in {Communicated(Notes)} :
     \E final \in {[p \in Rank |-> Compacted(agreed[p].rename)]} :
     \E volumes \in {[p \in Rank |-> Summed(p)]} :
     /\ IF \E p \in Rank : merged[p]
        THEN /\ bubbles' = [p \in Rank |-> MergedVolumes(final[p], volumes[p])]
             /\ id' = [p \in Rank |-> RenamedField(id[p], final[p])]
        ELSE /\ bubbles' = volumes
             /\ UNCHANGED id
     /\ Cleared(bubbles')
     /\ phase' = IF \E p \in Rank : hints[p] # {} THEN "split" ELSE "convert"
     /\ UNCHANGED <<content, hints, updates>>

(* Ids found around the hints of all processes, reduced by OR *)
Marked ==
  {b \in DOMAIN bubbles[1] : \E p \in Rank : \E c \in hints[p] :
     \E n \in (Near[c] \cap View[p]) \cup {c} : id[p][n] = b}

(* handleSplits up to the new bubbles and their ids, on the inner cells only *)
Split ==
  LET marked == Marked
      cells == [p \in Rank |-> {c \in Own[p] : id[p][c] \in marked}]
      new == [p \in Rank |-> Created(id, bubbles[p], Ascending(marked), cells)]
  IN /\ phase = "split"
     /\ id' = [p \in Rank |-> new[p].field[p]]
     /\ bubbles' = [p \in Rank |-> new[p].volumes]
     /\ Cleared(bubbles')
     /\ hints' = [p \in Rank |-> {}]
     /\ phase' = "settle"
     /\ UNCHANGED <<content, updates>>

(* The tail of handleSplits and of initFromFillLevelField: exchange of the ids,
   and the merges it shows *)
Settle(first) ==
  /\ phase = "settle"
  /\ \E got \in {[p \in Rank |-> Received(p, first, id, Notes[p])]} :
     \E agreed \in {Communicated([p \in Rank |-> got[p].note])} :
     \E final \in {[p \in Rank |-> Compacted(agreed[p].rename)]} :
     /\ bubbles' = [p \in Rank |-> IF agreed[p].merged
                                   THEN MergedVolumes(final[p], bubbles[p]) ELSE bubbles[p]]
     /\ id' = [p \in Rank |-> IF agreed[p].merged
                              THEN RenamedField(got[p].field, final[p]) ELSE got[p].field]
     /\ Cleared(bubbles')
     /\ phase' = "convert"
     /\ UNCHANGED <<content, hints, updates>>

-----------------------------------------------------------------------------
(* initFromFillLevelField up to its exchange *)
Init ==
  /\ content \in Shapes
  /\ id = [p \in Rank |-> [c \in View[p] |-> None]]
  /\ bubbles = [p \in Rank |-> <<>>]
  /\ rename = [p \in Rank |-> <<>>]
  /\ merged = [p \in Rank |-> FALSE]
  /\ change = [p \in Rank |-> <<>>]
  /\ hints = [p \in Rank |-> {}]
  /\ phase = "init"
  /\ updates = 0

Create ==
  /\ phase = "init"
  /\ \E new \in {Created(id, <<>>, <<>>, Own)} :
       /\ id' = new.field
       /\ bubbles' = [p \in Rank |-> new.volumes]
       /\ Cleared(bubbles')
  /\ phase' = "settle"
  /\ UNCHANGED <<content, hints, updates>>

(* Interface cells that may convert in one time step: one, or two anywhere *)
Touched ==
  LET interface == {c \in Cell : content[c] = "interface"} IN {{c, d} : c, d \in interface}

TimeStep == \E S \in Touched : \E filled \in SUBSET S : Convert(filled, S \ filled)

(* The last time step is done. *)
Over == phase = "convert" /\ updates = MaxUpdates /\ UNCHANGED vars

Next ==
  \/ Create
  \/ TimeStep
  \/ \E first \in {-1, 1} : Exchange(first) \/ Settle(first)
  \/ Merge
  \/ Split
  \/ Over

Spec == Init /\ [][Next]_vars

-----------------------------------------------------------------------------
(* Properties *)

Label(c) == id[Owner(c)][c]

Id == DOMAIN bubbles[1]

(* Every id a process keeps is one of the bubbles, and a bubble is only ever
   renamed to one with a smaller id, so that following renames ends. *)
TypeOK ==
  /\ content \in [Cell -> {"liquid", "interface", "gas"}]
  /\ DOMAIN id = Rank
  /\ \A p \in Rank :
       /\ DOMAIN id[p] = View[p]
       /\ phase # "settle" => Range(id[p]) \subseteq Id \cup {None}
       /\ \A c \in Own[p] : id[p][c] \in Id \cup {None}
       /\ DOMAIN rename[p] = Id
       /\ \A b \in Id : rename[p][b] \in 0..b
       /\ merged[p] <=> \E b \in Id : rename[p][b] # b
       /\ hints[p] \subseteq {c \in Own[p] : content[c] = "liquid"}

(* No liquid cell carries an id, and every other cell does. *)
LiquidUnmarked == \A c \in Cell : content[c] = "liquid" <=> Label(c) = None

(* Cells that face each other, on one block or two, are of one bubble. *)
OneIdPerRegion == \A c \in Cell : \A d \in Facing[c] :
  Label(c) # None /\ Label(d) # None => Label(c) = Label(d)

(* All cells of a bubble hang together, across blocks. *)
OneRegionPerId == phase = "convert" => \A b \in Id :
  LET alike == {c \in Cell : Label(c) = b}
  IN alike # {} => alike = Reached({CHOOSE c \in alike : TRUE}, alike, Near)

(* A process knows the ids next to its block. *)
GhostsCurrent == \A p \in Rank : \A c \in Ghosts[p] : id[p][c] = Label(c)

(* After every update the ids are the connected gas regions of the whole domain,
   whatever merged and split at once and on which processes: liquid cells have none,
   cells that face each other share one, and cells that share one hang together, if
   only by their corners (BubbleModel::update). *)
IdsAreRegions == phase = "convert" =>
  LiquidUnmarked /\ OneIdPerRegion /\ GhostsCurrent /\ OneRegionPerId

(* After every update all processes keep the same bubbles in the same order, and
   each bubble's volume is that of the cells with its id: merging, closing gaps,
   overwriting split bubbles and appending never exchange two entries
   (mergeAndReorderBubbleVector, NewBubbleCommunication). *)
VolumesRight == phase = "convert" => \A p \in Rank :
  /\ bubbles[p] = bubbles[1]
  /\ \A b \in Id : bubbles[p][b] = Cardinality({c \in Cell : Label(c) = b})

=============================================================================
