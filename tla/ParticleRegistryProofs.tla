------------------------ MODULE ParticleRegistryProofs ------------------------
(***************************************************************************)
(* The registry of ghosts of ParticleSync is exact, and no check of the    *)
(* kernel can fail, whatever the order in which buffers arrive.  And the   *)
(* copies are where contact detection needs them, and only what has left   *)
(* the domain is deleted.                                                  *)
(*                                                                         *)
(* The argument counts walks.  k[r] is the number of walks process r has   *)
(* done; the messages keep it within one of its neighbours'.  The story of *)
(* a particle is the sequence of its owners and of their ghostOwners: who  *)
(* owns it in one chapter writes the next one on its next walk, so chapter *)
(* j + 1 is written by walk j + 1 of its author, and the buffer that walk  *)
(* sends tells every neighbour how to get from the one to the other.  A    *)
(* process shows each particle as the chapter it has reached says: that of *)
(* its own number of walks, or the one before while it waits for that      *)
(* chapter's author, or the last one when nobody has written further.      *)
(*                                                                         *)
(* Neither the walks nor the stories are kept by the program: a state of   *)
(* the proof's invariant is one for which they exist.                      *)
(***************************************************************************)
EXTENDS ParticleSyncProofs

-----------------------------------------------------------------------------
(* The invariant *)

(* What has been decided of a particle at one time: its owner, if it has not
   flowed out, who has a ghost of it, and where it is. *)
Chapter == [owner : Rank \cup {NoRank}, ghosts : SUBSET Rank, pos : Pos]

(* Neighbours are in step but for the buffers under way. *)
Paced(k) ==
  /\ \A r \in Rank : /\ phase[r] = "parse" <=> pending[r] # {}
                     /\ pending[r] # {} => k[r] # 0
                     /\ pending[r] \subseteq Nbr[r]
  /\ \A d \in Rank : \A s \in Nbr[d] :
       k[s] + (IF s \in pending[d] THEN 1 ELSE 0) = k[d] + Len(chan[<<s, d>>])
  /\ \A s, d \in Rank : s \notin Nbr[d] => chan[<<s, d>>] = <<>>

(* A story of last chapter l: it ends when the particle flows out, ghosts are
   kept by neighbours only, each chapter is written by who owned the particle
   before, and the last one is not overtaken by its owner. *)
Coherent(k, c, l) ==
  /\ \A j \in Nat : j <= l =>
       /\ c[j].owner = NoRank => c[j].ghosts = {} /\ j = l
       /\ c[j].owner # NoRank => c[j].ghosts \subseteq Nbr[c[j].owner]
  /\ \A j \in Nat : j < l =>
       /\ j < k[c[j].owner]
       /\ c[j + 1].owner \in Nbr[c[j].owner] \cup {c[j].owner, NoRank}
       /\ c[j + 1].ghosts \subseteq Nbr[c[j].owner] \cup {c[j].owner}
  /\ c[l].owner # NoRank => k[c[l].owner] <= l

(* How far in the story process d is *)
Page(k, c, l, d) ==
  IF l < k[d] THEN l
  ELSE IF k[d] # 0 /\ c[k[d] - 1].owner \in pending[d] THEN k[d] - 1
  ELSE k[d]

(* Slot sl of process d shows chapter ch. *)
Shows(d, ch, sl) ==
  /\ d = ch.owner => sl.kind = "master" /\ sl.ghosts = ch.ghosts
  /\ d # ch.owner /\ d \in ch.ghosts =>
       sl.kind = "ghost" /\ sl.owner = ch.owner /\ sl.pos = Image[d][ch.pos]
  /\ d # ch.owner /\ d \notin ch.ghosts => sl.kind = "none"

(* Entry e of a buffer to d tells it how to get from chapter was to chapter is. *)
Told(d, was, is, e) ==
  LET seen == e.ghost.type \in {"copy", "update"} IN
  /\ IF d \in was.ghosts THEN e.ghost.type \in {"update", "removal"}
                         ELSE e.ghost.type \in {"copy", "none"}
  /\ e.ghost.type = "copy" => e.ghost.owner = was.owner
  /\ seen /\ d \in is.ghosts \cup {is.owner} => e.ghost.pos = is.pos
  /\ d = is.owner =>
       /\ seen
       /\ e.own.type = "migration" /\ e.own.ghosts = is.ghosts
       /\ OwnerOf[is.pos] = d /\ Image[d][is.pos] = is.pos
  /\ d # is.owner /\ d \in is.ghosts =>
       /\ seen
       /\ IF is.owner = was.owner
          THEN e.own.type = "none"
          ELSE e.own.type = "remoteMigration" /\ e.own.owner = is.owner
  /\ d # is.owner /\ d \notin is.ghosts =>
       e.own.type = IF seen THEN "removal" ELSE "none"

Silent(e) == e.ghost.type = "none" /\ e.own.type = "none"

(* The i-th buffer under way from s to d was written by walk j + 1 of s, and
   says of u what chapter j + 1 changed, if that is by s. *)
BuffersTell(k, h, n) ==
  \A s, d \in Rank : \A i \in DOMAIN chan[<<s, d>>] : \A j \in Nat :
    j + 1 + Len(chan[<<s, d>>]) = k[s] + i =>
      \A u \in Particle :
        IF u \notin NonCommunicating /\ j < n[u] /\ h[u][j].owner = s
        THEN Told(d, h[u][j], h[u][j + 1], chan[<<s, d>>][i][u])
        ELSE Silent(chan[<<s, d>>][i][u])

StoriesCohere(k, h, n) ==
  \A u \in Particle \ NonCommunicating : Coherent(k, h[u], n[u])

SlotsShow(k, h, n) ==
  \A u \in Particle \ NonCommunicating, d \in Rank :
    Shows(d, h[u][Page(k, h[u], n[u], d)], ps[d][u])

(* A master that has not moved since its process walked is where its story says. *)
MastersAt(h, n) ==
  \A u \in Particle \ NonCommunicating, d \in Rank :
    phase[d] # "sync" /\ IsMaster(d, u) => ps[d][u].pos = h[u][n[u]].pos

Traced(k, h, n) ==
  /\ Paced(k)
  /\ StoriesCohere(k, h, n)
  /\ BuffersTell(k, h, n)
  /\ SlotsShow(k, h, n)
  /\ MastersAt(h, n)

Histories(k, h, n) ==
  /\ k \in [Rank -> Nat]
  /\ h \in [Particle -> [Nat -> Chapter]]
  /\ n \in [Particle -> Nat]

RegistryInv ==
  /\ TypeOK
  /\ ~aborted
  /\ \E k \in [Rank -> Nat], h \in [Particle -> [Nat -> Chapter]], n \in [Particle -> Nat] :
       Traced(k, h, n)

-----------------------------------------------------------------------------
(* Neighbours *)

(* Neighbours have done the same number of walks but for one, and one who
   expects nothing has not overtaken them. *)
LEMMA Apart ==
  ASSUME TypeOK, NEW k \in [Rank -> Nat], Paced(k), NEW d \in Rank, NEW s \in Nbr[d]
  PROVE  /\ s \in Rank /\ s # d /\ d \in Nbr[s]
         /\ k[s] <= k[d] + 1 /\ k[d] <= k[s] + 1
         /\ s \notin pending[d] => k[d] <= k[s]
         /\ d \notin pending[s] => k[s] <= k[d]
  <1>1. s \in Rank /\ s # d /\ d \in Nbr[s]
    BY GeometryAssumption, NeighborAssumption
  <1>2. /\ k[s] + (IF s \in pending[d] THEN 1 ELSE 0) = k[d] + Len(chan[<<s, d>>])
        /\ k[d] + (IF d \in pending[s] THEN 1 ELSE 0) = k[s] + Len(chan[<<d, s>>])
    BY <1>1 DEF Paced
  <1>3. Len(chan[<<s, d>>]) \in Nat /\ Len(chan[<<d, s>>]) \in Nat
    BY <1>1 DEF TypeOK
  <1>4. k[s] \in Nat /\ k[d] \in Nat
    BY <1>1
  <1> QED
    BY <1>1, <1>2, <1>3, <1>4

(* No process is a neighbour of its own. *)
LEMMA NotOwnNbr == \A r \in Rank : Nbr[r] \subseteq Rank \ {r}
  BY GeometryAssumption, NeighborAssumption

-----------------------------------------------------------------------------
(* Pages *)

LEMMA PageType ==
  ASSUME NEW k \in [Rank -> Nat], NEW c, NEW l \in Nat, NEW d \in Rank
  PROVE  Page(k, c, l, d) \in Nat /\ Page(k, c, l, d) <= l
  BY DEF Page

(* A master shows the last chapter, the one its number of walks names. *)
LEMMA MasterReads ==
  ASSUME TypeOK, NEW k \in [Rank -> Nat], Paced(k),
         NEW c \in [Nat -> Chapter], NEW l \in Nat, Coherent(k, c, l),
         NEW r \in Rank, NEW sl, Shows(r, c[Page(k, c, l, r)], sl), sl.kind = "master"
  PROVE  /\ Page(k, c, l, r) = l /\ k[r] = l
         /\ c[l].owner = r /\ sl.ghosts = c[l].ghosts /\ c[l].ghosts \subseteq Nbr[r]
  <1> DEFINE j == Page(k, c, l, r)
  <1>1. j \in Nat /\ j <= l
    BY PageType
  <1>2. c[j].owner = r /\ sl.ghosts = c[j].ghosts
    BY DEF Shows
  <1>3. r # NoRank /\ k[r] \in Nat
    BY RankAssumption
  <1>4. j < l => j < k[r]
    BY <1>1, <1>2 DEF Coherent
  <1>5. ~(l < k[r])
    <2> SUFFICES ASSUME l < k[r] PROVE FALSE
      OBVIOUS
    <2>1. j = l
      BY DEF Page
    <2>2. k[r] <= l
      BY <1>2, <1>3, <2>1 DEF Coherent
    <2> QED
      BY <1>3, <2>2
  <1>6. j = k[r]
    <2> SUFFICES ASSUME j # k[r] PROVE FALSE
      OBVIOUS
    <2>1. j = k[r] - 1 /\ c[k[r] - 1].owner \in pending[r]
      BY <1>5 DEF Page
    <2>2. r \in Nbr[r]
      BY <1>2, <2>1 DEF Paced
    <2> QED
      BY <2>2, NotOwnNbr
  <1>7. j = l
    BY <1>1, <1>3, <1>4, <1>6
  <1>8. c[l].ghosts \subseteq Nbr[r]
    BY <1>2, <1>3, <1>7 DEF Coherent
  <1> QED
    BY <1>2, <1>6, <1>7, <1>8

-----------------------------------------------------------------------------
(* What one walk decides of one particle *)

(* The chapter r writes of a master it handles *)
Written(r, u) ==
  IF FlowsOut(r, u) THEN [owner |-> NoRank, ghosts |-> {}, pos |-> Nowhere]
  ELSE IF Migrates(r, u)
       THEN [owner |-> NewOwner(r, u), ghosts |-> (Near(r, u) \ {NewOwner(r, u)}) \cup {r},
             pos |-> MappedPos(r, u)]
       ELSE [owner |-> r, ghosts |-> IF IsInside(r, u) THEN {} ELSE Near(r, u),
             pos |-> IF IsInside(r, u) THEN ps[r][u].pos ELSE MappedPos(r, u)]

(* Where a particle that migrates lies *)
LEMMA MigrationGeometry ==
  ASSUME TypeOK, SmallParticles, NEW r \in Rank, NEW u \in Particle, Migrates(r, u)
  PROVE  LET o == NewOwner(r, u)
             p == MappedPos(r, u)
         IN  /\ o \in Nbr[r] /\ o \in Rank /\ o # r /\ o # NoRank
             /\ OwnerOf[p] = o /\ Image[o][p] = p
             /\ o \in Near(r, u)
             /\ Near(r, u) \subseteq Nbr[o] \cup {o}
             /\ r \in Nbr[o]
  <1> DEFINE o == NewOwner(r, u)
             p == MappedPos(r, u)
  <1>1. p \in Pos
    BY WalkType
  <1>2. o # r /\ o # NoRank
    BY DEF Migrates, Leaves
  <1>3. OwnerOf[p] = o /\ o \in Nbr[r]
    BY <1>2 DEF NewOwner, FindContaining
  <1>4. o \in Rank /\ r \in Nbr[o]
    BY <1>3, NeighborAssumption, GeometryAssumption
  <1> HIDE DEF o, p
  <1>5. o \in Overlap[p] /\ Overlap[p] \subseteq Nbr[o] \cup {o} /\ Image[o][p] = p
    BY <1>1, <1>2, <1>3 DEF SmallParticles
  <1>6. Near(r, u) = Overlap[p] \cap Nbr[r]
    BY DEF Near, p
  <1>7. o \in Near(r, u) /\ Near(r, u) \subseteq Nbr[o] \cup {o}
    BY <1>3, <1>5, <1>6
  <1> QED
    BY <1>2, <1>3, <1>4, <1>5, <1>7 DEF o, p

(* The checks of the walk cannot fail. *)
LEMMA WalkPasses ==
  ASSUME TypeOK, SmallParticles, NEW r \in Rank
  PROVE  SyncChecks(r)
  <1> SUFFICES ASSUME NEW u \in Particle
               PROVE  /\ IsHandled(r, u) /\ ~IsInside(r, u) => ps[r][u].owner = r
                      /\ Migrates(r, u) => NewOwner(r, u) \in GhostOwners(r, u)
    BY DEF SyncChecks
  <1>1. IsHandled(r, u) => ps[r][u].owner = r
    BY DEF TypeOK, SlotOK, IsHandled
  <1>2. Migrates(r, u) => NewOwner(r, u) \in GhostOwners(r, u)
    BY MigrationGeometry DEF GhostOwners
  <1> QED
    BY <1>1, <1>2

LEMMA WrittenOK ==
  ASSUME TypeOK, SmallParticles, NEW r \in Rank, NEW u \in Particle
  PROVE  LET ch == Written(r, u)
         IN  /\ ch \in Chapter
             /\ ch.owner = NoRank => ch.ghosts = {}
             /\ ch.owner # NoRank => ch.ghosts \subseteq Nbr[ch.owner]
             /\ ch.owner \in Nbr[r] \cup {r, NoRank}
             /\ ch.ghosts \subseteq Nbr[r] \cup {r}
  <1> DEFINE ch == Written(r, u)
  <1>1. Near(r, u) \subseteq Nbr[r] /\ Nbr[r] \subseteq Rank
    BY GeometryAssumption DEF Near
  <1>5. MappedPos(r, u) \in Pos /\ ps[r][u].pos \in Pos
    BY WalkType DEF TypeOK, Slot
  <1>2. CASE FlowsOut(r, u)
    BY <1>2, NowhereType DEF Written, Chapter
  <1>3. CASE ~FlowsOut(r, u) /\ Migrates(r, u)
    <2> DEFINE o == NewOwner(r, u)
    <2>1. /\ o \in Nbr[r] /\ o \in Rank /\ o # NoRank
          /\ Near(r, u) \subseteq Nbr[o] \cup {o}
          /\ r \in Nbr[o]
      BY <1>3, MigrationGeometry
    <2>2. ch = [owner |-> o, ghosts |-> (Near(r, u) \ {o}) \cup {r}, pos |-> MappedPos(r, u)]
      BY <1>3 DEF Written
    <2> HIDE DEF o, ch
    <2>3. ch.owner = o /\ ch.ghosts = (Near(r, u) \ {o}) \cup {r}
      BY <2>2
    <2>4. ch \in Chapter
      BY <1>1, <1>5, <2>1, <2>2 DEF Chapter
    <2> QED
      BY <1>1, <2>1, <2>3, <2>4 DEF ch
  <1>4. CASE ~FlowsOut(r, u) /\ ~Migrates(r, u)
    <2>1. ch = [owner |-> r, ghosts |-> IF IsInside(r, u) THEN {} ELSE Near(r, u),
                pos |-> IF IsInside(r, u) THEN ps[r][u].pos ELSE MappedPos(r, u)]
      BY <1>4 DEF Written
    <2>2. ch.owner = r /\ ch.ghosts \subseteq Nbr[r]
      BY <1>1, <2>1
    <2>3. ch \in Chapter
      BY <1>1, <1>5, <2>1 DEF Chapter
    <2> QED
      BY <2>2, <2>3, RankAssumption
  <1> QED
    BY <1>2, <1>3, <1>4

(* The walk leaves its own slot as the chapter it writes says. *)
LEMMA WalkShows ==
  ASSUME TypeOK, SmallParticles, NEW r \in Rank, NEW u \in Particle,
         IsHandled(r, u), ps[r][u].ghosts \subseteq Nbr[r]
  PROVE  /\ Shows(r, Written(r, u), SlotAfterSync(r, u))
         /\ SlotAfterSync(r, u).kind = "master" => SlotAfterSync(r, u).pos = Written(r, u).pos
  <1>1. /\ ps[r][u] \in Slot /\ SlotOK(r, ps[r][u])
        /\ ps[r][u].kind = "master" /\ r # NoRank
    BY RankAssumption DEF TypeOK, SlotOK, IsHandled
  <1>2. GhostOwners(r, u) = Near(r, u)
    BY DEF GhostOwners
  <1>3. CASE FlowsOut(r, u)
    <2>1. SlotAfterSync(r, u) = Absent
      BY <1>3 DEF SlotAfterSync, FlowsOut, Migrates, Leaves
    <2> QED
      BY <1>1, <1>3, <2>1 DEF Shows, Written, Absent
  <1>4. CASE ~FlowsOut(r, u) /\ Migrates(r, u)
    <2>1. SlotAfterSync(r, u) = Ghost(NewOwner(r, u), Image[r][MappedPos(r, u)])
      BY <1>4 DEF SlotAfterSync, Migrates, Leaves
    <2>2. NewOwner(r, u) # r
      BY <1>4 DEF Migrates, Leaves
    <2> QED
      BY <1>4, <2>1, <2>2 DEF Shows, Written, Ghost
  <1>5. CASE ~FlowsOut(r, u) /\ ~Migrates(r, u) /\ IsInside(r, u)
    <2>1. SlotAfterSync(r, u) = [ps[r][u] EXCEPT !.ghosts = {}]
      BY <1>5 DEF SlotAfterSync
    <2> QED
      BY <1>1, <1>5, <2>1 DEF Shows, Written, Slot
  <1>6. CASE ~FlowsOut(r, u) /\ ~Migrates(r, u) /\ ~IsInside(r, u)
    <2>1. SlotAfterSync(r, u)
            = [ps[r][u] EXCEPT !.pos = MappedPos(r, u), !.ghosts = GhostOwners(r, u)]
      BY <1>6 DEF SlotAfterSync
    <2> QED
      BY <1>1, <1>2, <1>6, <2>1 DEF Shows, Written, Slot
  <1> QED
    BY <1>3, <1>4, <1>5, <1>6

(* The walk tells every neighbour what it decided. *)
LEMMA WalkTells ==
  ASSUME TypeOK, SmallParticles, NEW r \in Rank, NEW u \in Particle, NEW was,
         IsHandled(r, u), was.owner = r, ps[r][u].ghosts = was.ghosts,
         was.ghosts \subseteq Nbr[r], NEW d \in Nbr[r]
  PROVE  Told(d, was, Written(r, u), BatchFor(r, d)[u])
  <1> DEFINE e == BatchFor(r, d)[u]
             is == Written(r, u)
             seen == e.ghost.type \in {"copy", "update"}
  <1>1. e.ghost = GhostNote(r, d, u) /\ e.own = OwnNote(r, d, u)
    BY DEF BatchFor
  <1>2. /\ ps[r][u].owner = r
        /\ d \in Rank /\ d # r /\ d # NoRank
        /\ Near(r, u) \subseteq Nbr[r]
    BY RankAssumption, NotOwnNbr DEF TypeOK, SlotOK, IsHandled, Near
  <1>3. GhostOwners(r, u) = Near(r, u)
    BY DEF GhostOwners
  <1>4. Leaves(r, u) => ~IsInside(r, u)
    BY DEF Leaves
  <1>5. /\ IF d \in was.ghosts THEN e.ghost.type \in {"update", "removal"}
                               ELSE e.ghost.type \in {"copy", "none"}
        /\ e.ghost.type = "copy" => e.ghost.owner = r
        /\ seen <=> ~IsInside(r, u) /\ d \in Near(r, u)
        /\ seen => e.ghost.pos = MappedPos(r, u)
    <2>1. CASE IsInside(r, u)
      BY <1>1, <2>1 DEF GhostNote, Bare
    <2>2. CASE ~IsInside(r, u) /\ d \in Near(r, u)
      BY <1>1, <1>2, <2>2 DEF GhostNote
    <2>3. CASE ~IsInside(r, u) /\ d \notin Near(r, u)
      BY <1>1, <2>3 DEF GhostNote, Bare
    <2> QED
      BY <2>1, <2>2, <2>3
  <1> HIDE DEF e
  <1>6. CASE FlowsOut(r, u)
    <2>1. is = [owner |-> NoRank, ghosts |-> {}, pos |-> Nowhere]
      BY <1>6 DEF Written
    <2>2. ~Migrates(r, u)
      BY <1>6 DEF FlowsOut, Migrates
    <2>3. e.own = Bare(IF d \in Near(r, u) THEN "removal" ELSE "none")
      BY <1>1, <1>3, <1>6, <2>2 DEF OwnNote
    <2>4. e.own.type = IF seen THEN "removal" ELSE "none"
      BY <1>4, <1>5, <1>6, <2>3 DEF Bare, FlowsOut
    <2> HIDE DEF is, seen
    <2> QED
      BY <1>2, <1>5, <2>1, <2>4 DEF Told, is, seen, e
  <1>7. CASE ~FlowsOut(r, u) /\ Migrates(r, u)
    <2> DEFINE o == NewOwner(r, u)
               g == (Near(r, u) \ {o}) \cup {r}
    <2>1. is = [owner |-> o, ghosts |-> g, pos |-> MappedPos(r, u)]
      BY <1>7 DEF Written
    <2>2. /\ o \in Near(r, u) /\ o # r
          /\ OwnerOf[MappedPos(r, u)] = o /\ Image[o][MappedPos(r, u)] = MappedPos(r, u)
      BY <1>7, MigrationGeometry
    <2>3. ~IsInside(r, u)
      BY <1>4, <1>7 DEF Migrates
    <2>4. d = o => e.own.type = "migration" /\ e.own.ghosts = g
      <3>1. d = o => e.own = [Bare("migration") EXCEPT !.ghosts = g]
        BY <1>1, <1>3, <1>7, OwnNoteCases
      <3> QED
        BY <3>1 DEF Bare
    <2>5. d # o /\ d \in Near(r, u) => e.own.type = "remoteMigration" /\ e.own.owner = o
      <3>1. d # o /\ d \in Near(r, u) => e.own = [Bare("remoteMigration") EXCEPT !.owner = o]
        BY <1>1, <1>3, <1>7, OwnNoteCases
      <3> QED
        BY <3>1 DEF Bare
    <2>6. d # o /\ d \notin Near(r, u) => e.own.type = "none"
      <3>1. d # o /\ d \notin Near(r, u) => e.own = Bare("none")
        BY <1>1, <1>3, <1>7, OwnNoteCases
      <3> QED
        BY <3>1 DEF Bare
    <2>7. is.owner = o /\ is.ghosts = g /\ is.pos = MappedPos(r, u)
      BY <2>1
    <2> HIDE DEF o, is
    <2> QED
      BY <1>2, <1>5, <2>2, <2>3, <2>4, <2>5, <2>6, <2>7 DEF Told, is, e
  <1>8. CASE ~FlowsOut(r, u) /\ ~Migrates(r, u)
    <2>1. is = [owner |-> r, ghosts |-> IF IsInside(r, u) THEN {} ELSE Near(r, u),
                pos |-> IF IsInside(r, u) THEN ps[r][u].pos ELSE MappedPos(r, u)]
      BY <1>8 DEF Written
    <2>2. e.own = Bare("none")
      BY <1>1, <1>8 DEF OwnNote
    <2>3. e.own.type = "none"
      BY <2>2 DEF Bare
    <2>4. is.owner = r /\ (d \in is.ghosts <=> seen) /\ (seen => is.pos = MappedPos(r, u))
      BY <1>5, <2>1
    <2> HIDE DEF is
    <2> QED
      BY <1>2, <1>5, <2>3, <2>4 DEF Told, is, e
  <1> QED
    BY <1>6, <1>7, <1>8

(* It says nothing of what it does not handle. *)
LEMMA WalkKeepsSilent ==
  ASSUME NEW r \in Rank, NEW d \in Rank, NEW u \in Particle, ~IsHandled(r, u)
  PROVE  Silent(BatchFor(r, d)[u]) /\ SlotAfterSync(r, u) = ps[r][u]
  <1>1. ~FlowsOut(r, u) /\ ~Migrates(r, u)
    BY DEF FlowsOut, Migrates, Leaves
  <1>2. GhostNote(r, d, u) = Bare("none") /\ OwnNote(r, d, u) = Bare("none")
    BY <1>1 DEF GhostNote, OwnNote
  <1>3. SlotAfterSync(r, u) = ps[r][u]
    BY <1>1 DEF SlotAfterSync
  <1> QED
    BY <1>2, <1>3 DEF Silent, BatchFor, Bare

(* The walk opens a buffer for its neighbours and for no one else. *)
LEMMA WalkOpens ==
  ASSUME TypeOK, SmallParticles, NEW r \in Rank,
         \A u \in Particle : IsHandled(r, u) => ps[r][u].ghosts \subseteq Nbr[r]
  PROVE  Opened(r) = Nbr[r]
  <1> SUFFICES ASSUME NEW d \in Rank \ Nbr[r] PROVE BatchFor(r, d) = EmptyBatch
    BY GeometryAssumption DEF Opened
  <1>1. ASSUME NEW u \in Particle
        PROVE  GhostNote(r, d, u) = Bare("none") /\ OwnNote(r, d, u) = Bare("none")
    <2>1. d \notin Near(r, u)
      BY DEF Near
    <2>2. IsHandled(r, u) => d \notin ps[r][u].ghosts
      OBVIOUS
    <2>3. IsHandled(r, u) => d \notin GhostOwners(r, u)
      BY <2>1, <2>2 DEF GhostOwners
    <2>4. Migrates(r, u) => d # NewOwner(r, u)
      BY MigrationGeometry
    <2>5. GhostNote(r, d, u) = Bare("none")
      BY <2>1, <2>2 DEF GhostNote
    <2>6. FlowsOut(r, u) \/ Migrates(r, u) => IsHandled(r, u)
      BY DEF FlowsOut, Migrates, Leaves
    <2>7. OwnNote(r, d, u) = Bare("none")
      BY <2>3, <2>4, <2>6 DEF OwnNote
    <2> QED
      BY <2>5, <2>7
  <1> QED
    BY <1>1 DEF BatchFor, EmptyBatch

-----------------------------------------------------------------------------
(* What parsing one buffer makes of one particle *)

LEMMA TakeGhostNote ==
  ASSUME NEW d \in Rank, NEW s \in Nbr[d], NEW was, NEW is, NEW e, NEW sl,
         Shows(d, was, sl), was.owner = s, Told(d, was, is, e), SlotOK(d, sl)
  PROVE  LET m == Parsed(d, sl, e.ghost) IN
         /\ NoteChecks(d, s, sl, e.ghost)
         /\ IF e.ghost.type \in {"copy", "update"}
            THEN m.kind = "ghost" /\ m.owner = s /\ m.pos = Image[d][e.ghost.pos]
            ELSE m.kind = "none"
  <1>1. s # d
    BY NotOwnNbr
  <1>2. sl \in Slot
    BY DEF SlotOK
  <1>3. CASE d \in was.ghosts
    <2>1. sl.kind = "ghost" /\ sl.owner = s
      BY <1>1, <1>3 DEF Shows
    <2>2. CASE e.ghost.type = "update"
      BY <1>2, <2>1, <2>2 DEF NoteChecks, Parsed, Slot
    <2>3. CASE e.ghost.type = "removal"
      BY <2>1, <2>3 DEF NoteChecks, Parsed, Absent
    <2> QED
      BY <1>3, <2>2, <2>3 DEF Told
  <1>4. CASE d \notin was.ghosts
    <2>1. sl.kind = "none"
      BY <1>1, <1>4 DEF Shows
    <2>2. CASE e.ghost.type = "copy"
      BY <2>1, <2>2 DEF NoteChecks, Parsed, Ghost, Told
    <2>3. CASE e.ghost.type = "none"
      BY <2>1, <2>3 DEF NoteChecks, Parsed
    <2> QED
      BY <1>4, <2>2, <2>3 DEF Told
  <1> QED
    BY <1>3, <1>4

(* Who is told how a particle changed passes the checks and shows the change. *)
LEMMA TakeNotes ==
  ASSUME NEW d \in Rank, NEW s \in Nbr[d], NEW was, NEW is, NEW e, NEW sl,
         Shows(d, was, sl), was.owner = s, Told(d, was, is, e), SlotOK(d, sl)
  PROVE  LET m == Parsed(d, sl, e.ghost) IN
         /\ NoteChecks(d, s, sl, e.ghost)
         /\ NoteChecks(d, s, m, e.own)
         /\ Shows(d, is, Parsed(d, m, e.own))
         /\ d = is.owner => Parsed(d, m, e.own).pos = is.pos
  <1> DEFINE m == Parsed(d, sl, e.ghost)
             seen == e.ghost.type \in {"copy", "update"}
  <1>1. /\ NoteChecks(d, s, sl, e.ghost)
        /\ seen => m.kind = "ghost" /\ m.owner = s /\ m.pos = Image[d][e.ghost.pos]
        /\ ~seen => m.kind = "none"
    BY TakeGhostNote
  <1> HIDE DEF m
  <1>2. CASE d = is.owner
    <2>1. /\ seen /\ e.own.type = "migration" /\ e.own.ghosts = is.ghosts
          /\ e.ghost.pos = is.pos
          /\ OwnerOf[is.pos] = d /\ Image[d][is.pos] = is.pos
      BY <1>2 DEF Told
    <2>2. NoteChecks(d, s, m, e.own)
      BY <1>1, <2>1 DEF NoteChecks
    <2>3. Shows(d, is, Parsed(d, m, e.own)) /\ Parsed(d, m, e.own).pos = is.pos
      BY <1>1, <1>2, <2>1 DEF Shows, Parsed, Master
    <2> QED
      BY <1>1, <2>2, <2>3 DEF m
  <1>3. CASE d # is.owner /\ d \in is.ghosts
    <2>1. /\ seen /\ e.ghost.pos = is.pos
          /\ IF is.owner = was.owner
             THEN e.own.type = "none"
             ELSE e.own.type = "remoteMigration" /\ e.own.owner = is.owner
      BY <1>3 DEF Told
    <2>2. CASE is.owner = was.owner
      <3>1. NoteChecks(d, s, m, e.own) /\ Parsed(d, m, e.own) = m
        BY <2>1, <2>2 DEF NoteChecks, Parsed
      <3>2. Shows(d, is, m)
        BY <1>1, <1>3, <2>1, <2>2 DEF Shows
      <3> QED
        BY <1>1, <1>3, <3>1, <3>2 DEF m
    <2>3. CASE is.owner # was.owner
      <3>1. NoteChecks(d, s, m, e.own)
        BY <1>1, <1>3, <2>1, <2>3 DEF NoteChecks
      <3>2. Parsed(d, m, e.own) = [m EXCEPT !.owner = is.owner]
        BY <2>1, <2>3 DEF Parsed
      <3>3. /\ [m EXCEPT !.owner = is.owner].kind = m.kind
            /\ [m EXCEPT !.owner = is.owner].owner = is.owner
            /\ [m EXCEPT !.owner = is.owner].pos = m.pos
        <4>1. CASE e.ghost.type = "copy"
          BY <4>1 DEF Parsed, Ghost, m
        <4>2. CASE e.ghost.type = "update"
          BY <4>2 DEF Parsed, Slot, SlotOK, m
        <4> QED
          BY <2>1, <4>1, <4>2
      <3>4. Shows(d, is, Parsed(d, m, e.own))
        BY <1>1, <1>3, <2>1, <3>2, <3>3 DEF Shows
      <3> QED
        BY <1>1, <1>3, <3>1, <3>4 DEF m
    <2> QED
      BY <2>2, <2>3
  <1>4. CASE d # is.owner /\ d \notin is.ghosts
    <2>1. e.own.type = IF seen THEN "removal" ELSE "none"
      BY <1>4 DEF Told
    <2>2. CASE seen
      <3>1. NoteChecks(d, s, m, e.own) /\ Parsed(d, m, e.own) = Absent
        BY <1>1, <2>1, <2>2 DEF NoteChecks, Parsed
      <3> QED
        BY <1>1, <1>4, <3>1 DEF Shows, Absent, m
    <2>3. CASE ~seen
      <3>1. NoteChecks(d, s, m, e.own) /\ Parsed(d, m, e.own) = m
        BY <2>1, <2>3 DEF NoteChecks, Parsed
      <3> QED
        BY <1>1, <1>4, <2>3, <3>1 DEF Shows, m
    <2> QED
      BY <2>2, <2>3
  <1> QED
    BY <1>2, <1>3, <1>4

-----------------------------------------------------------------------------
(* A walk *)

(* What the walk of r adds to the histories *)
Recorded(r, k, h, n, k2, h2, n2) ==
  /\ k2 = [k EXCEPT ![r] = k[r] + 1]
  /\ n2 = [u \in Particle |-> IF IsHandled(r, u) THEN n[u] + 1 ELSE n[u]]
  /\ h2 = [u \in Particle |->
             IF IsHandled(r, u) THEN [h[u] EXCEPT ![n[u] + 1] = Written(r, u)] ELSE h[u]]

LEMMA RecordedType ==
  ASSUME TypeOK, SmallParticles, NEW r \in Rank, NEW k, NEW h, NEW n, Histories(k, h, n),
         NEW k2, NEW h2, NEW n2, Recorded(r, k, h, n, k2, h2, n2)
  PROVE  /\ Histories(k2, h2, n2)
         /\ k2[r] = k[r] + 1
         /\ \A d \in Rank \ {r} : k2[d] = k[d]
         /\ \A d \in Rank : k[d] <= k2[d]
         /\ \A u \in Particle :
              /\ h2[u] \in [Nat -> Chapter] /\ h[u] \in [Nat -> Chapter]
              /\ IsHandled(r, u) => /\ n2[u] = n[u] + 1
                                    /\ h2[u][n[u] + 1] = Written(r, u)
              /\ ~IsHandled(r, u) => n2[u] = n[u] /\ h2[u] = h[u]
              /\ \A j \in Nat : j <= n[u] => h2[u][j] = h[u][j]
  <1>1. k \in [Rank -> Nat] /\ n \in [Particle -> Nat] /\ h \in [Particle -> [Nat -> Chapter]]
    BY DEF Histories
  <1>2. /\ k2 \in [Rank -> Nat] /\ k2[r] = k[r] + 1
        /\ \A d \in Rank \ {r} : k2[d] = k[d]
        /\ \A d \in Rank : k[d] <= k2[d]
    BY <1>1 DEF Recorded
  <1>3. n2 \in [Particle -> Nat]
    BY <1>1 DEF Recorded
  <1>4. ASSUME NEW u \in Particle
        PROVE  /\ h2[u] \in [Nat -> Chapter] /\ h[u] \in [Nat -> Chapter]
               /\ IsHandled(r, u) => /\ n2[u] = n[u] + 1
                                     /\ h2[u][n[u] + 1] = Written(r, u)
               /\ ~IsHandled(r, u) => n2[u] = n[u] /\ h2[u] = h[u]
               /\ \A j \in Nat : j <= n[u] => h2[u][j] = h[u][j]
    <2>1. h[u] \in [Nat -> Chapter] /\ n[u] \in Nat
      BY <1>1
    <2>2. Written(r, u) \in Chapter
      BY WrittenOK
    <2>3. n2[u] = IF IsHandled(r, u) THEN n[u] + 1 ELSE n[u]
      BY DEF Recorded
    <2>4. h2[u] = IF IsHandled(r, u) THEN [h[u] EXCEPT ![n[u] + 1] = Written(r, u)] ELSE h[u]
      BY DEF Recorded
    <2> QED
      BY <2>1, <2>2, <2>3, <2>4
  <1>5. h2 \in [Particle -> [Nat -> Chapter]]
    BY <1>4 DEF Recorded
  <1> QED
    BY <1>2, <1>3, <1>4, <1>5 DEF Histories

(* What r knows of a particle when it walks: a master of its own shows the last
   chapter; of another particle it is not the owner where it has got to. *)
LEMMA WalkReads ==
  ASSUME TypeOK, NEW r \in Rank, phase[r] = "sync",
         NEW k, NEW h, NEW n, Histories(k, h, n), Traced(k, h, n),
         NEW u \in Particle \ NonCommunicating
  PROVE  /\ pending[r] = {}
         /\ k[r] \in Nat /\ n[u] \in Nat /\ h[u] \in [Nat -> Chapter]
         /\ IsHandled(r, u) => /\ k[r] = n[u]
                               /\ h[u][n[u]].owner = r
                               /\ ps[r][u].ghosts = h[u][n[u]].ghosts
                               /\ h[u][n[u]].ghosts \subseteq Nbr[r]
         /\ ~IsHandled(r, u) => \A j \in Nat : j = k[r] /\ j <= n[u] => h[u][j].owner # r
         /\ k[r] <= n[u] => Shows(r, h[u][k[r]], ps[r][u])
         /\ ~(k[r] <= n[u]) => Shows(r, h[u][n[u]], ps[r][u])
  <1>1. pending[r] = {}
    BY DEF Traced, Paced
  <1>2. k \in [Rank -> Nat] /\ n[u] \in Nat /\ h[u] \in [Nat -> Chapter] /\ k[r] \in Nat
    BY DEF Histories
  <1>3. Shows(r, h[u][Page(k, h[u], n[u], r)], ps[r][u])
    BY DEF Traced, SlotsShow
  <1>4. Page(k, h[u], n[u], r) = IF n[u] < k[r] THEN n[u] ELSE k[r]
    BY <1>1 DEF Page
  <1>5. IsHandled(r, u) <=> ps[r][u].kind = "master"
    BY DEF IsHandled
  <1>6. Paced(k) /\ Coherent(k, h[u], n[u])
    BY DEF Traced, StoriesCohere
  <1>7. IsHandled(r, u) => /\ k[r] = n[u]
                           /\ h[u][n[u]].owner = r
                           /\ ps[r][u].ghosts = h[u][n[u]].ghosts
                           /\ h[u][n[u]].ghosts \subseteq Nbr[r]
    BY <1>2, <1>3, <1>5, <1>6, MasterReads
  <1>8. k[r] <= n[u] => Shows(r, h[u][k[r]], ps[r][u])
    BY <1>2, <1>3, <1>4
  <1>9. ~(k[r] <= n[u]) => Shows(r, h[u][n[u]], ps[r][u])
    BY <1>2, <1>3, <1>4
  <1>10. ~IsHandled(r, u) => \A j \in Nat : j = k[r] /\ j <= n[u] => h[u][j].owner # r
    BY <1>5, <1>8 DEF Shows
  <1> QED
    BY <1>1, <1>2, <1>7, <1>8, <1>9, <1>10

LEMMA WalkSteps ==
  ASSUME TypeOK, SmallParticles, NEW r \in Rank, phase[r] = "sync", WalkAndSend(r),
         NEW k, NEW h, NEW n, Histories(k, h, n), Traced(k, h, n)
  PROVE  /\ \A d \in Rank, u \in Particle :
              ps'[d][u] = IF d = r THEN SlotAfterSync(r, u) ELSE ps[d][u]
         /\ \A s, d \in Rank :
              chan'[<<s, d>>] = IF s = r /\ d \in Nbr[r]
                                THEN Append(chan[<<s, d>>], BatchFor(r, d))
                                ELSE chan[<<s, d>>]
         /\ \A d \in Rank : pending'[d] = IF d = r THEN Nbr[r] ELSE pending[d]
         /\ phase'[r] = IF Nbr[r] = {} THEN "integrate" ELSE "parse"
         /\ \A d \in Rank \ {r} : phase'[d] = phase[d]
  <1>1. \A u \in Particle : IsHandled(r, u) => ps[r][u].ghosts \subseteq Nbr[r]
    <2> SUFFICES ASSUME NEW u \in Particle, IsHandled(r, u)
                 PROVE  ps[r][u].ghosts \subseteq Nbr[r]
      OBVIOUS
    <2>1. u \notin NonCommunicating
      BY DEF IsHandled
    <2> QED
      BY <2>1, WalkReads
  <1>2. Opened(r) = Nbr[r]
    BY <1>1, WalkOpens
  <1>3. ps \in [Rank -> [Particle -> Slot]]
    BY DEF TypeOK
  <1>4. \A d \in Rank, u \in Particle :
          ps'[d][u] = IF d = r THEN SlotAfterSync(r, u) ELSE ps[d][u]
    <2>1. ps' = [ps EXCEPT ![r] = [u \in Particle |-> SlotAfterSync(r, u)]]
      BY DEF WalkAndSend
    <2> QED
      BY <1>3, <2>1
  <1>5. \A s, d \in Rank :
          chan'[<<s, d>>] = IF s = r /\ d \in Nbr[r]
                            THEN Append(chan[<<s, d>>], BatchFor(r, d))
                            ELSE chan[<<s, d>>]
    <2>1. chan' = [c \in Rank \X Rank |->
                     IF c[1] = r /\ c[2] \in Opened(r)
                     THEN Append(chan[c], BatchFor(r, c[2])) ELSE chan[c]]
      BY DEF WalkAndSend
    <2> QED
      BY <1>2, <2>1
  <1>6. /\ pending' = [pending EXCEPT ![r] = Nbr[r]]
        /\ phase' = [phase EXCEPT ![r] = IF Nbr[r] = {} THEN "integrate" ELSE "parse"]
    BY <1>2 DEF WalkAndSend
  <1>7. pending \in [Rank -> SUBSET Rank] /\ phase \in [Rank -> {"integrate", "sync", "parse"}]
    BY DEF TypeOK
  <1> QED
    BY <1>4, <1>5, <1>6, <1>7

LEMMA WalkPaces ==
  ASSUME TypeOK, SmallParticles, NEW r \in Rank, phase[r] = "sync", WalkAndSend(r),
         NEW k, NEW h, NEW n, Histories(k, h, n), Traced(k, h, n),
         NEW k2, NEW h2, NEW n2, Recorded(r, k, h, n, k2, h2, n2)
  PROVE  Paced(k2)'
  <1>1. Paced(k) /\ k \in [Rank -> Nat]
    BY DEF Traced, Histories
  <1>2. /\ k2 \in [Rank -> Nat] /\ k2[r] = k[r] + 1
        /\ \A d \in Rank \ {r} : k2[d] = k[d]
    BY RecordedType DEF Histories
  <1>3. pending[r] = {}
    BY <1>1 DEF Paced
  <1>4. ASSUME NEW d \in Rank
        PROVE  /\ phase'[d] = "parse" <=> pending'[d] # {}
               /\ pending'[d] # {} => k2[d] # 0
               /\ pending'[d] \subseteq Nbr[d]
    <2>1. CASE d = r
      BY <1>1, <1>2, <2>1, WalkSteps
    <2>2. CASE d # r
      <3>1. phase'[d] = phase[d] /\ pending'[d] = pending[d] /\ k2[d] = k[d]
        BY <1>2, <2>2, WalkSteps
      <3> QED
        BY <1>1, <3>1 DEF Paced
    <2> QED
      BY <2>1, <2>2
  <1>5. ASSUME NEW d \in Rank, NEW s \in Nbr[d]
        PROVE  k2[s] + (IF s \in pending'[d] THEN 1 ELSE 0) = k2[d] + Len(chan'[<<s, d>>])
    <2>1. s \in Rank /\ s # d /\ d \in Nbr[s]
      BY GeometryAssumption, NeighborAssumption
    <2>2. k[s] + (IF s \in pending[d] THEN 1 ELSE 0) = k[d] + Len(chan[<<s, d>>])
      BY <1>1 DEF Paced
    <2>3. chan[<<s, d>>] \in Seq(Batch) /\ k[s] \in Nat /\ k[d] \in Nat
      BY <1>1, <2>1 DEF TypeOK
    <2>4. Len(chan[<<s, d>>]) \in Nat
      BY <2>3
    <2>5. CASE s = r
      <3>1. /\ chan'[<<s, d>>] = Append(chan[<<s, d>>], BatchFor(r, d))
            /\ pending'[d] = pending[d] /\ k2[s] = k[s] + 1 /\ k2[d] = k[d]
        BY <1>2, <2>1, <2>5, WalkSteps
      <3>2. Len(chan'[<<s, d>>]) = Len(chan[<<s, d>>]) + 1
        BY <2>3, <3>1
      <3> QED
        BY <2>2, <2>3, <2>4, <3>1, <3>2
    <2>6. CASE d = r
      <3>1. /\ chan'[<<s, d>>] = chan[<<s, d>>]
            /\ pending'[d] = Nbr[d] /\ k2[s] = k[s] /\ k2[d] = k[d] + 1
        BY <1>2, <2>1, <2>6, WalkSteps
      <3> QED
        <4> DEFINE l == Len(chan[<<s, d>>])
        <4>1. s \in pending'[d] /\ s \notin pending[d]
          BY <1>3, <2>6, <3>1
        <4>2. k[s] = k[d] + l /\ l \in Nat /\ k[s] \in Nat /\ k[d] \in Nat
          BY <2>2, <2>3, <2>4, <4>1
        <4>3. Len(chan'[<<s, d>>]) = l
          BY <3>1
        <4> HIDE DEF l
        <4> QED
          BY <3>1, <4>1, <4>2, <4>3
    <2>7. CASE s # r /\ d # r
      <3>1. /\ chan'[<<s, d>>] = chan[<<s, d>>]
            /\ pending'[d] = pending[d] /\ k2[s] = k[s] /\ k2[d] = k[d]
        BY <1>2, <2>1, <2>7, WalkSteps
      <3> QED
        BY <2>2, <3>1
    <2> QED
      BY <2>5, <2>6, <2>7
  <1>6. ASSUME NEW s \in Rank, NEW d \in Rank, s \notin Nbr[d]
        PROVE  chan'[<<s, d>>] = <<>>
    <2>1. s = r => d \notin Nbr[r]
      BY <1>6, NeighborAssumption
    <2>2. chan'[<<s, d>>] = chan[<<s, d>>]
      BY <2>1, WalkSteps
    <2> QED
      BY <1>1, <1>6, <2>2 DEF Paced
  <1> QED
    BY <1>4, <1>5, <1>6 DEF Paced

(* The chapter a walk writes continues the story. *)
LEMMA WalkCoheres ==
  ASSUME TypeOK, SmallParticles, NEW r \in Rank, phase[r] = "sync",
         NEW k, NEW h, NEW n, Histories(k, h, n), Traced(k, h, n),
         NEW k2, NEW h2, NEW n2, Recorded(r, k, h, n, k2, h2, n2),
         NEW u \in Particle \ NonCommunicating
  PROVE  Coherent(k2, h2[u], n2[u])
  <1> DEFINE c == h[u]
             c2 == h2[u]
             l == n[u]
  <1>1. Paced(k) /\ Coherent(k, c, l)
    BY DEF Traced, StoriesCohere
  <1>2. k \in [Rank -> Nat] /\ l \in Nat /\ c \in [Nat -> Chapter]
    BY DEF Histories
  <1>3. /\ k2 \in [Rank -> Nat] /\ k2[r] = k[r] + 1
        /\ \A d \in Rank \ {r} : k2[d] = k[d]
        /\ \A d \in Rank : k[d] <= k2[d]
        /\ c2 \in [Nat -> Chapter]
        /\ \A j \in Nat : j <= l => c2[j] = c[j]
    BY RecordedType DEF Histories
  <1>4. ASSUME NEW j \in Nat PROVE c[j].owner \in Rank \cup {NoRank}
    BY <1>2 DEF Chapter
  <1>5. CASE ~IsHandled(r, u)
    <2>1. n2[u] = l /\ c2 = c
      BY <1>5, RecordedType
    <2>2. ASSUME NEW j \in Nat, j < l PROVE j < k2[c[j].owner]
      <3>1. j < k[c[j].owner] /\ c[j].owner # NoRank
        BY <1>1, <1>2, <2>2 DEF Coherent
      <3> QED
        BY <1>2, <1>3, <1>4, <3>1
    <2>3. ASSUME c[l].owner # NoRank PROVE k2[c[l].owner] <= l
      <3>1. k[c[l].owner] <= l /\ c[l].owner \in Rank
        BY <1>1, <1>2, <1>4, <2>3 DEF Coherent
      <3>2. CASE c[l].owner = r
        <4>1. k[r] # l
          BY <1>2, <1>5, <3>2, WalkReads
        <4> QED
          BY <1>2, <1>3, <3>1, <3>2, <4>1
      <3>3. CASE c[l].owner # r
        BY <1>3, <3>1, <3>3
      <3> QED
        BY <3>2, <3>3
    <2> HIDE DEF c, c2, l
    <2>4. Coherent(k2, c, l)
      BY <1>1, <2>2, <2>3 DEF Coherent
    <2> QED
      BY <2>1, <2>4 DEF c, c2, l
  <1>6. CASE IsHandled(r, u)
    <2> DEFINE new == Written(r, u)
    <2>1. n2[u] = l + 1 /\ c2[l + 1] = new
      BY <1>6, RecordedType
    <2>2. k[r] = l /\ c[l].owner = r /\ c[l].ghosts \subseteq Nbr[r] /\ r # NoRank
      BY <1>6, WalkReads, RankAssumption
    <2>3. /\ new.owner = NoRank => new.ghosts = {}
          /\ new.owner # NoRank => new.ghosts \subseteq Nbr[new.owner]
          /\ new.owner \in Nbr[r] \cup {r, NoRank}
          /\ new.ghosts \subseteq Nbr[r] \cup {r}
      BY WrittenOK
    <2> HIDE DEF new, c, c2, l
    <2>4. ASSUME NEW j \in Nat, j <= l + 1
          PROVE  /\ c2[j].owner = NoRank => c2[j].ghosts = {} /\ j = l + 1
                 /\ c2[j].owner # NoRank => c2[j].ghosts \subseteq Nbr[c2[j].owner]
      <3>1. CASE j = l + 1
        BY <2>1, <2>3, <3>1
      <3>2. CASE j <= l
        <4>1. c2[j] = c[j]
          BY <1>3, <3>2
        <4>2. /\ c[j].owner = NoRank => c[j].ghosts = {} /\ j = l
              /\ c[j].owner # NoRank => c[j].ghosts \subseteq Nbr[c[j].owner]
          BY <1>1, <3>2 DEF Coherent
        <4>3. c[j].owner # NoRank
          BY <2>2, <4>2
        <4> QED
          BY <4>1, <4>2, <4>3
      <3> QED
        BY <1>2, <2>4, <3>1, <3>2
    <2>5. ASSUME NEW j \in Nat, j < l + 1
          PROVE  /\ j < k2[c2[j].owner]
                 /\ c2[j + 1].owner \in Nbr[c2[j].owner] \cup {c2[j].owner, NoRank}
                 /\ c2[j + 1].ghosts \subseteq Nbr[c2[j].owner] \cup {c2[j].owner}
      <3>1. CASE j = l
        <4>1. c2[j] = c[l] /\ c2[j + 1] = new
          BY <1>3, <2>1, <3>1
        <4> QED
          BY <1>2, <1>3, <2>2, <2>3, <3>1, <4>1
      <3>2. CASE j < l
        <4>1. c2[j] = c[j] /\ c2[j + 1] = c[j + 1]
          BY <1>2, <1>3, <3>2
        <4>2. /\ j < k[c[j].owner] /\ c[j].owner # NoRank
              /\ c[j + 1].owner \in Nbr[c[j].owner] \cup {c[j].owner, NoRank}
              /\ c[j + 1].ghosts \subseteq Nbr[c[j].owner] \cup {c[j].owner}
          BY <1>1, <1>2, <3>2 DEF Coherent
        <4>3. j < k2[c[j].owner]
          BY <1>2, <1>3, <1>4, <4>2
        <4> QED
          BY <4>1, <4>2, <4>3
      <3> QED
        BY <1>2, <2>5, <3>1, <3>2
    <2>6. ASSUME new.owner # NoRank PROVE k2[new.owner] <= l + 1
      <3>1. CASE new.owner = r
        BY <1>3, <2>2, <3>1
      <3>2. CASE new.owner # r
        <4>1. new.owner \in Nbr[r] /\ new.owner \in Rank
          BY <2>3, <2>6, <3>2, NotOwnNbr
        <4>2. k[new.owner] <= k[r] + 1
          BY <1>1, <1>2, <4>1, Apart
        <4> QED
          BY <1>3, <2>2, <3>2, <4>1, <4>2
      <3> QED
        BY <3>1, <3>2
    <2>7. Coherent(k2, c2, l + 1)
      BY <2>1, <2>4, <2>5, <2>6 DEF Coherent
    <2> QED
      BY <2>1, <2>7 DEF c2, l
  <1> QED
    BY <1>5, <1>6

(* Who is no neighbour of a chapter's owner does not see that chapter. *)
LEMMA FarShowsNothing ==
  ASSUME NEW r \in Rank, NEW d \in Rank, d # r, d \notin Nbr[r], NEW ch,
         ch.owner \in Nbr[r] \cup {r, NoRank}, ch.ghosts \subseteq Nbr[r] \cup {r}
  PROVE  \A sl : Shows(d, ch, sl) <=> sl.kind = "none"
  BY RankAssumption DEF Shows

(* After a walk every slot shows the page its process has reached. *)
LEMMA WalkShowsPages ==
  ASSUME TypeOK, SmallParticles, NEW r \in Rank, phase[r] = "sync", WalkAndSend(r),
         NEW k, NEW h, NEW n, Histories(k, h, n), Traced(k, h, n),
         NEW k2, NEW h2, NEW n2, Recorded(r, k, h, n, k2, h2, n2),
         NEW u \in Particle \ NonCommunicating, NEW d \in Rank
  PROVE  Shows(d, h2[u][Page(k2, h2[u], n2[u], d)'], ps'[d][u])
  <1> DEFINE c == h[u]
             c2 == h2[u]
             l == n[u]
             j == Page(k, c, l, d)
  <1>1. Paced(k) /\ Coherent(k, c, l)
    BY DEF Traced, StoriesCohere
  <1>2. k \in [Rank -> Nat] /\ l \in Nat /\ c \in [Nat -> Chapter] /\ k[d] \in Nat /\ k[r] \in Nat
    BY DEF Histories
  <1>3. /\ k2[r] = k[r] + 1
        /\ d # r => k2[d] = k[d]
        /\ \A i \in Nat : i <= l => c2[i] = c[i]
    BY RecordedType
  <1>4. Shows(d, c[j], ps[d][u])
    BY DEF Traced, SlotsShow
  <1>5. /\ pending'[d] = IF d = r THEN Nbr[r] ELSE pending[d]
        /\ ps'[d][u] = IF d = r THEN SlotAfterSync(r, u) ELSE ps[d][u]
    BY WalkSteps
  <1>6. Page(k2, c2, n2[u], d)' =
          IF n2[u] < k2[d] THEN n2[u]
          ELSE IF k2[d] # 0 /\ c2[k2[d] - 1].owner \in pending'[d] THEN k2[d] - 1
          ELSE k2[d]
    BY DEF Page
  <1>7. CASE ~IsHandled(r, u)
    <2>1. n2[u] = l /\ c2 = c
      BY <1>7, RecordedType
    <2>2. ps'[d][u] = ps[d][u]
      BY <1>5, <1>7, WalkKeepsSilent
    <2>3. CASE d # r
      <3>1. Page(k2, c2, n2[u], d)' = j
        BY <1>3, <1>5, <1>6, <2>1, <2>3 DEF Page
      <3> QED
        BY <1>4, <2>1, <2>2, <3>1
    <2>4. CASE d = r
      <3>1. /\ k[r] <= l => Shows(r, c[k[r]], ps[r][u]) /\ c[k[r]].owner # r
            /\ ~(k[r] <= l) => Shows(r, c[l], ps[r][u])
        BY <1>2, <1>7, WalkReads
      <3>2. CASE l < k[r] + 1
        <4>1. Page(k2, c2, n2[u], d)' = l
          BY <1>3, <1>6, <2>1, <2>4, <3>2
        <4>2. Shows(r, c[l], ps[r][u])
          <5>1. k[r] <= l => k[r] = l
            BY <1>2, <3>2
          <5> QED
            BY <3>1, <5>1
        <4> QED
          BY <2>1, <2>2, <2>4, <4>1, <4>2
      <3>3. CASE ~(l < k[r] + 1)
        <4>1. k[r] < l /\ k[r] <= l /\ k[r] + 1 # 0 /\ (k[r] + 1) - 1 = k[r]
          BY <1>2, <3>3
        <4>2. Page(k2, c2, n2[u], d)' =
                IF c[k[r]].owner \in Nbr[r] THEN k[r] ELSE k[r] + 1
          BY <1>3, <1>5, <1>6, <2>1, <2>4, <3>3, <4>1
        <4>3. CASE c[k[r]].owner \in Nbr[r]
          BY <2>1, <2>2, <2>4, <3>1, <4>1, <4>2, <4>3
        <4>4. CASE c[k[r]].owner \notin Nbr[r]
          <5> DEFINE o == c[k[r]].owner
          <5>1. /\ o # NoRank /\ o # r
                /\ c[k[r]].ghosts \subseteq Nbr[o]
                /\ c[k[r] + 1].owner \in Nbr[o] \cup {o, NoRank}
                /\ c[k[r] + 1].ghosts \subseteq Nbr[o] \cup {o}
            BY <1>1, <1>2, <3>1, <4>1 DEF Coherent
          <5>2. o \in Rank
            BY <1>2, <5>1 DEF Chapter
          <5>3. r \notin Nbr[o]
            BY <4>4, <5>2, NeighborAssumption
          <5> HIDE DEF o, c
          <5>4. ps[r][u].kind = "none"
            BY <3>1, <4>1, <5>1, <5>2, <5>3, FarShowsNothing DEF o
          <5>5. Shows(r, c[k[r] + 1], ps[r][u])
            BY <5>1, <5>2, <5>3, <5>4, FarShowsNothing
          <5> QED
            BY <2>1, <2>2, <2>4, <4>2, <4>4, <5>5 DEF c
        <4> QED
          BY <4>3, <4>4
      <3> QED
        BY <3>2, <3>3
    <2> QED
      BY <2>3, <2>4
  <1>8. CASE IsHandled(r, u)
    <2> DEFINE new == Written(r, u)
    <2>1. n2[u] = l + 1 /\ c2[l + 1] = new
      BY <1>8, RecordedType
    <2>2. /\ k[r] = l /\ c[l].owner = r /\ c[l].ghosts \subseteq Nbr[r] /\ r # NoRank
          /\ ps[r][u].ghosts \subseteq Nbr[r] /\ pending[r] = {}
      BY <1>8, WalkReads, RankAssumption
    <2>3. CASE d = r
      <3>1. c2[l] = c[l]
        BY <1>2, <1>3
      <3>2. k2[d] = l + 1 /\ ~(l + 1 < l + 1) /\ (l + 1) - 1 = l
        BY <1>2, <1>3, <2>2, <2>3
      <3>3. c2[(l + 1) - 1].owner \notin pending'[d]
        BY <1>5, <2>2, <2>3, <3>1, <3>2, NotOwnNbr
      <3>4. Page(k2, c2, n2[u], d)' = l + 1
        BY <1>6, <2>1, <3>2, <3>3
      <3>5. Shows(r, new, SlotAfterSync(r, u))
        BY <1>8, <2>2, WalkShows
      <3> QED
        BY <1>5, <2>1, <2>3, <3>4, <3>5
    <2>4. CASE d # r /\ k[d] <= l
      <3>1. k2[d] = k[d] /\ ~(l + 1 < k[d]) /\ ~(l < k[d]) /\ pending'[d] = pending[d]
        BY <1>2, <1>3, <1>5, <2>4
      <3>2. k[d] # 0 => c2[k[d] - 1] = c[k[d] - 1]
        BY <1>2, <1>3, <2>4
      <3>3. Page(k2, c2, n2[u], d)' = j
        BY <1>6, <2>1, <3>1, <3>2 DEF Page
      <3>4. j \in Nat /\ j <= l
        BY <1>2, PageType
      <3>5. c2[j] = c[j] /\ ps'[d][u] = ps[d][u]
        BY <1>3, <1>5, <2>4, <3>4
      <3> QED
        BY <1>4, <3>3, <3>5
    <2>5. CASE d # r /\ l < k[d]
      <3>1. j = l /\ ps'[d][u] = ps[d][u] /\ pending'[d] = pending[d] /\ k2[d] = k[d]
        BY <1>3, <1>5, <2>5 DEF Page
      <3>2. Shows(d, c[l], ps'[d][u])
        BY <1>4, <3>1
      <3>3. CASE r \in Nbr[d]
        <4>1. k[d] <= k[r] + 1 /\ (r \notin pending[d] => k[d] <= k[r])
          BY <1>1, <1>2, <3>3, Apart
        <4>2. k[d] = l + 1 /\ r \in pending[d]
          BY <1>2, <2>2, <2>5, <4>1
        <4>3. c2[k2[d] - 1].owner = r
          BY <1>2, <1>3, <2>2, <3>1, <4>2
        <4>4. Page(k2, c2, n2[u], d)' = l
          BY <1>2, <1>6, <2>1, <3>1, <4>2, <4>3
        <4>5. c2[l] = c[l]
          BY <1>2, <1>3
        <4> QED
          BY <3>2, <4>4, <4>5
      <3>4. CASE r \notin Nbr[d]
        <4>1. d \notin Nbr[r]
          BY <3>4, NeighborAssumption
        <4>2. /\ new.owner \in Nbr[r] \cup {r, NoRank}
              /\ new.ghosts \subseteq Nbr[r] \cup {r}
          BY WrittenOK
        <4> HIDE DEF c, new
        <4>3. ps'[d][u].kind = "none"
          BY <2>2, <2>5, <3>2, <4>1, FarShowsNothing
        <4>4. Shows(d, new, ps'[d][u]) /\ Shows(d, c[l], ps'[d][u])
          BY <2>5, <3>2, <4>1, <4>2, <4>3, FarShowsNothing
        <4>5. c2[l] = c[l] /\ c2[l + 1] = new
          BY <1>2, <1>3, <2>1
        <4>6. Page(k2, c2, n2[u], d)' \in {l, l + 1}
          <5>1. CASE l + 1 < k[d]
            BY <1>6, <2>1, <3>1, <5>1
          <5>2. CASE k[d] = l + 1
            BY <1>2, <1>6, <2>1, <3>1, <5>2
          <5> QED
            BY <1>2, <2>5, <5>1, <5>2
        <4> QED
          BY <4>4, <4>5, <4>6
      <3> QED
        BY <3>3, <3>4
    <2> QED
      BY <1>2, <2>3, <2>4, <2>5
  <1> QED
    BY <1>7, <1>8

(* Where a buffer is in a queue that got one more *)
LEMMA Queued ==
  ASSUME NEW x \in Nat, NEW len \in Nat, NEW walks \in Nat, NEW place \in Nat,
         x + 1 + (len + 1) = (walks + 1) + place
  PROVE  /\ place <= len => x + 1 + len = walks + place /\ x < walks
         /\ place = len + 1 => x = walks
  OBVIOUS

(* After a walk every buffer under way says what its walk decided. *)
LEMMA WalkBuffersTell ==
  ASSUME TypeOK, SmallParticles, NEW r \in Rank, phase[r] = "sync", WalkAndSend(r),
         NEW k, NEW h, NEW n, Histories(k, h, n), Traced(k, h, n),
         NEW k2, NEW h2, NEW n2, Recorded(r, k, h, n, k2, h2, n2)
  PROVE  BuffersTell(k2, h2, n2)'
  <1> SUFFICES ASSUME NEW s \in Rank, NEW d \in Rank, NEW i \in DOMAIN chan'[<<s, d>>],
                      NEW j \in Nat, j + 1 + Len(chan'[<<s, d>>]) = k2[s] + i,
                      NEW u \in Particle
               PROVE  IF u \notin NonCommunicating /\ j < n2[u] /\ h2[u][j].owner = s
                      THEN Told(d, h2[u][j], h2[u][j + 1], chan'[<<s, d>>][i][u])
                      ELSE Silent(chan'[<<s, d>>][i][u])
    BY DEF BuffersTell
  <1> DEFINE q == chan[<<s, d>>]
             q2 == chan'[<<s, d>>]
             m == Len(q)
  <1>1. q \in Seq(Batch) /\ m \in Nat
    BY DEF TypeOK
  <1>2. k \in [Rank -> Nat] /\ k[s] \in Nat /\ n[u] \in Nat /\ h[u] \in [Nat -> Chapter]
    BY DEF Histories
  <1>3. /\ k2[r] = k[r] + 1 /\ (s # r => k2[s] = k[s])
        /\ \A x \in Nat : x <= n[u] => h2[u][x] = h[u][x]
        /\ IsHandled(r, u) => n2[u] = n[u] + 1 /\ h2[u][n[u] + 1] = Written(r, u)
        /\ ~IsHandled(r, u) => n2[u] = n[u] /\ h2[u] = h[u]
    BY RecordedType
  <1>4. q2 = IF s = r /\ d \in Nbr[r] THEN Append(q, BatchFor(r, d)) ELSE q
    BY WalkSteps
  <1>5. IsHandled(r, u) /\ u \notin NonCommunicating => k[r] = n[u] /\ h[u][n[u]].owner = r
    BY WalkReads
  <1>6. IsHandled(r, u) => u \notin NonCommunicating
    BY DEF IsHandled
  <1> HIDE DEF q, q2, m
  <1>7. ASSUME i \in DOMAIN q, q2[i] = q[i], j + 1 + m = k[s] + i, s # r \/ j < k[r]
        PROVE  IF u \notin NonCommunicating /\ j < n2[u] /\ h2[u][j].owner = s
               THEN Told(d, h2[u][j], h2[u][j + 1], q2[i][u])
               ELSE Silent(q2[i][u])
    <2>1. IF u \notin NonCommunicating /\ j < n[u] /\ h[u][j].owner = s
          THEN Told(d, h[u][j], h[u][j + 1], q[i][u])
          ELSE Silent(q[i][u])
      BY <1>7 DEF Traced, BuffersTell, q, m
    <2>2. u \notin NonCommunicating /\ j < n2[u] /\ h2[u][j].owner = s
            <=> u \notin NonCommunicating /\ j < n[u] /\ h[u][j].owner = s
      <3>1. CASE j <= n[u]
        <4>1. h2[u][j] = h[u][j]
          BY <1>3, <3>1
        <4>2. CASE j = n[u] /\ IsHandled(r, u)
          BY <1>2, <1>5, <1>6, <1>7, <4>1, <4>2
        <4>3. CASE j < n[u]
          BY <1>2, <1>3, <4>1, <4>3
        <4>4. CASE ~IsHandled(r, u)
          BY <1>3, <4>4
        <4> QED
          BY <1>2, <3>1, <4>2, <4>3, <4>4
      <3>2. CASE ~(j <= n[u])
        BY <1>2, <1>3, <3>2
      <3> QED
        BY <3>1, <3>2
    <2>3. j < n[u] => h2[u][j] = h[u][j] /\ h2[u][j + 1] = h[u][j + 1]
      BY <1>2, <1>3
    <2> QED
      BY <1>7, <2>1, <2>2, <2>3
  <1>8. CASE ~(s = r /\ d \in Nbr[r])
    <2>1. q2 = q
      BY <1>4, <1>8
    <2>2. s = r => q = <<>>
      <3>1. d \notin Nbr[r] => r \notin Nbr[d]
        BY NeighborAssumption
      <3> QED
        BY <1>8, <3>1 DEF Traced, Paced, q
    <2>3. s # r
      BY <2>1, <2>2 DEF q2
    <2>4. i \in DOMAIN q /\ j + 1 + m = k[s] + i
      BY <1>3, <2>1, <2>3 DEF q2, m
    <2> QED
      BY <1>7, <2>1, <2>3, <2>4 DEF q2
  <1>9. CASE s = r /\ d \in Nbr[r]
    <2>1. q2 = Append(q, BatchFor(r, d))
      BY <1>4, <1>9
    <2>2. Len(q2) = m + 1 /\ i \in 1 .. m + 1
      BY <1>1, <2>1 DEF q2, m
    <2>3. j + 1 + (m + 1) = (k[r] + 1) + i
      BY <1>3, <1>9, <2>2 DEF q2
    <2>4. CASE i \in 1 .. m
      <3>1. i \in DOMAIN q /\ q2[i] = q[i]
        BY <1>1, <2>1, <2>4 DEF m
      <3>2. m \in Nat /\ k[r] \in Nat /\ i \in Nat /\ i <= m
        BY <1>1, <1>2, <1>9, <2>4
      <3>3. j + 1 + m = k[r] + i /\ j < k[r]
        BY ONLY <2>3, <3>2, j \in Nat, Queued
      <3> QED
        BY <1>7, <1>9, <3>1, <3>3 DEF q2
    <2>5. CASE i = m + 1
      <3>1. q2[i] = BatchFor(r, d)
        BY <1>1, <2>1, <2>5 DEF m
      <3>2. j = k[r]
        <4>1. m \in Nat /\ k[r] \in Nat /\ i \in Nat
          BY <1>1, <1>2, <1>9, <2>5
        <4> QED
          BY ONLY <2>3, <2>5, <4>1, j \in Nat, Queued
      <3>3. CASE IsHandled(r, u)
        <4>1. j = n[u] /\ j < n2[u] /\ h2[u][j] = h[u][j] /\ h[u][j].owner = s
          BY <1>2, <1>3, <1>5, <1>6, <1>9, <3>2, <3>3
        <4>2. ps[r][u].ghosts = h[u][j].ghosts /\ h[u][j].ghosts \subseteq Nbr[r]
          BY <1>6, <3>3, <4>1, WalkReads
        <4>3. Told(d, h[u][j], Written(r, u), BatchFor(r, d)[u])
          BY <1>9, <3>3, <4>1, <4>2, WalkTells
        <4>4. h2[u][j + 1] = Written(r, u)
          BY <1>3, <3>3, <4>1
        <4> QED
          BY <1>6, <3>1, <3>3, <4>1, <4>3, <4>4 DEF q2
      <3>4. CASE ~IsHandled(r, u)
        <4>1. Silent(q2[i][u])
          BY <3>1, <3>4, WalkKeepsSilent
        <4>2. ~(u \notin NonCommunicating /\ j < n2[u] /\ h2[u][j].owner = s)
          <5>1. n2[u] = n[u] /\ h2[u] = h[u]
            BY <1>3, <3>4
          <5>2. u \notin NonCommunicating /\ j <= n[u] => h[u][j].owner # r
            BY <3>2, <3>4, WalkReads
          <5> QED
            BY <1>2, <1>9, <5>1, <5>2
        <4> QED
          BY <4>1, <4>2 DEF q2
      <3> QED
        BY <3>3, <3>4
    <2> QED
      BY <2>2, <2>4, <2>5, <1>1
  <1> QED
    BY <1>8, <1>9

-----------------------------------------------------------------------------
(* A parse *)

(* The buffer r takes from s is about the chapter r has reached. *)
LEMMA ParseReads ==
  ASSUME TypeOK, NEW r \in Rank, NEW s \in Rank, s \in pending[r], chan[<<s, r>>] # <<>>,
         NEW k, NEW h, NEW n, Histories(k, h, n), Traced(k, h, n), NEW u \in Particle
  PROVE  LET e == Head(chan[<<s, r>>])[u]
             j == k[r] - 1
         IN  /\ s \in Nbr[r] /\ j \in Nat /\ j + 1 = k[r]
             /\ IF u \notin NonCommunicating /\ j < n[u] /\ h[u][j].owner = s
                THEN /\ Told(r, h[u][j], h[u][j + 1], e)
                     /\ Page(k, h[u], n[u], r) = j
                     /\ Shows(r, h[u][j], ps[r][u])
                ELSE Silent(e)
  <1> DEFINE q == chan[<<s, r>>]
             j == k[r] - 1
  <1>1. Paced(k) /\ k \in [Rank -> Nat] /\ n[u] \in Nat
    BY DEF Traced, Histories
  <1>2. s \in Nbr[r]
    BY <1>1 DEF Paced
  <1>3. q \in Seq(Batch) /\ Len(q) \in Nat /\ 1 \in DOMAIN q /\ Head(q) = q[1]
    BY HeadInChannel DEF TypeOK
  <1>4. k[s] + 1 = k[r] + Len(q)
    BY <1>1, <1>2 DEF Paced
  <1>5. k[r] # 0 /\ k[r] \in Nat /\ k[s] \in Nat
    BY <1>1 DEF Paced
  <1>6. j \in Nat /\ j + 1 = k[r] /\ j + 1 + Len(q) = k[s] + 1
    BY <1>3, <1>4, <1>5
  <1>7. IF u \notin NonCommunicating /\ j < n[u] /\ h[u][j].owner = s
        THEN Told(r, h[u][j], h[u][j + 1], q[1][u])
        ELSE Silent(q[1][u])
    BY <1>3, <1>6 DEF Traced, BuffersTell
  <1>8. ASSUME u \notin NonCommunicating, j < n[u], h[u][j].owner = s
        PROVE  Page(k, h[u], n[u], r) = j /\ Shows(r, h[u][j], ps[r][u])
    <2>1. ~(n[u] < k[r])
      BY <1>1, <1>6, <1>8
    <2>2. Page(k, h[u], n[u], r) = j
      BY <1>5, <1>8, <2>1 DEF Page
    <2> QED
      BY <1>8, <2>2 DEF Traced, SlotsShow
  <1> HIDE DEF q, j
  <1>9. IF u \notin NonCommunicating /\ j < n[u] /\ h[u][j].owner = s
        THEN /\ Told(r, h[u][j], h[u][j + 1], Head(q)[u])
             /\ Page(k, h[u], n[u], r) = j
             /\ Shows(r, h[u][j], ps[r][u])
        ELSE Silent(Head(q)[u])
    BY <1>3, <1>7, <1>8
  <1> QED
    BY <1>2, <1>6, <1>9 DEF q, j

(* The checks of a parse cannot fail. *)
LEMMA ParsePasses ==
  ASSUME TypeOK, NEW r \in Rank, NEW s \in Rank, s \in pending[r], chan[<<s, r>>] # <<>>,
         NEW k, NEW h, NEW n, Histories(k, h, n), Traced(k, h, n)
  PROVE  BatchChecks(r, s, Head(chan[<<s, r>>]))
  <1> DEFINE b == Head(chan[<<s, r>>])
  <1> SUFFICES ASSUME NEW u \in Particle
               PROVE  /\ NoteChecks(r, s, ps[r][u], b[u].ghost)
                      /\ NoteChecks(r, s, AfterGhostNote(r, b, u), b[u].own)
    BY DEF BatchChecks
  <1> DEFINE j == k[r] - 1
  <1>1. SlotOK(r, ps[r][u])
    BY DEF TypeOK
  <1>2. /\ s \in Nbr[r]
        /\ IF u \notin NonCommunicating /\ j < n[u] /\ h[u][j].owner = s
           THEN Told(r, h[u][j], h[u][j + 1], b[u]) /\ Shows(r, h[u][j], ps[r][u])
           ELSE Silent(b[u])
    BY ParseReads
  <1>3. AfterGhostNote(r, b, u) = Parsed(r, ps[r][u], b[u].ghost)
    BY DEF AfterGhostNote
  <1> HIDE DEF b, j
  <1>4. CASE u \notin NonCommunicating /\ j < n[u] /\ h[u][j].owner = s
    <2>1. /\ NoteChecks(r, s, ps[r][u], b[u].ghost)
          /\ NoteChecks(r, s, Parsed(r, ps[r][u], b[u].ghost), b[u].own)
      BY <1>1, <1>2, <1>4, TakeNotes
    <2> QED
      BY <1>3, <2>1 DEF b
  <1>5. CASE ~(u \notin NonCommunicating /\ j < n[u] /\ h[u][j].owner = s)
    <2>1. Silent(b[u])
      BY <1>2, <1>5
    <2>2. Parsed(r, ps[r][u], b[u].ghost) = ps[r][u]
      BY <2>1 DEF Silent, Parsed
    <2>3. NoteChecks(r, s, ps[r][u], b[u].ghost) /\ NoteChecks(r, s, ps[r][u], b[u].own)
      BY <2>1 DEF Silent, NoteChecks
    <2>4. AfterGhostNote(r, b, u) = ps[r][u]
      BY <1>3, <2>2
    <2> QED
      BY <2>3, <2>4 DEF b
  <1> QED
    BY <1>4, <1>5

LEMMA ParseSlots ==
  ASSUME TypeOK, NEW r \in Rank, NEW s \in Rank, ParseBuffer(r, s),
         NEW d \in Rank, NEW u \in Particle
  PROVE  ps'[d][u] = IF d = r THEN SlotAfterBatch(r, Head(chan[<<s, r>>]), u) ELSE ps[d][u]
  <1> DEFINE b == Head(chan[<<s, r>>])
  <1>1. ps' = [ps EXCEPT ![r] = [v \in Particle |-> SlotAfterBatch(r, b, v)]]
    BY DEF ParseBuffer
  <1>2. ps \in [Rank -> [Particle -> Slot]]
    BY DEF TypeOK
  <1> HIDE DEF b
  <1>3. ps'[d][u] = IF d = r THEN SlotAfterBatch(r, b, u) ELSE ps[d][u]
    BY <1>1, <1>2
  <1> QED
    BY <1>3 DEF b

LEMMA ParseChannels ==
  ASSUME TypeOK, NEW r \in Rank, NEW s \in Rank, ParseBuffer(r, s),
         NEW t \in Rank, NEW d \in Rank
  PROVE  chan'[<<t, d>>] = IF t = s /\ d = r THEN Tail(chan[<<s, r>>]) ELSE chan[<<t, d>>]
  <1>1. chan' = [chan EXCEPT ![<<s, r>>] = Tail(chan[<<s, r>>])]
    BY DEF ParseBuffer
  <1>2. chan \in [Rank \X Rank -> Seq(Batch)]
    BY DEF TypeOK
  <1> QED
    BY <1>1, <1>2

LEMMA ParseWaits ==
  ASSUME TypeOK, NEW r \in Rank, NEW s \in Rank, ParseBuffer(r, s), NEW d \in Rank
  PROVE  /\ pending'[d] = IF d = r THEN pending[d] \ {s} ELSE pending[d]
         /\ phase'[d] = IF d # r THEN phase[d]
                        ELSE IF pending[d] = {s} THEN "integrate" ELSE "parse"
  <1>1. /\ pending' = [pending EXCEPT ![r] = pending[r] \ {s}]
        /\ phase' = [phase EXCEPT ![r] = IF pending[r] = {s} THEN "integrate" ELSE "parse"]
    BY DEF ParseBuffer
  <1>2. /\ pending \in [Rank -> SUBSET Rank]
        /\ phase \in [Rank -> {"integrate", "sync", "parse"}]
    BY DEF TypeOK
  <1> QED
    BY <1>1, <1>2

LEMMA ParsePaces ==
  ASSUME TypeOK, NEW r \in Rank, NEW s \in Rank, s \in pending[r], chan[<<s, r>>] # <<>>,
         ParseBuffer(r, s), NEW k \in [Rank -> Nat], Paced(k)
  PROVE  Paced(k)'
  <1>1. ASSUME NEW d \in Rank
        PROVE  /\ phase'[d] = "parse" <=> pending'[d] # {}
               /\ pending'[d] # {} => k[d] # 0
               /\ pending'[d] \subseteq Nbr[d]
    <2>1. /\ phase[d] = "parse" <=> pending[d] # {}
          /\ pending[d] # {} => k[d] # 0
          /\ pending[d] \subseteq Nbr[d]
      BY DEF Paced
    <2>2. CASE d = r
      <3>1. /\ pending'[d] = pending[d] \ {s}
            /\ phase'[d] = IF pending[d] = {s} THEN "integrate" ELSE "parse"
        BY <2>2, ParseWaits
      <3> QED
        BY <2>1, <2>2, <3>1
    <2>3. CASE d # r
      <3>1. phase'[d] = phase[d] /\ pending'[d] = pending[d]
        BY <2>3, ParseWaits
      <3> QED
        BY <2>1, <3>1
    <2> QED
      BY <2>2, <2>3
  <1>2. ASSUME NEW d \in Rank, NEW t \in Nbr[d]
        PROVE  k[t] + (IF t \in pending'[d] THEN 1 ELSE 0) = k[d] + Len(chan'[<<t, d>>])
    <2>1. t \in Rank
      BY NotOwnNbr
    <2>2. k[t] + (IF t \in pending[d] THEN 1 ELSE 0) = k[d] + Len(chan[<<t, d>>])
      BY DEF Paced
    <2>3. chan[<<t, d>>] \in Seq(Batch) /\ Len(chan[<<t, d>>]) \in Nat
      BY <2>1 DEF TypeOK
    <2>4. CASE t = s /\ d = r
      <3>1. chan'[<<t, d>>] = Tail(chan[<<t, d>>])
        BY <2>1, <2>4, ParseChannels
      <3>2. t \notin pending'[d] /\ t \in pending[d]
        <4>1. pending'[d] = pending[d] \ {s}
          BY <2>4, ParseWaits
        <4> QED
          BY <2>4, <4>1
      <3>3. Len(chan'[<<t, d>>]) = Len(chan[<<t, d>>]) - 1
        <4> DEFINE q == chan[<<t, d>>]
        <4>1. q \in Seq(Batch) /\ q # <<>> /\ chan'[<<t, d>>] = Tail(q)
          BY <2>3, <2>4, <3>1
        <4> HIDE DEF q
        <4>2. Len(Tail(q)) = Len(q) - 1
          BY <4>1
        <4> QED
          BY <4>1, <4>2 DEF q
      <3>4. k[t] \in Nat /\ k[d] \in Nat
        BY <2>1
      <3> DEFINE m == Len(chan[<<t, d>>])
      <3>5. k[t] + 1 = k[d] + m /\ m \in Nat
        BY <2>2, <2>3, <3>2
      <3>6. Len(chan'[<<t, d>>]) = m - 1
        BY <3>3
      <3> HIDE DEF m
      <3>7. k[t] + 0 = k[d] + (m - 1)
        BY <3>4, <3>5
      <3> QED
        BY <3>2, <3>6, <3>7
    <2>5. CASE ~(t = s /\ d = r)
      <3>1. chan'[<<t, d>>] = chan[<<t, d>>]
        BY <2>1, <2>5, ParseChannels
      <3>2. t \in pending'[d] <=> t \in pending[d]
        <4>1. pending'[d] = IF d = r THEN pending[d] \ {s} ELSE pending[d]
          BY ParseWaits
        <4> QED
          BY <2>5, <4>1
      <3> QED
        BY <2>2, <3>1, <3>2
    <2> QED
      BY <2>4, <2>5
  <1>3. ASSUME NEW t \in Rank, NEW d \in Rank, t \notin Nbr[d]
        PROVE  chan'[<<t, d>>] = <<>>
    <2>1. chan[<<t, d>>] = <<>>
      BY <1>3 DEF Paced
    <2>2. ~(t = s /\ d = r)
      BY <2>1
    <2> QED
      BY <2>1, <2>2, ParseChannels
  <1> QED
    BY <1>1, <1>2, <1>3 DEF Paced

LEMMA ParseShowsPages ==
  ASSUME TypeOK, NEW r \in Rank, NEW s \in Rank, s \in pending[r], chan[<<s, r>>] # <<>>,
         ParseBuffer(r, s),
         NEW k, NEW h, NEW n, Histories(k, h, n), Traced(k, h, n),
         NEW u \in Particle \ NonCommunicating, NEW d \in Rank
  PROVE  Shows(d, h[u][Page(k, h[u], n[u], d)'], ps'[d][u])
  <1> DEFINE c == h[u]
             l == n[u]
             b == Head(chan[<<s, r>>])
             j == k[r] - 1
  <1>1. Shows(d, c[Page(k, c, l, d)], ps[d][u])
    BY DEF Traced, SlotsShow
  <1>2. Page(k, c, l, d)' =
          IF l < k[d] THEN l
          ELSE IF k[d] # 0 /\ c[k[d] - 1].owner \in pending'[d] THEN k[d] - 1
          ELSE k[d]
    BY DEF Page
  <1>3. k[r] \in Nat /\ l \in Nat /\ k[d] \in Nat
    BY DEF Histories
  <1>4. CASE d # r
    <2>1. pending'[d] = pending[d] /\ ps'[d][u] = ps[d][u]
      <3>1. pending'[d] = pending[d]
        BY <1>4, ParseWaits
      <3>2. ps'[d][u] = ps[d][u]
        BY <1>4, ParseSlots
      <3> QED
        BY <3>1, <3>2
    <2>2. Page(k, c, l, d)' = Page(k, c, l, d)
      BY <1>2, <2>1 DEF Page
    <2> QED
      BY <1>1, <2>1, <2>2
  <1>5. CASE d = r
    <2>1. pending'[d] = pending[d] \ {s} /\ ps'[d][u] = SlotAfterBatch(r, b, u)
      <3>1. pending'[d] = pending[d] \ {s}
        BY <1>5, ParseWaits
      <3>2. ps'[d][u] = SlotAfterBatch(r, b, u)
        BY <1>5, ParseSlots
      <3> QED
        BY <3>1, <3>2
    <2>2. SlotAfterBatch(r, b, u) = Parsed(r, Parsed(r, ps[r][u], b[u].ghost), b[u].own)
      BY DEF SlotAfterBatch, AfterGhostNote
    <2>3. /\ s \in Nbr[r] /\ j \in Nat /\ j + 1 = k[r]
          /\ IF j < l /\ c[j].owner = s
             THEN Told(r, c[j], c[j + 1], b[u]) /\ Shows(r, c[j], ps[r][u])
             ELSE Silent(b[u])
      BY ParseReads
    <2> HIDE DEF b
    <2>4. CASE j < l /\ c[j].owner = s
      <3>1. SlotOK(r, ps[r][u])
        BY DEF TypeOK
      <3>2. Shows(r, c[j + 1], SlotAfterBatch(r, b, u))
        BY <2>2, <2>3, <2>4, <3>1, TakeNotes
      <3>3. Page(k, c, l, d)' = j + 1
        BY <1>2, <1>3, <1>5, <2>1, <2>3, <2>4
      <3> QED
        BY <1>5, <2>1, <3>2, <3>3
    <2>5. CASE ~(j < l /\ c[j].owner = s)
      <3>1. Silent(b[u])
        BY <2>3, <2>5
      <3>2. Parsed(r, ps[r][u], b[u].ghost) = ps[r][u] /\ Parsed(r, ps[r][u], b[u].own) = ps[r][u]
        BY <3>1 DEF Silent, Parsed
      <3>3. ps'[d][u] = ps[d][u]
        BY <1>5, <2>1, <2>2, <3>2
      <3>4. Page(k, c, l, d)' = Page(k, c, l, d)
        BY <1>2, <1>3, <1>5, <2>1, <2>3, <2>5 DEF Page
      <3> QED
        BY <1>1, <3>3, <3>4
    <2> QED
      BY <2>4, <2>5
  <1> QED
    BY <1>4, <1>5

LEMMA ParseBuffersTell ==
  ASSUME TypeOK, NEW r \in Rank, NEW s \in Rank, s \in pending[r], chan[<<s, r>>] # <<>>,
         ParseBuffer(r, s),
         NEW k, NEW h, NEW n, Histories(k, h, n), Traced(k, h, n)
  PROVE  BuffersTell(k, h, n)'
  <1> SUFFICES ASSUME NEW t \in Rank, NEW d \in Rank, NEW i \in DOMAIN chan'[<<t, d>>],
                      NEW j \in Nat, j + 1 + Len(chan'[<<t, d>>]) = k[t] + i,
                      NEW u \in Particle
               PROVE  IF u \notin NonCommunicating /\ j < n[u] /\ h[u][j].owner = t
                      THEN Told(d, h[u][j], h[u][j + 1], chan'[<<t, d>>][i][u])
                      ELSE Silent(chan'[<<t, d>>][i][u])
    BY DEF BuffersTell
  <1>1. chan[<<t, d>>] \in Seq(Batch)
    BY DEF TypeOK
  <1>2. k[t] \in Nat
    BY DEF Histories
  <1>3. CASE ~(t = s /\ d = r)
    <2>1. chan'[<<t, d>>] = chan[<<t, d>>]
      BY <1>3, ParseChannels
    <2> QED
      BY <2>1 DEF Traced, BuffersTell
  <1>4. CASE t = s /\ d = r
    <2>1. chan'[<<t, d>>] = Tail(chan[<<t, d>>])
      BY <1>4, ParseChannels
    <2>2. /\ i + 1 \in DOMAIN chan[<<t, d>>]
          /\ chan'[<<t, d>>][i] = chan[<<t, d>>][i + 1]
          /\ Len(chan[<<t, d>>]) = Len(chan'[<<t, d>>]) + 1
          /\ i \in Nat /\ Len(chan'[<<t, d>>]) \in Nat
      BY <1>1, <1>4, <2>1
    <2>3. j + 1 + Len(chan[<<t, d>>]) = k[t] + (i + 1)
      <3> DEFINE m == Len(chan'[<<t, d>>])
      <3>1. j + 1 + m = k[t] + i /\ Len(chan[<<t, d>>]) = m + 1 /\ m \in Nat /\ i \in Nat
        BY <2>2
      <3> HIDE DEF m
      <3> QED
        BY <1>2, <3>1
    <2> QED
      BY <2>2, <2>3 DEF Traced, BuffersTell
  <1> QED
    BY <1>3, <1>4

-----------------------------------------------------------------------------
(* The invariant *)

LEMMA TraceStart ==
  ASSUME Init
  PROVE  \E k, h, n : Histories(k, h, n) /\ Traced(k, h, n) /\ \A r \in Rank : k[r] = 0
  <1>1. PICK at \in [Particle -> {p \in Pos : OwnerOf[p] # NoRank}] :
          ps = [r \in Rank |-> [u \in Particle |->
                  IF OwnerOf[at[u]] = r THEN Master(r, {}, at[u]) ELSE Absent]]
    BY DEF Init
  <1>2. /\ chan = [c \in Rank \X Rank |-> <<>>] /\ aborted = FALSE
        /\ pending = [r \in Rank |-> {}] /\ phase = [r \in Rank |-> "sync"]
    BY DEF Init
  <1>3. \A s, d \in Rank : chan[<<s, d>>] = <<>>
    BY <1>2
  <1> DEFINE first(u) == [owner |-> OwnerOf[at[u]], ghosts |-> {}, pos |-> at[u]]
             k == [r \in Rank |-> 0]
             n == [u \in Particle |-> 0]
             h == [u \in Particle |-> [j \in Nat |-> first(u)]]
  <1>4. \A u \in Particle : first(u) \in Chapter /\ first(u).owner = OwnerOf[at[u]]
                            /\ first(u).owner \in Rank /\ first(u).ghosts = {}
    <2> SUFFICES ASSUME NEW u \in Particle
                 PROVE  first(u) \in Chapter /\ first(u).owner = OwnerOf[at[u]]
                        /\ first(u).owner \in Rank /\ first(u).ghosts = {}
      OBVIOUS
    <2>1. OwnerOf[at[u]] \in Rank
      BY <1>1, GeometryAssumption
    <2>2. at[u] \in Pos
      BY <1>1
    <2> QED
      BY <2>1, <2>2 DEF Chapter
  <1>5. k \in [Rank -> Nat] /\ n \in [Particle -> Nat]
    OBVIOUS
  <1>6. h \in [Particle -> [Nat -> Chapter]]
    BY <1>4
  <1>7. /\ \A r \in Rank : k[r] = 0
        /\ \A u \in Particle : n[u] = 0 /\ \A j \in Nat : h[u][j] = first(u)
    OBVIOUS
  <1>8. \A u \in Particle, d \in Rank : Shows(d, first(u), ps[d][u])
    <2> SUFFICES ASSUME NEW u \in Particle, NEW d \in Rank
                 PROVE  Shows(d, first(u), ps[d][u])
      OBVIOUS
    <2>1. ps[d][u] = IF OwnerOf[at[u]] = d THEN Master(d, {}, at[u]) ELSE Absent
      BY <1>1
    <2> QED
      BY <1>4, <2>1 DEF Shows, Master, Absent
  <1> HIDE DEF first, k, n, h
  <1>9. Paced(k)
    <2>1. \A r \in Rank : pending[r] = {} /\ phase[r] = "sync"
      BY <1>2
    <2>2. \A d \in Rank : \A s \in Nbr[d] : k[s] = 0 /\ k[d] = 0 /\ Len(chan[<<s, d>>]) = 0
      BY <1>3, <1>7, NotOwnNbr
    <2> QED
      BY <1>3, <2>1, <2>2 DEF Paced
  <1>10. StoriesCohere(k, h, n)
    <2> SUFFICES ASSUME NEW u \in Particle PROVE Coherent(k, h[u], n[u])
      BY DEF StoriesCohere
    <2>1. n[u] = 0 /\ \A j \in Nat : j <= 0 => h[u][j].owner \in Rank /\ h[u][j].ghosts = {}
      BY <1>4, <1>7
    <2>2. k[h[u][0].owner] = 0
      BY <1>7, <2>1
    <2> QED
      BY <2>1, <2>2, RankAssumption DEF Coherent
  <1>11. BuffersTell(k, h, n)
    BY <1>3 DEF BuffersTell
  <1>12. SlotsShow(k, h, n)
    <2> SUFFICES ASSUME NEW u \in Particle, NEW d \in Rank
                 PROVE  Shows(d, h[u][Page(k, h[u], n[u], d)], ps[d][u])
      BY DEF SlotsShow
    <2>1. Page(k, h[u], n[u], d) \in Nat
      BY <1>5, PageType
    <2> QED
      BY <1>7, <1>8, <2>1
  <1>13. MastersAt(h, n)
    BY <1>2 DEF MastersAt
  <1>14. Traced(k, h, n)
    BY <1>9, <1>10, <1>11, <1>12, <1>13 DEF Traced
  <1> QED
    BY <1>5, <1>6, <1>7, <1>14 DEF Histories

LEMMA TraceInit ==
  ASSUME Init
  PROVE  RegistryInv
  <1>1. ~aborted
    BY DEF Init
  <1> QED
    BY <1>1, TraceStart, TypeInit DEF RegistryInv, Histories

LEMMA WalkMastersAt ==
  ASSUME TypeOK, SmallParticles, NEW r \in Rank, phase[r] = "sync", WalkAndSend(r),
         NEW k, NEW h, NEW n, Histories(k, h, n), Traced(k, h, n),
         NEW k2, NEW h2, NEW n2, Recorded(r, k, h, n, k2, h2, n2)
  PROVE  MastersAt(h2, n2)'
  <1> SUFFICES ASSUME NEW u \in Particle \ NonCommunicating, NEW d \in Rank,
                      phase'[d] # "sync", IsMaster(d, u)'
               PROVE  ps'[d][u].pos = h2[u][n2[u]].pos
    BY DEF MastersAt
  <1>1. /\ IsHandled(r, u) => n2[u] = n[u] + 1 /\ h2[u][n[u] + 1] = Written(r, u)
        /\ ~IsHandled(r, u) => n2[u] = n[u] /\ h2[u] = h[u]
    BY RecordedType
  <1>2. /\ ps'[d][u] = IF d = r THEN SlotAfterSync(r, u) ELSE ps[d][u]
        /\ d # r => phase'[d] = phase[d]
    BY WalkSteps
  <1>3. CASE d = r
    <2>1. ps'[d][u] = SlotAfterSync(r, u)
      BY <1>2, <1>3
    <2>2. IsHandled(r, u)
      <3> SUFFICES ASSUME ~IsHandled(r, u) PROVE FALSE
        OBVIOUS
      <3>1. ps'[d][u] = ps[r][u]
        BY <2>1, WalkKeepsSilent
      <3> QED
        BY <3>1 DEF IsMaster, IsHandled
    <2>3. ps[r][u].ghosts \subseteq Nbr[r]
      BY <2>2, WalkReads
    <2>4. SlotAfterSync(r, u).pos = Written(r, u).pos
      BY <2>1, <2>2, <2>3, WalkShows DEF IsMaster
    <2> QED
      BY <1>1, <2>1, <2>2, <2>4
  <1>4. CASE d # r
    <2>1. IsMaster(d, u) /\ phase[d] # "sync" /\ ps'[d][u] = ps[d][u]
      BY <1>2, <1>4 DEF IsMaster
    <2>2. ~IsHandled(r, u)
      <3> SUFFICES ASSUME IsHandled(r, u) PROVE FALSE
        OBVIOUS
      <3>1. h[u][n[u]].owner = r
        BY WalkReads
      <3>2. /\ k \in [Rank -> Nat] /\ h[u] \in [Nat -> Chapter] /\ n[u] \in Nat
            /\ Paced(k) /\ Coherent(k, h[u], n[u])
            /\ Shows(d, h[u][Page(k, h[u], n[u], d)], ps[d][u])
        BY DEF Histories, Traced, StoriesCohere, SlotsShow
      <3>3. h[u][n[u]].owner = d
        BY <2>1, <3>2, MasterReads DEF IsMaster
      <3> QED
        BY <1>4, <3>1, <3>3
    <2>3. ps[d][u].pos = h[u][n[u]].pos
      BY <2>1 DEF Traced, MastersAt
    <2> QED
      BY <1>1, <2>1, <2>2, <2>3
  <1> QED
    BY <1>3, <1>4

LEMMA ParseMastersAt ==
  ASSUME TypeOK, NEW r \in Rank, NEW s \in Rank, s \in pending[r], chan[<<s, r>>] # <<>>,
         ParseBuffer(r, s),
         NEW k, NEW h, NEW n, Histories(k, h, n), Traced(k, h, n)
  PROVE  MastersAt(h, n)'
  <1> SUFFICES ASSUME NEW u \in Particle \ NonCommunicating, NEW d \in Rank,
                      phase'[d] # "sync", IsMaster(d, u)'
               PROVE  ps'[d][u].pos = h[u][n[u]].pos
    BY DEF MastersAt
  <1> DEFINE c == h[u]
             l == n[u]
             b == Head(chan[<<s, r>>])
             j == k[r] - 1
  <1>1. CASE d # r
    <2>1. phase'[d] = phase[d]
      BY <1>1, ParseWaits
    <2>2. ps'[d][u] = ps[d][u]
      BY <1>1, ParseSlots
    <2> QED
      BY <2>1, <2>2 DEF Traced, MastersAt, IsMaster
  <1>2. CASE d = r
    <2>1. phase[r] # "sync"
      BY DEF Traced, Paced
    <2>2. ps'[d][u] = SlotAfterBatch(r, b, u)
      BY <1>2, ParseSlots
    <2>3. SlotAfterBatch(r, b, u) = Parsed(r, Parsed(r, ps[r][u], b[u].ghost), b[u].own)
      BY DEF SlotAfterBatch, AfterGhostNote
    <2>4. /\ s \in Nbr[r] /\ j \in Nat /\ j + 1 = k[r]
          /\ IF j < l /\ c[j].owner = s
             THEN Told(r, c[j], c[j + 1], b[u]) /\ Shows(r, c[j], ps[r][u])
             ELSE Silent(b[u])
      BY ParseReads
    <2>5. l \in Nat /\ c \in [Nat -> Chapter] /\ Coherent(k, c, l)
      BY DEF Histories, Traced, StoriesCohere
    <2> HIDE DEF b, j, c, l
    <2>6. CASE j < l /\ c[j].owner = s
      <3>1. SlotOK(r, ps[r][u])
        BY DEF TypeOK
      <3>2. /\ Shows(r, c[j + 1], SlotAfterBatch(r, b, u))
            /\ r = c[j + 1].owner => SlotAfterBatch(r, b, u).pos = c[j + 1].pos
        BY <2>3, <2>4, <2>6, <3>1, TakeNotes
      <3>3. r = c[j + 1].owner
        BY <1>2, <2>2, <3>2 DEF Shows, IsMaster
      <3>4. ~(j + 1 < l)
        <4>1. j + 1 < l => j + 1 < k[r]
          BY <2>4, <2>5, <3>3 DEF Coherent
        <4> QED
          BY <2>4, <4>1
      <3>5. j + 1 = l
        BY <2>4, <2>5, <2>6, <3>4
      <3> QED
        BY <1>2, <2>2, <3>2, <3>3, <3>5 DEF c, l
    <2>7. CASE ~(j < l /\ c[j].owner = s)
      <3>1. Silent(b[u])
        BY <2>4, <2>7
      <3>2. Parsed(r, ps[r][u], b[u].ghost) = ps[r][u] /\ Parsed(r, ps[r][u], b[u].own) = ps[r][u]
        BY <3>1 DEF Silent, Parsed
      <3>3. ps'[d][u] = ps[d][u]
        BY <1>2, <2>2, <2>3, <3>2
      <3> QED
        BY <1>2, <2>1, <3>3 DEF Traced, MastersAt, IsMaster
    <2> QED
      BY <2>6, <2>7
  <1> QED
    BY <1>1, <1>2

LEMMA TraceSync ==
  ASSUME TypeOK, SmallParticles, NEW r \in Rank, phase[r] = "sync", WalkAndSend(r),
         NEW k, NEW h, NEW n, Histories(k, h, n), Traced(k, h, n)
  PROVE  \E k2, h2, n2 : /\ Recorded(r, k, h, n, k2, h2, n2)
                         /\ Histories(k2, h2, n2) /\ Traced(k2, h2, n2)'
  <1> DEFINE K == [k EXCEPT ![r] = k[r] + 1]
             N == [u \in Particle |-> IF IsHandled(r, u) THEN n[u] + 1 ELSE n[u]]
             H == [u \in Particle |->
                     IF IsHandled(r, u) THEN [h[u] EXCEPT ![n[u] + 1] = Written(r, u)] ELSE h[u]]
  <1>1. Recorded(r, k, h, n, K, H, N)
    BY DEF Recorded
  <1>2. PICK k2, h2, n2 : Recorded(r, k, h, n, k2, h2, n2)
    BY <1>1
  <1>3. Histories(k2, h2, n2)
    BY <1>2, RecordedType
  <1>4. Paced(k2)'
    BY <1>2, WalkPaces
  <1>5. \A u \in Particle \ NonCommunicating : Coherent(k2, h2[u], n2[u])
    BY <1>2, WalkCoheres
  <1>6. BuffersTell(k2, h2, n2)'
    BY <1>2, WalkBuffersTell
  <1>7. \A u \in Particle \ NonCommunicating, d \in Rank :
          Shows(d, h2[u][Page(k2, h2[u], n2[u], d)'], ps'[d][u])
    BY <1>2, WalkShowsPages
  <1>8. MastersAt(h2, n2)'
    BY <1>2, WalkMastersAt
  <1>9. Traced(k2, h2, n2)'
    BY <1>4, <1>5, <1>6, <1>7, <1>8 DEF Traced, StoriesCohere, SlotsShow
  <1> QED
    BY <1>2, <1>3, <1>9

LEMMA TraceParse ==
  ASSUME TypeOK, NEW r \in Rank, NEW s \in Rank, s \in pending[r], chan[<<s, r>>] # <<>>,
         ParseBuffer(r, s),
         NEW k, NEW h, NEW n, Histories(k, h, n), Traced(k, h, n)
  PROVE  Traced(k, h, n)'
  <1>1. Paced(k)'
    BY ParsePaces DEF Traced, Histories
  <1>2. \A u \in Particle \ NonCommunicating : Coherent(k, h[u], n[u])
    BY DEF Traced, StoriesCohere
  <1>3. BuffersTell(k, h, n)'
    BY ParseBuffersTell
  <1>4. \A u \in Particle \ NonCommunicating, d \in Rank :
          Shows(d, h[u][Page(k, h[u], n[u], d)'], ps'[d][u])
    BY ParseShowsPages
  <1>5. MastersAt(h, n)'
    BY ParseMastersAt
  <1> QED
    BY <1>1, <1>2, <1>3, <1>4, <1>5 DEF Traced, StoriesCohere, SlotsShow

LEMMA BuffersKept ==
  ASSUME NEW k, NEW h, NEW n, BuffersTell(k, h, n), chan' = chan
  PROVE  BuffersTell(k, h, n)'
  <1> SUFFICES ASSUME NEW s \in Rank, NEW d \in Rank, NEW i \in DOMAIN chan'[<<s, d>>],
                      NEW j \in Nat, j + 1 + Len(chan'[<<s, d>>]) = k[s] + i,
                      NEW u \in Particle
               PROVE  IF u \notin NonCommunicating /\ j < n[u] /\ h[u][j].owner = s
                      THEN Told(d, h[u][j], h[u][j + 1], chan'[<<s, d>>][i][u])
                      ELSE Silent(chan'[<<s, d>>][i][u])
    BY DEF BuffersTell
  <1>1. chan'[<<s, d>>] = chan[<<s, d>>]
    OBVIOUS
  <1> QED
    BY <1>1 DEF BuffersTell

(* A slot shows the same chapter as long as a ghost is not moved. *)
LEMMA ShowsFrame ==
  ASSUME NEW d, NEW ch, NEW sl, NEW sl2, Shows(d, ch, sl),
         sl2.kind = sl.kind, sl2.owner = sl.owner, sl2.ghosts = sl.ghosts,
         sl.kind # "master" => sl2.pos = sl.pos
  PROVE  Shows(d, ch, sl2)
  BY DEF Shows

(* Moving the masters does not touch what the histories are about. *)
LEMMA TraceIntegrate ==
  ASSUME TypeOK, NEW r \in Rank, Integrate(r),
         NEW k, NEW h, NEW n, Histories(k, h, n), Traced(k, h, n)
  PROVE  Traced(k, h, n)'
  <1>1. PICK to \in [Particle -> Pos] :
          /\ \A u \in Particle : ps[r][u].kind # "master" => to[u] = ps[r][u].pos
          /\ ps' = [ps EXCEPT ![r] = [u \in Particle |-> [ps[r][u] EXCEPT !.pos = to[u]]]]
    BY DEF Integrate
  <1>2. /\ phase[r] = "integrate" /\ phase' = [phase EXCEPT ![r] = "sync"]
        /\ chan' = chan /\ pending' = pending
    BY DEF Integrate
  <1>3. \A d \in Rank, u \in Particle :
          /\ ps'[d][u].kind = ps[d][u].kind
          /\ ps'[d][u].owner = ps[d][u].owner
          /\ ps'[d][u].ghosts = ps[d][u].ghosts
          /\ d # r \/ ps[d][u].kind # "master" => ps'[d][u].pos = ps[d][u].pos
    <2> SUFFICES ASSUME NEW d \in Rank, NEW u \in Particle
                 PROVE  /\ ps'[d][u].kind = ps[d][u].kind
                        /\ ps'[d][u].owner = ps[d][u].owner
                        /\ ps'[d][u].ghosts = ps[d][u].ghosts
                        /\ d # r \/ ps[d][u].kind # "master" => ps'[d][u].pos = ps[d][u].pos
      OBVIOUS
    <2>1. ps[d][u] \in Slot
      BY DEF TypeOK, SlotOK
    <2>2. ps'[d][u] = IF d = r THEN [ps[d][u] EXCEPT !.pos = to[u]] ELSE ps[d][u]
      BY <1>1 DEF TypeOK
    <2> QED
      BY <1>1, <2>1, <2>2 DEF Slot
  <1>4. Paced(k)'
    <2>1. \A d \in Rank : phase'[d] = "parse" <=> phase[d] = "parse"
      BY <1>2 DEF TypeOK
    <2> QED
      BY <1>2, <2>1 DEF Traced, Paced
  <1>5. BuffersTell(k, h, n)'
    <2>1. BuffersTell(k, h, n) /\ chan' = chan
      BY <1>2 DEF Traced
    <2> QED
      BY <2>1, BuffersKept
  <1>6. SlotsShow(k, h, n)'
    <2> SUFFICES ASSUME NEW u \in Particle \ NonCommunicating, NEW d \in Rank
                 PROVE  Shows(d, h[u][Page(k, h[u], n[u], d)'], ps'[d][u])
      BY DEF SlotsShow
    <2>1. Page(k, h[u], n[u], d)' = Page(k, h[u], n[u], d)
      BY <1>2 DEF Page
    <2>2. Shows(d, h[u][Page(k, h[u], n[u], d)], ps[d][u])
      BY DEF Traced, SlotsShow
    <2> QED
      BY <1>3, <2>1, <2>2, ShowsFrame
  <1>7. MastersAt(h, n)'
    <2> SUFFICES ASSUME NEW u \in Particle \ NonCommunicating, NEW d \in Rank,
                        phase'[d] # "sync", IsMaster(d, u)'
                 PROVE  ps'[d][u].pos = h[u][n[u]].pos
      BY DEF MastersAt
    <2>1. d # r /\ phase[d] # "sync"
      BY <1>2 DEF TypeOK
    <2>2. ps'[d][u].pos = ps[d][u].pos /\ IsMaster(d, u)
      BY <1>3, <2>1 DEF IsMaster
    <2> QED
      BY <2>1, <2>2 DEF Traced, MastersAt
  <1> QED
    BY <1>4, <1>5, <1>6, <1>7 DEF Traced, StoriesCohere

LEMMA TraceSame ==
  ASSUME UNCHANGED vars, NEW k, NEW h, NEW n, Traced(k, h, n)
  PROVE  Traced(k, h, n)'
  <1>1. chan' = chan /\ ps' = ps /\ pending' = pending /\ phase' = phase
    BY DEF vars
  <1>2. /\ Paced(k) /\ StoriesCohere(k, h, n) /\ BuffersTell(k, h, n)
        /\ SlotsShow(k, h, n) /\ MastersAt(h, n)
    BY DEF Traced
  <1>3. BuffersTell(k, h, n)'
    BY <1>1, <1>2, BuffersKept
  <1>4. Paced(k)'
    BY <1>1, <1>2 DEF Paced
  <1>5. SlotsShow(k, h, n)'
    <2> SUFFICES ASSUME NEW u \in Particle \ NonCommunicating, NEW d \in Rank
                 PROVE  Shows(d, h[u][Page(k, h[u], n[u], d)'], ps'[d][u])
      BY DEF SlotsShow
    <2>1. Page(k, h[u], n[u], d)' = Page(k, h[u], n[u], d)
      BY <1>1 DEF Page
    <2> QED
      BY <1>1, <1>2, <2>1 DEF SlotsShow
  <1>6. MastersAt(h, n)'
    BY <1>1, <1>2 DEF MastersAt, IsMaster
  <1> QED
    BY <1>2, <1>3, <1>4, <1>5, <1>6 DEF Traced, StoriesCohere

LEMMA RegistryNext ==
  ASSUME SmallParticles, RegistryInv, [Next]_vars
  PROVE  RegistryInv'
  <1>1. TypeOK /\ TypeOK' /\ ~aborted
    BY TypeNext DEF RegistryInv
  <1>2. PICK k, h, n : Histories(k, h, n) /\ Traced(k, h, n)
    BY DEF RegistryInv, Histories
  <1> SUFFICES ~aborted' /\ \E k2, h2, n2 : Histories(k2, h2, n2) /\ Traced(k2, h2, n2)'
    BY <1>1 DEF RegistryInv, Histories
  <1>3. ASSUME NEW r \in Rank, Integrate(r)
        PROVE  ~aborted' /\ \E k2, h2, n2 : Histories(k2, h2, n2) /\ Traced(k2, h2, n2)'
    <2>1. Traced(k, h, n)'
      BY <1>1, <1>2, <1>3, TraceIntegrate
    <2>2. ~aborted'
      BY <1>3 DEF Integrate
    <2> QED
      BY <1>2, <2>1, <2>2
  <1>4. ASSUME NEW r \in Rank, Sync(r)
        PROVE  ~aborted' /\ \E k2, h2, n2 : Histories(k2, h2, n2) /\ Traced(k2, h2, n2)'
    <2>1. SyncChecks(r)
      BY <1>1, WalkPasses
    <2>2. phase[r] = "sync" /\ WalkAndSend(r)
      BY <1>4, <2>1 DEF Sync
    <2>3. \E k2, h2, n2 : Histories(k2, h2, n2) /\ Traced(k2, h2, n2)'
      BY <1>1, <1>2, <2>2, TraceSync
    <2>4. ~aborted'
      BY <1>1, <2>2 DEF WalkAndSend
    <2> QED
      BY <2>3, <2>4
  <1>5. ASSUME NEW r \in Rank, NEW s \in Rank, Parse(r, s)
        PROVE  ~aborted' /\ \E k2, h2, n2 : Histories(k2, h2, n2) /\ Traced(k2, h2, n2)'
    <2>1. s \in pending[r] /\ chan[<<s, r>>] # <<>>
      BY <1>5 DEF Parse
    <2>2. BatchChecks(r, s, Head(chan[<<s, r>>]))
      BY <1>1, <1>2, <2>1, ParsePasses
    <2>3. ParseBuffer(r, s)
      BY <1>5, <2>2 DEF Parse
    <2>4. Traced(k, h, n)'
      BY <1>1, <1>2, <2>1, <2>3, TraceParse
    <2>5. ~aborted'
      BY <1>1, <2>3 DEF ParseBuffer
    <2> QED
      BY <1>2, <2>4, <2>5
  <1>6. CASE UNCHANGED vars
    <2>1. Traced(k, h, n)'
      BY <1>2, <1>6, TraceSame
    <2> QED
      BY <1>1, <1>2, <1>6, <2>1 DEF vars
  <1> QED
    BY <1>3, <1>4, <1>5, <1>6 DEF Next

-----------------------------------------------------------------------------
(* What the invariant says of the registry *)

(* Between two synchronizations who has a ghost and who is on a list agree. *)
LEMMA RegistryAgrees ==
  ASSUME RegistryInv, Settled
  PROVE  \A u \in Particle \ NonCommunicating, d \in Rank :
           /\ ps[d][u].kind = "ghost" <=> Listing(u, d) # {}
           /\ ps[d][u].kind = "ghost" => ps[d][u].owner \in Listing(u, d)
           /\ \A r \in Rank : Tracked(r, u) /\ ps[d][u].kind = "ghost"
                => ps[d][u].pos = Image[d][ps[r][u].pos]
  <1>1. TypeOK
    BY DEF RegistryInv
  <1>2. PICK k, h, n : Histories(k, h, n) /\ Traced(k, h, n)
    BY DEF RegistryInv, Histories
  <1>3. k \in [Rank -> Nat] /\ Paced(k) /\ \A r \in Rank : pending[r] = {}
    BY <1>2 DEF Settled, Histories, Traced, Paced
  <1> SUFFICES ASSUME NEW u \in Particle \ NonCommunicating, NEW d \in Rank
               PROVE  /\ ps[d][u].kind = "ghost" <=> Listing(u, d) # {}
                      /\ ps[d][u].kind = "ghost" => ps[d][u].owner \in Listing(u, d)
                      /\ \A r \in Rank : Tracked(r, u) /\ ps[d][u].kind = "ghost"
                           => ps[d][u].pos = Image[d][ps[r][u].pos]
    OBVIOUS
  <1> DEFINE c == h[u]
             l == n[u]
             j == Page(k, c, l, d)
  <1>4. l \in Nat /\ c \in [Nat -> Chapter] /\ Coherent(k, c, l)
    BY <1>2 DEF Histories, Traced, StoriesCohere
  <1>5. \A q \in Rank : Shows(q, c[Page(k, c, l, q)], ps[q][u])
    BY <1>2 DEF Traced, SlotsShow
  <1>6. \A q \in Rank : Page(k, c, l, q) = IF l < k[q] THEN l ELSE k[q]
    BY <1>3 DEF Page
  <1> HIDE DEF c, l, j
  <1>7. ASSUME ps[d][u].kind = "ghost"
        PROVE  /\ \E r \in Rank : Tracked(r, u) /\ d \in ps[r][u].ghosts /\ ps[d][u].owner = r
               /\ ps[d][u].pos = Image[d][c[l].pos]
    <2> DEFINE r == c[j].owner
    <2>1. j \in Nat /\ j <= l
      BY <1>3, <1>4, PageType DEF j
    <2>2. /\ d # r /\ d \in c[j].ghosts /\ ps[d][u].owner = r
          /\ ps[d][u].pos = Image[d][c[j].pos]
      BY <1>5, <1>7 DEF Shows, j
    <2>3. r # NoRank /\ c[j].ghosts \subseteq Nbr[r]
      BY <1>4, <2>1, <2>2 DEF Coherent
    <2>4. r \in Rank
      BY <1>4, <2>1, <2>3 DEF Chapter
    <2>5. k[r] = k[d]
      <3>1. d \in Nbr[r]
        BY <2>2, <2>3
      <3>2. r \in Nbr[d]
        BY <2>4, <3>1, NeighborAssumption
      <3>3. k[d] <= k[r] /\ k[r] <= k[d]
        BY <1>1, <1>3, <2>4, <3>2, Apart
      <3> QED
        BY <1>3, <2>4, <3>3
    <2>6. j = l
      <3>1. j < l => j < k[r]
        BY <1>4, <2>1 DEF Coherent
      <3>2. j < l => j = k[d]
        BY <1>3, <1>4, <1>6, <2>1 DEF j
      <3> QED
        BY <1>3, <1>4, <2>1, <2>4, <2>5, <3>1, <3>2
    <2>7. k[r] <= l
      BY <1>4, <2>3, <2>6 DEF Coherent
    <2>8. Page(k, c, l, r) = l
      BY <1>3, <1>4, <1>6, <2>4, <2>5, <2>6, <2>7 DEF j
    <2>9. Shows(r, c[l], ps[r][u])
      BY <1>5, <2>4, <2>8
    <2>10. ps[r][u].kind = "master" /\ ps[r][u].ghosts = c[l].ghosts
      BY <2>6, <2>9 DEF Shows
    <2> HIDE DEF r
    <2>11. Tracked(r, u)
      BY <2>10 DEF Tracked, IsMaster
    <2> QED
      BY <2>2, <2>4, <2>6, <2>10, <2>11
  <1>8. ASSUME NEW r \in Rank, Tracked(r, u), d \in ps[r][u].ghosts
        PROVE  ps[d][u].kind = "ghost"
    <2>1. /\ k[r] = l /\ c[l].owner = r
          /\ ps[r][u].ghosts = c[l].ghosts /\ c[l].ghosts \subseteq Nbr[r]
      BY <1>1, <1>3, <1>4, <1>5, <1>8, MasterReads DEF Tracked, IsMaster
    <2>2. d \in Nbr[r] /\ d # r
      BY <1>8, <2>1, NotOwnNbr
    <2>3. k[d] = k[r]
      <3>1. r \in Nbr[d]
        BY <2>2, NeighborAssumption
      <3>2. k[d] <= k[r] /\ k[r] <= k[d]
        BY <1>1, <1>3, <3>1, Apart
      <3> QED
        BY <1>3, <3>2
    <2>4. Page(k, c, l, d) = l
      BY <1>4, <1>6, <2>1, <2>3
    <2> QED
      BY <1>5, <1>8, <2>1, <2>2, <2>4 DEF Shows
  <1>9. ASSUME NEW r \in Rank, Tracked(r, u)
        PROVE  ps[r][u].pos = c[l].pos
    <2>1. phase[r] # "sync"
      BY DEF Settled
    <2> QED
      BY <1>2, <1>9, <2>1 DEF Traced, MastersAt, Tracked, c, l
  <1> QED
    BY <1>7, <1>8, <1>9 DEF Listing

(* The invariant holds of every reachable state. *)
THEOREM Invariance ==
  ASSUME SmallParticles
  PROVE  Spec => []RegistryInv
  <1>1. Init => RegistryInv
    BY TraceInit
  <1>2. RegistryInv /\ [Next]_vars => RegistryInv'
    BY RegistryNext
  <1> QED
    BY <1>1, <1>2, PTL DEF Spec

(* When particles are smaller than the subdomains, no WALBERLA_CHECK of
   SyncNextNeighbors or ParseMessage can fail, for any number of processes and
   in whatever order the buffers of different senders are parsed: a copy comes
   only to a process without one, and an update, a removal or a migration finds
   a ghost that names its sender as the owner. *)
THEOREM ChecksHold ==
  ASSUME SmallParticles
  PROVE  Spec => []NoAbort
  <1>1. RegistryInv => NoAbort
    BY DEF RegistryInv, NoAbort
  <1> QED
    BY <1>1, Invariance, PTL

(* Under the same condition a master's ghostOwners are, between two
   synchronizations, exactly the processes with a ghost, and each of these names
   the master's process as the owner: what three processes decide in one
   handover comes out consistent on all of them. *)
THEOREM RegistryIsExact ==
  ASSUME SmallParticles
  PROVE  Spec => []RegistryExact
  <1>1. RegistryInv => RegistryExact
    BY RegistryAgrees DEF RegistryExact
  <1> QED
    BY <1>1, Invariance, PTL

(* Under the same condition every ghost is, between two synchronizations, where
   its master is, as seen from the process of the ghost: updates reach the ghosts
   that stay, copies the new ones, and a handover moves the particle with them. *)
THEOREM GhostsAreFresh ==
  ASSUME SmallParticles
  PROVE  Spec => []GhostsFresh
  <1>1. RegistryInv => GhostsFresh
    <2> SUFFICES ASSUME RegistryInv, Settled, NEW u \in Particle, NEW d \in Rank,
                        NEW r \in Rank, Tracked(r, u), ps[d][u].kind = "ghost"
                 PROVE  ps[d][u].pos = Image[d][ps[r][u].pos]
      BY DEF GhostsFresh
    <2>1. u \notin NonCommunicating
      BY DEF Tracked
    <2> QED
      BY <2>1, RegistryAgrees
  <1> QED
    BY <1>1, Invariance, PTL

-----------------------------------------------------------------------------
(* Where the copies are.  The invariant follows one particle
   through a time step: after the walk or a handover a master lies in the subdomain
   of its process and its list names every other subdomain its sphere meets; a time
   step then takes it no further than the neighbours, which are those the next walk
   looks at.  That the processes on the list hold a ghost is the theorem above. *)

(* A sphere at p meets only the subdomain of r and those of the processes g. *)
Covered(r, g, p) == OwnerOf[p] = r /\ Overlap[p] \subseteq {r} \cup g

(* Process r knows all subdomains that a sphere at p meets. *)
Approached(r, p) == OwnerOf[p] # NoRank => Overlap[p] \subseteq Nbr[r] \cup {r}

MastersPlaced ==
  \A r \in Rank, u \in Particle :
    Tracked(r, u) =>
      IF phase[r] = "sync" THEN Approached(r, MappedPos(r, u))
                           ELSE Covered(r, ps[r][u].ghosts, ps[r][u].pos)

HandoversPlaced ==
  \A s, d \in Rank : \A i \in DOMAIN chan[<<s, d>>] : \A u \in Particle :
    InTransit(s, d, i, u) =>
      /\ chan[<<s, d>>][i][u].ghost.type \in {"copy", "update"}
      /\ Covered(d, chan[<<s, d>>][i][u].own.ghosts, chan[<<s, d>>][i][u].ghost.pos)

PlacementInv == MastersPlaced /\ HandoversPlaced

-----------------------------------------------------------------------------
(* A point of a subdomain is its own image under wrapping. *)
LEMMA MappedSelf ==
  ASSUME TypeOK, SmallSteps, NEW r \in Rank, NEW u \in Particle,
         OwnerOf[ps[r][u].pos] = r
  PROVE  MappedPos(r, u) = ps[r][u].pos
  <1>1. ps[r][u].pos \in Pos /\ r # NoRank
    BY RankAssumption DEF TypeOK, Slot
  <1> QED
    BY <1>1 DEF SmallSteps, MappedPos

(* The walk leaves the masters it keeps covered. *)
LEMMA WalkPlaces ==
  ASSUME TypeOK, SmallParticles, SmallSteps, NEW r \in Rank, NEW u \in Particle,
         IsHandled(r, u), SlotAfterSync(r, u).kind = "master"
  PROVE  Covered(r, SlotAfterSync(r, u).ghosts, SlotAfterSync(r, u).pos)
  <1> DEFINE p == MappedPos(r, u)
  <1>1. p \in Pos /\ ps[r][u] \in Slot /\ r # NoRank
    BY WalkType, RankAssumption DEF TypeOK, SlotOK
  <1>2. CASE IsInside(r, u)
    <2>1. SlotAfterSync(r, u) = [ps[r][u] EXCEPT !.ghosts = {}]
      BY <1>2 DEF SlotAfterSync, FlowsOut, Migrates, Leaves
    <2>2. SlotAfterSync(r, u).pos = ps[r][u].pos
      BY <1>1, <2>1 DEF Slot
    <2>3. OwnerOf[ps[r][u].pos] = r /\ Overlap[ps[r][u].pos] \subseteq {r}
      BY <1>2 DEF SmallSteps, IsInside
    <2> QED
      BY <2>2, <2>3 DEF Covered
  <1>3. CASE FlowsOut(r, u)
    <2>1. SlotAfterSync(r, u) = Absent
      BY <1>3 DEF SlotAfterSync, FlowsOut, Migrates, Leaves
    <2> QED
      BY <2>1 DEF Absent
  <1>4. CASE Migrates(r, u)
    <2>1. SlotAfterSync(r, u) = Ghost(NewOwner(r, u), Image[r][p])
      BY <1>4 DEF SlotAfterSync, FlowsOut, Migrates, Leaves
    <2> QED
      BY <2>1 DEF Ghost
  <1>5. CASE ~IsInside(r, u) /\ ~FlowsOut(r, u) /\ ~Migrates(r, u)
    <2>1. SlotAfterSync(r, u) = [ps[r][u] EXCEPT !.pos = p, !.ghosts = GhostOwners(r, u)]
      BY <1>5 DEF SlotAfterSync
    <2>2. SlotAfterSync(r, u).pos = p /\ SlotAfterSync(r, u).ghosts = GhostOwners(r, u)
      BY <1>1, <2>1 DEF Slot
    <2>3. NewOwner(r, u) = r
      BY <1>5 DEF FlowsOut, Migrates, Leaves
    <2>4. OwnerOf[p] = r
      BY <1>1, <2>3 DEF NewOwner, FindContaining
    <2> HIDE DEF p
    <2>5. Overlap[p] \subseteq Nbr[r] \cup {r}
      BY <1>1, <2>4 DEF SmallParticles
    <2>6. Overlap[p] \cap Nbr[r] \subseteq GhostOwners(r, u)
      BY DEF GhostOwners, Near, p
    <2> QED
      BY <2>2, <2>4, <2>5, <2>6 DEF Covered
  <1> QED
    BY <1>2, <1>3, <1>4, <1>5

(* What the walk hands over is covered on its new process. *)
LEMMA WalkHandsOver ==
  ASSUME TypeOK, SmallParticles, NEW r \in Rank, NEW d \in Rank, NEW u \in Particle,
         IsHandled(r, u) => Approached(r, MappedPos(r, u)),
         BatchFor(r, d)[u].own.type = "migration"
  PROVE  LET e == BatchFor(r, d)[u]
         IN  e.ghost.type \in {"copy", "update"} /\ Covered(d, e.own.ghosts, e.ghost.pos)
  <1> DEFINE p == MappedPos(r, u)
             e == BatchFor(r, d)[u]
             g == (GhostOwners(r, u) \ {d}) \cup {r}
  <1>1. e.ghost = GhostNote(r, d, u) /\ e.own = OwnNote(r, d, u)
    BY DEF BatchFor
  <1>2. Migrates(r, u) /\ d = NewOwner(r, u)
    <2>1. OwnNote(r, d, u).type = "migration"
      BY <1>1
    <2> QED
      BY <2>1, OwnNoteCases DEF Bare
  <1>3. IsHandled(r, u) /\ ~IsInside(r, u)
    BY <1>2 DEF Migrates, Leaves
  <1>4. OwnerOf[p] = d /\ d \in Near(r, u) /\ d # NoRank
    BY <1>2, MigrationGeometry
  <1>5. e.own.ghosts = g
    <2>1. e.own = [Bare("migration") EXCEPT !.ghosts = g]
      BY <1>1, <1>2, OwnNoteCases
    <2> QED
      BY <2>1 DEF Bare
  <1>6. e.ghost.type \in {"copy", "update"} /\ e.ghost.pos = p
    BY <1>1, <1>3, <1>4 DEF GhostNote
  <1>7. Overlap[p] \subseteq Nbr[r] \cup {r}
    BY <1>3, <1>4 DEF Approached
  <1>8. Overlap[p] \cap Nbr[r] \subseteq GhostOwners(r, u)
    BY DEF GhostOwners, Near
  <1> HIDE DEF e, p
  <1>9. Covered(d, e.own.ghosts, e.ghost.pos)
    BY <1>4, <1>5, <1>6, <1>7, <1>8 DEF Covered
  <1> QED
    BY <1>6, <1>9 DEF e

-----------------------------------------------------------------------------
LEMMA PlacementInit ==
  ASSUME SmallParticles, SmallSteps, Init
  PROVE  PlacementInv
  <1>1. PICK at \in [Particle -> {p \in Pos : OwnerOf[p] # NoRank}] :
          ps = [r \in Rank |-> [u \in Particle |->
                  IF OwnerOf[at[u]] = r THEN Master(r, {}, at[u]) ELSE Absent]]
    BY DEF Init
  <1>2. TypeOK /\ phase = [r \in Rank |-> "sync"] /\ chan = [c \in Rank \X Rank |-> <<>>]
    BY TypeInit DEF Init
  <1>3. MastersPlaced
    <2> SUFFICES ASSUME NEW r \in Rank, NEW u \in Particle, Tracked(r, u)
                 PROVE  Approached(r, MappedPos(r, u))
      BY <1>2 DEF MastersPlaced
    <2>1. ps[r][u] = IF OwnerOf[at[u]] = r THEN Master(r, {}, at[u]) ELSE Absent
      BY <1>1
    <2>2. OwnerOf[at[u]] = r /\ ps[r][u].pos = at[u]
      BY <2>1 DEF Tracked, IsMaster, Master, Absent
    <2>3. MappedPos(r, u) = at[u]
      BY <1>2, <2>2, MappedSelf
    <2>4. at[u] \in Pos /\ r # NoRank
      BY <1>1, RankAssumption
    <2> QED
      BY <2>2, <2>3, <2>4 DEF Approached, SmallParticles
  <1>4. HandoversPlaced
    <2>1. \A s, d \in Rank : chan[<<s, d>>] = <<>>
      BY <1>2
    <2> QED
      BY <2>1 DEF HandoversPlaced
  <1> QED
    BY <1>3, <1>4 DEF PlacementInv

LEMMA PlacementIntegrate ==
  ASSUME TypeOK, SmallParticles, SmallSteps, PlacementInv, NEW r \in Rank, Integrate(r)
  PROVE  PlacementInv'
  <1>1. PICK to \in [Particle -> Pos] :
          /\ \A u \in Particle :
               IF ps[r][u].kind = "master" /\ u \notin Fixed
               THEN to[u] \in Reach[ps[r][u].pos]
               ELSE to[u] = ps[r][u].pos
          /\ ps' = [ps EXCEPT ![r] = [u \in Particle |-> [ps[r][u] EXCEPT !.pos = to[u]]]]
    BY DEF Integrate
  <1>2. /\ phase[r] = "integrate" /\ phase' = [phase EXCEPT ![r] = "sync"] /\ chan' = chan
    BY DEF Integrate
  <1>3. MastersPlaced'
    <2> SUFFICES ASSUME NEW d \in Rank, NEW u \in Particle, Tracked(d, u)'
                 PROVE  IF phase'[d] = "sync" THEN Approached(d, MappedPos(d, u)')
                        ELSE Covered(d, ps'[d][u].ghosts, ps'[d][u].pos)
      BY DEF MastersPlaced, Approached, Covered
    <2>1. ps'[d][u] = IF d = r THEN [ps[d][u] EXCEPT !.pos = to[u]] ELSE ps[d][u]
      BY <1>1 DEF TypeOK
    <2>2. ps[d][u] \in Slot
      BY DEF TypeOK, SlotOK
    <2>3. ps'[d][u].kind = ps[d][u].kind
      BY <2>1, <2>2 DEF Slot
    <2>4. Tracked(d, u)
      BY <2>3 DEF Tracked, IsMaster
    <2>5. CASE d # r
      <3>1. ps'[d][u] = ps[d][u] /\ phase'[d] = phase[d]
        BY <1>2, <2>1, <2>5 DEF TypeOK
      <3>2. MappedPos(d, u)' = MappedPos(d, u)
        BY <3>1 DEF MappedPos
      <3> QED
        BY <2>4, <3>1, <3>2 DEF PlacementInv, MastersPlaced
    <2>6. CASE d = r
      <3> DEFINE x == ps[r][u].pos
      <3>1. Covered(r, ps[r][u].ghosts, x)
        BY <1>2, <2>4, <2>6 DEF PlacementInv, MastersPlaced
      <3>2. x \in Pos /\ r # NoRank /\ OwnerOf[x] = r
        BY <2>2, <2>6, <3>1, RankAssumption DEF Slot, Covered
      <3>3. ps'[d][u].pos = to[u] /\ to[u] \in Pos
        BY <2>1, <2>2, <2>6 DEF Slot
      <3>4. MappedPos(d, u)' = IF u \in Fixed THEN to[u] ELSE Wrap[to[u]]
        BY <3>3 DEF MappedPos
      <3>5. phase'[d] = "sync"
        BY <1>2, <2>6 DEF TypeOK
      <3>6. CASE u \in Fixed
        <4>1. MappedPos(d, u)' = x
          BY <1>1, <3>4, <3>6
        <4> HIDE DEF x
        <4> QED
          BY <2>6, <3>2, <3>5, <4>1 DEF Approached, SmallParticles
      <3>7. CASE u \notin Fixed
        <4>1. to[u] \in Reach[x] /\ MappedPos(d, u)' = Wrap[to[u]]
          BY <1>1, <2>4, <2>6, <3>4, <3>7 DEF Tracked, IsMaster
        <4> HIDE DEF x
        <4>2. OwnerOf[Wrap[to[u]]] # NoRank
                => Overlap[Wrap[to[u]]] \subseteq Nbr[r] \cup {r}
          BY <3>2, <4>1 DEF SmallSteps
        <4> QED
          BY <2>6, <3>5, <4>1, <4>2 DEF Approached
      <3> QED
        BY <3>6, <3>7
    <2> QED
      BY <2>5, <2>6
  <1>4. HandoversPlaced'
    BY <1>2 DEF PlacementInv, HandoversPlaced, InTransit
  <1> QED
    BY <1>3, <1>4 DEF PlacementInv

LEMMA PlacementSync ==
  ASSUME TypeOK, SmallParticles, SmallSteps, PlacementInv, NEW r \in Rank,
         phase[r] = "sync", WalkAndSend(r)
  PROVE  PlacementInv'
  <1>1. /\ ps' = [ps EXCEPT ![r] = [u \in Particle |-> SlotAfterSync(r, u)]]
        /\ phase' = [phase EXCEPT ![r] = IF Opened(r) = {} THEN "integrate" ELSE "parse"]
        /\ chan' = [c \in Rank \X Rank |->
                      IF c[1] = r /\ c[2] \in Opened(r)
                      THEN Append(chan[c], BatchFor(r, c[2])) ELSE chan[c]]
    BY DEF WalkAndSend
  <1>2. /\ ps \in [Rank -> [Particle -> Slot]] /\ phase \in [Rank -> {"integrate", "sync", "parse"}]
        /\ chan \in [Rank \X Rank -> Seq(Batch)]
    BY DEF TypeOK
  <1>3. ASSUME NEW u \in Particle, IsHandled(r, u)
        PROVE  Approached(r, MappedPos(r, u))
    <2>1. Tracked(r, u)
      BY <1>3 DEF IsHandled, Tracked, IsMaster
    <2> QED
      BY <2>1 DEF PlacementInv, MastersPlaced
  <1>4. MastersPlaced'
    <2> SUFFICES ASSUME NEW d \in Rank, NEW u \in Particle, Tracked(d, u)'
                 PROVE  IF phase'[d] = "sync" THEN Approached(d, MappedPos(d, u)')
                        ELSE Covered(d, ps'[d][u].ghosts, ps'[d][u].pos)
      BY DEF MastersPlaced, Approached, Covered
    <2>1. CASE d # r
      <3>1. ps'[d][u] = ps[d][u] /\ phase'[d] = phase[d]
        BY <1>1, <1>2, <2>1
      <3>2. MappedPos(d, u)' = MappedPos(d, u) /\ Tracked(d, u)
        BY <3>1 DEF MappedPos, Tracked, IsMaster
      <3> QED
        BY <3>1, <3>2 DEF PlacementInv, MastersPlaced
    <2>2. CASE d = r
      <3>1. ps'[d][u] = SlotAfterSync(r, u) /\ phase'[d] # "sync"
        BY <1>1, <1>2, <2>2
      <3>2. IsHandled(r, u)
        <4> SUFFICES ASSUME ~IsHandled(r, u) PROVE FALSE
          OBVIOUS
        <4>1. SlotAfterSync(r, u) = ps[r][u]
          BY WalkKeepsSilent
        <4> QED
          BY <3>1, <4>1 DEF Tracked, IsMaster, IsHandled
      <3>3. SlotAfterSync(r, u).kind = "master"
        BY <3>1 DEF Tracked, IsMaster
      <3> QED
        BY <2>2, <3>1, <3>2, <3>3, WalkPlaces
    <2> QED
      BY <2>1, <2>2
  <1>5. HandoversPlaced'
    <2> SUFFICES ASSUME NEW s \in Rank, NEW d \in Rank, NEW i \in DOMAIN chan'[<<s, d>>],
                        NEW u \in Particle, chan'[<<s, d>>][i][u].own.type = "migration"
                 PROVE  /\ chan'[<<s, d>>][i][u].ghost.type \in {"copy", "update"}
                        /\ Covered(d, chan'[<<s, d>>][i][u].own.ghosts,
                                      chan'[<<s, d>>][i][u].ghost.pos)
      BY DEF HandoversPlaced, InTransit, Covered
    <2>1. chan'[<<s, d>>] = IF s = r /\ d \in Opened(r)
                            THEN Append(chan[<<s, d>>], BatchFor(r, d)) ELSE chan[<<s, d>>]
      BY <1>1
    <2>2. CASE i \in DOMAIN chan[<<s, d>>]
      <3>1. chan'[<<s, d>>][i] = chan[<<s, d>>][i]
        BY <1>2, <2>1, <2>2
      <3> QED
        BY <2>2, <3>1 DEF PlacementInv, HandoversPlaced, InTransit
    <2>3. CASE i \notin DOMAIN chan[<<s, d>>]
      <3>1. s = r /\ chan'[<<s, d>>][i] = BatchFor(r, d)
        BY <1>2, <2>1, <2>3
      <3>2. BatchFor(r, d)[u].own.type = "migration"
        BY <3>1
      <3>3. IsHandled(r, u) => Approached(r, MappedPos(r, u))
        BY <1>3
      <3> QED
        BY <3>1, <3>2, <3>3, WalkHandsOver
    <2> QED
      BY <2>2, <2>3
  <1> QED
    BY <1>4, <1>5 DEF PlacementInv

LEMMA PlacementParse ==
  ASSUME TypeOK, SmallParticles, SmallSteps, PlacementInv, NEW r \in Rank, NEW s \in Rank,
         phase[r] = "parse", chan[<<s, r>>] # <<>>,
         BatchChecks(r, s, Head(chan[<<s, r>>])), ParseBuffer(r, s)
  PROVE  PlacementInv'
  <1> DEFINE b == Head(chan[<<s, r>>])
  <1>1. MastersPlaced'
    <2> SUFFICES ASSUME NEW d \in Rank, NEW u \in Particle, Tracked(d, u)'
                 PROVE  IF phase'[d] = "sync" THEN Approached(d, MappedPos(d, u)')
                        ELSE Covered(d, ps'[d][u].ghosts, ps'[d][u].pos)
      BY DEF MastersPlaced, Approached, Covered
    <2>1. CASE d # r
      <3>1. phase'[d] = phase[d]
        BY <2>1, ParseWaits
      <3>2. ps'[d][u] = ps[d][u]
        BY <2>1, ParseSlots
      <3>3. MappedPos(d, u)' = MappedPos(d, u) /\ Tracked(d, u)
        BY <3>2 DEF MappedPos, Tracked, IsMaster
      <3> QED
        BY <3>1, <3>2, <3>3 DEF PlacementInv, MastersPlaced
    <2>2. CASE d = r
      <3> DEFINE m == AfterGhostNote(r, b, u)
      <3>1. ps'[d][u] = SlotAfterBatch(r, b, u)
        BY <2>2, ParseSlots
      <3>2. phase'[d] # "sync"
        BY <2>2, ParseWaits
      <3>3. /\ NoteOK(r, b[u].ghost) /\ NoteOK(r, b[u].own)
            /\ b[u].ghost.type \notin {"migration", "remoteMigration"}
            /\ SlotOK(r, ps[r][u])
            /\ NoteChecks(r, s, ps[r][u], b[u].ghost)
            /\ SlotOK(r, m)
            /\ NoteChecks(r, s, m, b[u].own)
        BY SlotAfterBatchOK
      <3>4. m = Parsed(r, ps[r][u], b[u].ghost) /\ SlotAfterBatch(r, b, u) = Parsed(r, m, b[u].own)
        BY DEF AfterGhostNote, SlotAfterBatch
      <3>5. Parsed(r, m, b[u].own).kind = "master" /\ u \notin NonCommunicating
        BY <2>2, <3>1, <3>4 DEF Tracked, IsMaster
      <3>6. /\ 1 \in DOMAIN chan[<<s, r>>] /\ b = chan[<<s, r>>][1]
        BY HeadInChannel
      <3> HIDE DEF m, b
      <3>7. CASE b[u].own.type = "migration"
        <4>1. /\ b[u].ghost.type \in {"copy", "update"}
              /\ Covered(r, b[u].own.ghosts, b[u].ghost.pos)
          BY <3>6, <3>7 DEF PlacementInv, HandoversPlaced, InTransit
        <4>2. b[u].ghost.pos \in Pos /\ r # NoRank
          BY <3>3, RankAssumption DEF NoteOK, Note
        <4>3. Image[r][b[u].ghost.pos] = b[u].ghost.pos
          BY <4>1, <4>2 DEF Covered, SmallParticles
        <4>4. m.pos = b[u].ghost.pos
          <5>1. CASE b[u].ghost.type = "copy"
            BY <3>4, <4>3, <5>1 DEF Parsed, Ghost
          <5>2. CASE b[u].ghost.type = "update"
            BY <3>3, <3>4, <4>3, <5>2 DEF Parsed, SlotOK, Slot
          <5> QED
            BY <4>1, <5>1, <5>2
        <4>5. Parsed(r, m, b[u].own) = Master(r, b[u].own.ghosts, m.pos)
          BY <3>7 DEF Parsed
        <4>6. ps'[d][u].ghosts = b[u].own.ghosts /\ ps'[d][u].pos = b[u].ghost.pos
          BY <3>1, <3>4, <4>4, <4>5 DEF Master, b
        <4> QED
          BY <2>2, <3>2, <4>1, <4>6
      <3>8. CASE b[u].own.type # "migration"
        <4>1. m.kind = "master" /\ b[u].own.type = "none"
          <5>1. m.kind = "master"
            BY <3>3, <3>5, <3>8, ParsedMaster
          <5> QED
            BY <3>3, <5>1 DEF NoteChecks
        <4>2. ps[r][u].kind = "master" /\ b[u].ghost.type = "none"
          <5>1. ps[r][u].kind = "master"
            BY <3>3, <3>4, <4>1, ParsedMaster
          <5> QED
            BY <3>3, <5>1 DEF NoteChecks
        <4>3. m = ps[r][u] /\ Parsed(r, m, b[u].own) = m
          BY <3>4, <4>1, <4>2 DEF Parsed
        <4>4. ps'[d][u] = ps[r][u]
          BY <3>1, <3>4, <4>3 DEF b
        <4>5. Tracked(r, u)
          BY <3>5, <4>2 DEF Tracked, IsMaster
        <4>6. Covered(r, ps[r][u].ghosts, ps[r][u].pos)
          BY <4>5 DEF PlacementInv, MastersPlaced
        <4> QED
          BY <2>2, <3>2, <4>4, <4>6
      <3> QED
        BY <3>7, <3>8
    <2> QED
      BY <2>1, <2>2
  <1>2. HandoversPlaced'
    <2> SUFFICES ASSUME NEW t \in Rank, NEW d \in Rank, NEW i \in DOMAIN chan'[<<t, d>>],
                        NEW u \in Particle, chan'[<<t, d>>][i][u].own.type = "migration"
                 PROVE  /\ chan'[<<t, d>>][i][u].ghost.type \in {"copy", "update"}
                        /\ Covered(d, chan'[<<t, d>>][i][u].own.ghosts,
                                      chan'[<<t, d>>][i][u].ghost.pos)
      BY DEF HandoversPlaced, InTransit, Covered
    <2>1. chan[<<t, d>>] \in Seq(Batch)
      BY DEF TypeOK
    <2>2. CASE ~(t = s /\ d = r)
      <3>1. chan'[<<t, d>>] = chan[<<t, d>>]
        BY <2>2, ParseChannels
      <3> QED
        BY <3>1 DEF PlacementInv, HandoversPlaced, InTransit
    <2>3. CASE t = s /\ d = r
      <3>1. chan'[<<t, d>>] = Tail(chan[<<t, d>>])
        BY <2>3, ParseChannels
      <3>2. /\ i + 1 \in DOMAIN chan[<<t, d>>]
            /\ chan'[<<t, d>>][i] = chan[<<t, d>>][i + 1]
        BY <2>1, <2>3, <3>1
      <3> QED
        BY <3>2 DEF PlacementInv, HandoversPlaced, InTransit
    <2> QED
      BY <2>2, <2>3
  <1> QED
    BY <1>1, <1>2 DEF PlacementInv

LEMMA PlacementFrame ==
  ASSUME PlacementInv, ps' = ps, chan' = chan, phase' = phase
  PROVE  PlacementInv'
  BY DEF PlacementInv, MastersPlaced, HandoversPlaced, Approached, Covered, MappedPos,
         Tracked, IsMaster, InTransit

LEMMA PlacementNext ==
  ASSUME SmallParticles, SmallSteps, TypeOK, PlacementInv, [Next]_vars
  PROVE  PlacementInv'
  <1>1. ASSUME NEW r \in Rank, Integrate(r) PROVE PlacementInv'
    BY <1>1, PlacementIntegrate
  <1>2. ASSUME NEW r \in Rank, Sync(r) PROVE PlacementInv'
    <2>1. phase[r] = "sync" /\ WalkAndSend(r)
      BY <1>2, WalkPasses DEF Sync
    <2> QED
      BY <2>1, PlacementSync
  <1>3. ASSUME NEW r \in Rank, NEW s \in Rank, Parse(r, s) PROVE PlacementInv'
    <2>1. CASE BatchChecks(r, s, Head(chan[<<s, r>>]))
      <3>1. phase[r] = "parse" /\ chan[<<s, r>>] # <<>> /\ ParseBuffer(r, s)
        BY <1>3, <2>1 DEF Parse
      <3> QED
        BY <2>1, <3>1, PlacementParse
    <2>2. CASE ~BatchChecks(r, s, Head(chan[<<s, r>>]))
      <3>1. ps' = ps /\ chan' = chan /\ phase' = phase
        BY <1>3, <2>2 DEF Parse, Abort
      <3> QED
        BY <3>1, PlacementFrame
    <2> QED
      BY <2>1, <2>2
  <1>4. CASE UNCHANGED vars
    <2>1. ps' = ps /\ chan' = chan /\ phase' = phase
      BY <1>4 DEF vars
    <2> QED
      BY <2>1, PlacementFrame
  <1> QED
    BY <1>1, <1>2, <1>3, <1>4 DEF Next

(* Every master lies in its subdomain with all others its sphere meets on its
   list, from the walk or the handover on until it is moved again. *)
THEOREM PlacementInvariant ==
  ASSUME SmallParticles, SmallSteps
  PROVE  Spec => [](TypeOK /\ PlacementInv)
  <1>1. Init => TypeOK /\ PlacementInv
    BY TypeInit, PlacementInit
  <1>2. TypeOK /\ PlacementInv /\ [Next]_vars => (TypeOK /\ PlacementInv)'
    BY TypeNext, PlacementNext
  <1> QED
    BY <1>1, <1>2, PTL DEF Spec

(* When particles are smaller than the subdomains and steps stay within the
   neighbours, every subdomain an interaction sphere meets holds the particle
   between two synchronizations, as a master or as a ghost, and the master is
   where its centre is: contact detection misses nothing. *)
THEOREM CopiesArePlaced ==
  ASSUME SmallParticles, SmallSteps
  PROVE  Spec => []CopiesPlaced
  <1>1. TypeOK /\ PlacementInv /\ RegistryExact => CopiesPlaced
    <2> SUFFICES ASSUME TypeOK, PlacementInv, RegistryExact, Settled,
                        NEW u \in Particle, NEW r \in Rank, Tracked(r, u)
                 PROVE  /\ OwnerOf[MappedPos(r, u)] = r
                        /\ \A d \in Overlap[MappedPos(r, u)] : d = r \/ ps[d][u].kind = "ghost"
      BY DEF CopiesPlaced, MasterAtHome, GhostCoverage
    <2>1. phase[r] = "integrate"
      BY DEF Settled
    <2>2. Covered(r, ps[r][u].ghosts, ps[r][u].pos)
      BY <2>1 DEF PlacementInv, MastersPlaced
    <2>3. MappedPos(r, u) = ps[r][u].pos
      BY <2>2, MappedSelf DEF Covered
    <2>4. ASSUME NEW d \in Overlap[MappedPos(r, u)], d # r PROVE ps[d][u].kind = "ghost"
      <3>1. d \in ps[r][u].ghosts
        BY <2>2, <2>3, <2>4 DEF Covered
      <3>2. d \in Rank /\ u \notin NonCommunicating
        BY <3>1 DEF TypeOK, SlotOK, Slot, Tracked
      <3> QED
        BY <3>1, <3>2 DEF RegistryExact, Listing
    <2> QED
      BY <2>2, <2>3, <2>4 DEF Covered
  <1> QED
    BY <1>1, PlacementInvariant, RegistryIsExact, PTL

-----------------------------------------------------------------------------
(* What is deleted.  A master lies in the subdomain of its process until it is
   moved, and then no further than in one next to it. *)
MastersNear ==
  \A r \in Rank, u \in Particle :
    Tracked(r, u) =>
      IF phase[r] = "sync" THEN OwnerOf[MappedPos(r, u)] \in Nbr[r] \cup {r, NoRank}
                           ELSE OwnerOf[ps[r][u].pos] = r

LEMMA NearFrame ==
  ASSUME MastersNear, ps' = ps, phase' = phase
  PROVE  MastersNear'
  BY DEF MastersNear, MappedPos, Tracked, IsMaster

(* What stays on a process that does nothing stays where it is. *)
LEMMA NearElsewhere ==
  ASSUME MastersNear, NEW d \in Rank, NEW u \in Particle, Tracked(d, u)',
         ps'[d][u] = ps[d][u], phase'[d] = phase[d]
  PROVE  IF phase'[d] = "sync" THEN OwnerOf[MappedPos(d, u)'] \in Nbr[d] \cup {d, NoRank}
                               ELSE OwnerOf[ps'[d][u].pos] = d
  <1>1. MappedPos(d, u)' = MappedPos(d, u) /\ Tracked(d, u)
    BY DEF MappedPos, Tracked, IsMaster
  <1> QED
    BY <1>1 DEF MastersNear

LEMMA NearInit ==
  ASSUME StepsToNeighbors, Init
  PROVE  MastersNear
  <1>1. PICK at \in [Particle -> {p \in Pos : OwnerOf[p] # NoRank}] :
          ps = [r \in Rank |-> [u \in Particle |->
                  IF OwnerOf[at[u]] = r THEN Master(r, {}, at[u]) ELSE Absent]]
    BY DEF Init
  <1> SUFFICES ASSUME NEW r \in Rank, NEW u \in Particle, Tracked(r, u)
               PROVE  OwnerOf[MappedPos(r, u)] = r /\ phase[r] = "sync"
    BY DEF MastersNear
  <1>2. ps[r][u] = Master(r, {}, at[u]) /\ OwnerOf[at[u]] = r
    BY <1>1 DEF Tracked, IsMaster, Absent
  <1>3. at[u] \in Pos /\ r # NoRank /\ ps[r][u].pos = at[u]
    BY <1>1, <1>2, RankAssumption DEF Master
  <1>4. MappedPos(r, u) = at[u]
    BY <1>2, <1>3 DEF StepsToNeighbors, MappedPos
  <1> QED
    BY <1>2, <1>4 DEF Init

LEMMA NearIntegrate ==
  ASSUME TypeOK, StepsToNeighbors, MastersNear, NEW r \in Rank, Integrate(r)
  PROVE  MastersNear'
  <1>1. PICK to \in [Particle -> Pos] :
          /\ \A u \in Particle :
               IF ps[r][u].kind = "master" /\ u \notin Fixed
               THEN to[u] \in Reach[ps[r][u].pos]
               ELSE to[u] = ps[r][u].pos
          /\ ps' = [ps EXCEPT ![r] = [u \in Particle |-> [ps[r][u] EXCEPT !.pos = to[u]]]]
    BY DEF Integrate
  <1>2. phase[r] = "integrate" /\ phase' = [phase EXCEPT ![r] = "sync"]
    BY DEF Integrate
  <1> SUFFICES ASSUME NEW d \in Rank, NEW u \in Particle, Tracked(d, u)'
               PROVE  IF phase'[d] = "sync"
                      THEN OwnerOf[MappedPos(d, u)'] \in Nbr[d] \cup {d, NoRank}
                      ELSE OwnerOf[ps'[d][u].pos] = d
    BY DEF MastersNear
  <1>3. ps'[d][u] = IF d = r THEN [ps[d][u] EXCEPT !.pos = to[u]] ELSE ps[d][u]
    BY <1>1 DEF TypeOK
  <1>4. CASE d # r
    <2>1. ps'[d][u] = ps[d][u] /\ phase'[d] = phase[d]
      BY <1>2, <1>3, <1>4 DEF TypeOK
    <2> QED
      BY <2>1, NearElsewhere
  <1>5. CASE d = r
    <2> DEFINE x == ps[r][u].pos
    <2>1. ps[r][u] \in Slot
      BY DEF TypeOK, SlotOK
    <2>2. /\ ps'[r][u].kind = ps[r][u].kind /\ ps'[r][u].pos = to[u] /\ to[u] \in Pos
      BY <1>3, <1>5, <2>1 DEF Slot
    <2>3. Tracked(r, u) /\ ps[r][u].kind = "master"
      BY <1>5, <2>2 DEF Tracked, IsMaster
    <2>4. x \in Pos /\ r # NoRank /\ OwnerOf[x] = r
      BY <1>2, <2>1, <2>3, RankAssumption DEF Slot, MastersNear
    <2>5. MappedPos(r, u)' = IF u \in Fixed THEN to[u] ELSE Wrap[to[u]]
      BY <2>2 DEF MappedPos
    <2>6. phase'[r] = "sync"
      BY <1>2 DEF TypeOK
    <2>7. CASE u \in Fixed
      <3>1. MappedPos(r, u)' = x
        BY <1>1, <2>5, <2>7
      <3> HIDE DEF x
      <3> QED
        BY <1>5, <2>4, <2>6, <3>1
    <2>8. CASE u \notin Fixed
      <3>1. to[u] \in Reach[x] /\ MappedPos(r, u)' = Wrap[to[u]]
        BY <1>1, <2>3, <2>5, <2>8
      <3> HIDE DEF x
      <3>2. OwnerOf[Wrap[to[u]]] \in Nbr[r] \cup {r, NoRank}
        BY <2>4, <3>1 DEF StepsToNeighbors
      <3> QED
        BY <1>5, <2>6, <3>1, <3>2
    <2> QED
      BY <2>7, <2>8
  <1> QED
    BY <1>4, <1>5

LEMMA NearSync ==
  ASSUME TypeOK, StepsToNeighbors, MastersNear, NEW r \in Rank, WalkAndSend(r),
         phase[r] = "sync"
  PROVE  MastersNear'
  <1>1. /\ ps' = [ps EXCEPT ![r] = [u \in Particle |-> SlotAfterSync(r, u)]]
        /\ phase' = [phase EXCEPT ![r] = IF Opened(r) = {} THEN "integrate" ELSE "parse"]
    BY DEF WalkAndSend
  <1>2. /\ ps \in [Rank -> [Particle -> Slot]]
        /\ phase \in [Rank -> {"integrate", "sync", "parse"}]
    BY DEF TypeOK
  <1> SUFFICES ASSUME NEW d \in Rank, NEW u \in Particle, Tracked(d, u)'
               PROVE  IF phase'[d] = "sync"
                      THEN OwnerOf[MappedPos(d, u)'] \in Nbr[d] \cup {d, NoRank}
                      ELSE OwnerOf[ps'[d][u].pos] = d
    BY DEF MastersNear
  <1>3. CASE d # r
    <2>1. ps'[d][u] = ps[d][u] /\ phase'[d] = phase[d]
      BY <1>1, <1>2, <1>3
    <2> QED
      BY <2>1, NearElsewhere
  <1>4. CASE d = r
    <2> DEFINE p == MappedPos(r, u)
    <2>1. ps'[r][u] = SlotAfterSync(r, u) /\ phase'[r] # "sync"
      BY <1>1, <1>2
    <2>2. SlotAfterSync(r, u).kind = "master" /\ u \notin NonCommunicating
      BY <1>4, <2>1 DEF Tracked, IsMaster
    <2>3. IsHandled(r, u)
      BY <2>2, WalkKeepsSilent DEF IsHandled
    <2>4. ps[r][u] \in Slot /\ r # NoRank
      BY <1>2, RankAssumption
    <2>5. CASE IsInside(r, u)
      <3>1. SlotAfterSync(r, u) = [ps[r][u] EXCEPT !.ghosts = {}]
        BY <2>3, <2>5 DEF SlotAfterSync, FlowsOut, Migrates, Leaves
      <3>2. SlotAfterSync(r, u).pos = ps[r][u].pos
        BY <2>4, <3>1 DEF Slot
      <3>3. OwnerOf[ps[r][u].pos] = r
        BY <2>5 DEF IsInside, StepsToNeighbors
      <3> QED
        BY <1>4, <2>1, <3>2, <3>3
    <2>6. CASE ~IsInside(r, u)
      <3>1. ~FlowsOut(r, u)
        <4>1. FlowsOut(r, u) => SlotAfterSync(r, u) = Absent
          BY DEF SlotAfterSync, FlowsOut, Migrates, Leaves
        <4> QED
          BY <2>2, <4>1 DEF Absent
      <3>2. ~Migrates(r, u)
        <4>1. Migrates(r, u) => SlotAfterSync(r, u) = Ghost(NewOwner(r, u), Image[r][p])
          BY DEF SlotAfterSync, FlowsOut, Migrates, Leaves
        <4> QED
          BY <2>2, <4>1 DEF Ghost
      <3>3. NewOwner(r, u) = r
        BY <2>3, <2>6, <3>1, <3>2 DEF FlowsOut, Migrates, Leaves
      <3>4. SlotAfterSync(r, u) = [ps[r][u] EXCEPT !.pos = p, !.ghosts = GhostOwners(r, u)]
        BY <2>3, <2>6, <3>1, <3>2 DEF SlotAfterSync
      <3>5. SlotAfterSync(r, u).pos = p
        BY <2>4, <3>4 DEF Slot
      <3>6. OwnerOf[p] = r
        BY <2>4, <3>3 DEF NewOwner, FindContaining
      <3> QED
        BY <1>4, <2>1, <3>5, <3>6
    <2> QED
      BY <2>5, <2>6
  <1> QED
    BY <1>3, <1>4

(* A hand-over is accepted only where the particle lies. *)
LEMMA NearParse ==
  ASSUME TypeOK, StepsToNeighbors, MastersNear, NEW r \in Rank, NEW s \in Rank,
         phase[r] = "parse", chan[<<s, r>>] # <<>>,
         BatchChecks(r, s, Head(chan[<<s, r>>])), ParseBuffer(r, s)
  PROVE  MastersNear'
  <1> DEFINE b == Head(chan[<<s, r>>])
  <1> SUFFICES ASSUME NEW d \in Rank, NEW u \in Particle, Tracked(d, u)'
               PROVE  IF phase'[d] = "sync"
                      THEN OwnerOf[MappedPos(d, u)'] \in Nbr[d] \cup {d, NoRank}
                      ELSE OwnerOf[ps'[d][u].pos] = d
    BY DEF MastersNear
  <1>1. CASE d # r
    <2>1. ps'[d][u] = ps[d][u]
      BY <1>1, ParseSlots
    <2>2. phase'[d] = phase[d]
      BY <1>1, ParseWaits
    <2> QED
      BY <2>1, <2>2, NearElsewhere
  <1>2. CASE d = r
    <2> DEFINE m == AfterGhostNote(r, b, u)
    <2>1. ps'[r][u] = SlotAfterBatch(r, b, u) /\ phase'[r] # "sync"
      <3>1. ps'[r][u] = SlotAfterBatch(r, b, u)
        BY ParseSlots
      <3>2. phase'[r] # "sync"
        BY ParseWaits
      <3> QED
        BY <3>1, <3>2
    <2>2. /\ NoteOK(r, b[u].ghost) /\ NoteOK(r, b[u].own)
          /\ b[u].ghost.type \notin {"migration", "remoteMigration"}
          /\ SlotOK(r, ps[r][u]) /\ NoteChecks(r, s, ps[r][u], b[u].ghost)
          /\ SlotOK(r, m) /\ NoteChecks(r, s, m, b[u].own)
      BY SlotAfterBatchOK
    <2>3. m = Parsed(r, ps[r][u], b[u].ghost) /\ SlotAfterBatch(r, b, u) = Parsed(r, m, b[u].own)
      BY DEF AfterGhostNote, SlotAfterBatch
    <2>4. Parsed(r, m, b[u].own).kind = "master" /\ u \notin NonCommunicating
      BY <1>2, <2>1, <2>3 DEF Tracked, IsMaster
    <2> HIDE DEF m, b
    <2>5. CASE b[u].own.type = "migration"
      <3>1. OwnerOf[m.pos] = r
        BY <2>2, <2>5 DEF NoteChecks
      <3>2. Parsed(r, m, b[u].own).pos = m.pos
        BY <2>5 DEF Parsed, Master
      <3> QED
        BY <1>2, <2>1, <2>3, <3>1, <3>2
    <2>6. CASE b[u].own.type # "migration"
      <3>1. m.kind = "master"
        BY <2>2, <2>4, <2>6, ParsedMaster
      <3>2. ps[r][u].kind = "master"
        BY <2>2, <2>3, <3>1, ParsedMaster
      <3>3. b[u].own.type = "none" /\ b[u].ghost.type = "none"
        BY <2>2, <3>1, <3>2 DEF NoteChecks
      <3>4. ps'[r][u] = ps[r][u]
        BY <2>1, <2>3, <3>3 DEF Parsed
      <3>5. Tracked(r, u)
        BY <2>4, <3>2 DEF Tracked, IsMaster
      <3>6. OwnerOf[ps[r][u].pos] = r
        BY <3>5 DEF MastersNear
      <3> QED
        BY <1>2, <2>1, <3>4, <3>6
    <2> QED
      BY <2>5, <2>6
  <1> QED
    BY <1>1, <1>2

LEMMA NearNext ==
  ASSUME TypeOK, StepsToNeighbors, MastersNear, [Next]_vars
  PROVE  MastersNear'
  <1>1. ASSUME NEW r \in Rank, Integrate(r) PROVE MastersNear'
    BY <1>1, NearIntegrate
  <1>2. ASSUME NEW r \in Rank, Sync(r) PROVE MastersNear'
    <2>1. CASE SyncChecks(r)
      BY <1>2, <2>1, NearSync DEF Sync
    <2>2. CASE ~SyncChecks(r)
      BY <1>2, <2>2, NearFrame DEF Sync, Abort
    <2> QED
      BY <2>1, <2>2
  <1>3. ASSUME NEW r \in Rank, NEW s \in Rank, Parse(r, s) PROVE MastersNear'
    <2>1. CASE BatchChecks(r, s, Head(chan[<<s, r>>]))
      BY <1>3, <2>1, NearParse DEF Parse
    <2>2. CASE ~BatchChecks(r, s, Head(chan[<<s, r>>]))
      BY <1>3, <2>2, NearFrame DEF Parse, Abort
    <2> QED
      BY <2>1, <2>2
  <1>4. CASE UNCHANGED vars
    BY <1>4, NearFrame DEF vars
  <1> QED
    BY <1>1, <1>2, <1>3, <1>4 DEF Next

(* When a time step takes no particle beyond the neighbours, the outflow branch
   deletes only particles that are outside of the whole domain: a process that
   finds a particle neither in its subdomain nor in its neighbours' has not merely
   lost sight of it.  Nothing is asked of the size of particles. *)
THEOREM OnlyOutsideIsDeleted ==
  ASSUME StepsToNeighbors
  PROVE  Spec => OutflowIsOutside
  <1>1. TypeOK /\ MastersNear /\ [Next]_vars
          => [\A u \in gone' \ gone : \E r \in Rank :
                IsMaster(r, u) /\ OwnerOf[MappedPos(r, u)] = NoRank]_vars
    <2> SUFFICES ASSUME TypeOK, MastersNear, [Next]_vars, NEW u \in gone' \ gone
                 PROVE  \E r \in Rank : IsMaster(r, u) /\ OwnerOf[MappedPos(r, u)] = NoRank
      OBVIOUS
    <2>1. PICK r \in Rank : phase[r] = "sync" /\ WalkAndSend(r)
      <3>1. ASSUME NEW r \in Rank, Integrate(r) PROVE FALSE
        BY <3>1 DEF Integrate
      <3>2. ASSUME NEW r \in Rank, NEW s \in Rank, Parse(r, s) PROVE FALSE
        <4>1. gone' = gone
          BY <3>2 DEF Parse, ParseBuffer, Abort
        <4> QED
          BY <4>1
      <3>3. ~ UNCHANGED vars
        BY DEF vars
      <3>4. Next
        BY <3>3
      <3>5. PICK r \in Rank : Sync(r)
        BY <3>1, <3>2, <3>4 DEF Next
      <3>6. SyncChecks(r)
        BY <3>5 DEF Sync, Abort
      <3> QED
        BY <3>5, <3>6 DEF Sync
    <2>2. u \in Particle /\ FlowsOut(r, u)
      BY <2>1 DEF WalkAndSend
    <2>3. IsMaster(r, u) /\ Tracked(r, u) /\ NewOwner(r, u) = NoRank
      BY <2>2 DEF FlowsOut, Leaves, IsHandled, Tracked, IsMaster
    <2> DEFINE p == MappedPos(r, u)
    <2>4. OwnerOf[p] \in Nbr[r] \cup {r, NoRank}
      BY <2>1, <2>2, <2>3 DEF MastersNear
    <2>5. NewOwner(r, u) = IF OwnerOf[p] \in Nbr[r] \cup {r} THEN OwnerOf[p] ELSE NoRank
      BY DEF NewOwner, FindContaining
    <2> HIDE DEF p
    <2>6. OwnerOf[p] = NoRank
      BY <2>3, <2>4, <2>5
    <2> QED
      BY <2>3, <2>6 DEF p
  <1>2. Init => MastersNear
    BY NearInit
  <1>3. TypeOK /\ MastersNear /\ [Next]_vars => MastersNear'
    BY NearNext
  <1> QED
    BY <1>1, <1>2, <1>3, TypeInvariant, PTL DEF Spec, OutflowIsOutside

=============================================================================
