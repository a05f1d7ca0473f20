-------------------------- MODULE GhostOwnerProofs --------------------------
(* Theorems about GhostOwnerSync: with ghosts several processes away from
   their master, no interleaving of the two exchanges duplicates or loses the
   ownership of a particle, no check fails, and what copies and their master
   note of each other is true between two calls.  Ownership needs no geometry: it
   is kept wherever the subdomains lie and however far the particles jump.  The
   registry, the second part of the module, asks for ImagesAgree and StepsSeen. *)
EXTENDS GhostOwnerSync, TLAPS

-----------------------------------------------------------------------------
(* What is stored and sent has this shape, whatever is checked on receipt.  It
   is SlotOK without what depends on who is told of whom: a list of ghosts is
   of use on a master only. *)
StoredOK(r, sl) ==
  /\ sl \in Slot
  /\ sl.kind = "none" => sl = Absent
  /\ sl.kind = "ghost" => sl.owner \in Rank \ {r}
  /\ sl.kind = "master" => sl.owner = r /\ r \notin sl.ghosts
  /\ sl.told \subseteq Nbr[r]

(* A fate follows an update, and fits the process d that reads it. *)
MigrationSentOK(d, n) ==
  /\ n \in MigrationNote
  /\ n.fate.type # "none" => n.update
  /\ n.fate.type = "migration" => d \notin n.fate.ghosts
  /\ n.fate.type = "remoteMigration" => n.fate.owner \in Rank

ResolutionSentOK(d, n) ==
  /\ n \in ResolutionNote
  /\ n.copy => n.owner \in Rank \ {d}
  /\ d \notin n.fresh

MigratingOK ==
  /\ migrating \in [Channels -> Seq([Particle -> MigrationNote])]
  /\ \A s, d \in Rank : \A i \in DOMAIN migrating[<<s, d>>], u \in Particle :
       MigrationSentOK(d, migrating[<<s, d>>][i][u])

ResolvingOK ==
  /\ resolving \in [Channels -> Seq([Particle -> ResolutionNote])]
  /\ \A s, d \in Rank : \A i \in DOMAIN resolving[<<s, d>>], u \in Particle :
       ResolutionSentOK(d, resolving[<<s, d>>][i][u])

StoreOK ==
  /\ ps \in [Rank -> [Particle -> Slot]]
  /\ \A r \in Rank, u \in Particle : StoredOK(r, ps[r][u])

ControlOK ==
  /\ pending \in [Rank -> SUBSET Rank]
  /\ phase \in [Rank -> {"integrate", "migrate", "update", "resolve", "parse"}]
  /\ resting \in BOOLEAN
  /\ aborted \in BOOLEAN

Shape == StoreOK /\ MigratingOK /\ ResolvingOK /\ ControlOK

-----------------------------------------------------------------------------
(* What the two walks store and send *)

LEMMA NowhereType == Nowhere \in Pos
  BY GeometryAssumption DEF Nowhere

LEMMA AbsentOK == \A r \in Rank : StoredOK(r, Absent)
  BY NowhereType DEF Absent, StoredOK, Slot

(* Replacing the row of a process keeps the storage well-formed. *)
LEMMA RowStored ==
  ASSUME StoreOK, NEW r \in Rank, NEW row,
         DOMAIN row = Particle, row = [u \in Particle |-> row[u]],
         \A u \in Particle : StoredOK(r, row[u]),
         ps' = [ps EXCEPT ![r] = row]
  PROVE  StoreOK'
  <1>1. row \in [Particle -> Slot]
    <2>1. \A u \in Particle : row[u] \in Slot
      BY DEF StoredOK
    <2> QED
      BY <2>1
  <1>2. ps' \in [Rank -> [Particle -> Slot]]
    BY <1>1 DEF StoreOK
  <1>3. \A q \in Rank, u \in Particle :
          ps'[q][u] = IF q = r THEN row[u] ELSE ps[q][u]
    BY DEF StoreOK
  <1>4. \A q \in Rank, u \in Particle : StoredOK(q, ps'[q][u])
    BY <1>3 DEF StoreOK
  <1> QED
    BY <1>2, <1>4 DEF StoreOK

LEMMA WalkType ==
  ASSUME StoreOK, NEW r \in Rank, NEW u \in Particle
  PROVE  /\ ps[r][u] \in Slot /\ StoredOK(r, ps[r][u])
         /\ MappedPos(r, u) \in Pos
         /\ NewOwner(r, u) \in Nbr[r] \cup {r, NoRank}
         /\ Nbr[r] \subseteq Rank \ {r}
         /\ \A q \in Rank, p \in Pos : Image[q][p] \in Pos
  <1>1. ps[r][u] \in Slot /\ StoredOK(r, ps[r][u])
    BY DEF StoreOK
  <1>2. MappedPos(r, u) \in Pos
    BY <1>1, GeometryAssumption DEF MappedPos, Slot
  <1>3. NewOwner(r, u) \in Nbr[r] \cup {r, NoRank}
    BY DEF NewOwner, FindContaining
  <1>4. Nbr[r] \subseteq Rank \ {r}
    BY GeometryAssumption, NeighborAssumption
  <1>5. \A q \in Rank, p \in Pos : Image[q][p] \in Pos
    BY GeometryAssumption
  <1> QED
    BY <1>1, <1>2, <1>3, <1>4, <1>5

LEMMA SlotAfterMigrationOK ==
  ASSUME StoreOK, NEW r \in Rank, NEW u \in Particle
  PROVE  StoredOK(r, SlotAfterMigration(r, u))
  <1> DEFINE p == MappedPos(r, u)
  <1>1. /\ ps[r][u] \in Slot /\ StoredOK(r, ps[r][u]) /\ p \in Pos
        /\ NewOwner(r, u) \in Rank \cup {NoRank}
        /\ Image[r][p] \in Pos
    <2>1. p \in Pos /\ NewOwner(r, u) \in Nbr[r] \cup {r, NoRank} /\ Nbr[r] \subseteq Rank
      BY WalkType
    <2> HIDE DEF p
    <2> QED
      BY <2>1, WalkType
  <1>2. CASE FlowsOut(r, u)
    <2>1. SlotAfterMigration(r, u) = Absent
      BY <1>2 DEF SlotAfterMigration, FlowsOut, Migrates
    <2> QED
      BY <2>1, AbsentOK
  <1>3. CASE Migrates(r, u)
    <2>1. ~FlowsOut(r, u) /\ NewOwner(r, u) \in Rank \ {r}
      BY <1>1, <1>3 DEF FlowsOut, Migrates
    <2>2. SlotAfterMigration(r, u) =
            [ps[r][u] EXCEPT !.kind = "ghost", !.owner = NewOwner(r, u),
                             !.ghosts = {}, !.pos = Image[r][p]]
      BY <1>3, <2>1 DEF SlotAfterMigration
    <2> HIDE DEF p
    <2> QED
      BY <1>1, <2>1, <2>2 DEF StoredOK, Slot
  <1>4. CASE ~FlowsOut(r, u) /\ ~Migrates(r, u)
    <2>1. SlotAfterMigration(r, u) =
            [ps[r][u] EXCEPT !.pos = IF IsHandled(r, u) THEN p ELSE @]
      BY <1>4 DEF SlotAfterMigration
    <2> HIDE DEF p
    <2>2. CASE IsHandled(r, u)
      BY <1>1, <2>1, <2>2 DEF StoredOK, Slot, IsHandled, IsMaster
    <2>3. CASE ~IsHandled(r, u)
      <3>1. SlotAfterMigration(r, u) = ps[r][u]
        BY <1>1, <2>1, <2>3 DEF Slot
      <3> QED
        BY <1>1, <3>1
    <2> QED
      BY <2>2, <2>3
  <1> QED
    BY <1>2, <1>3, <1>4

LEMMA FateForOK ==
  ASSUME StoreOK, NEW r \in Rank, NEW d \in Rank, NEW u \in Particle
  PROVE  /\ FateFor(r, d, u) \in Fate
         /\ FateFor(r, d, u).type = "migration" <=> Migrates(r, u) /\ d = NewOwner(r, u)
         /\ FateFor(r, d, u).type = "migration" => d \notin FateFor(r, d, u).ghosts
         /\ FateFor(r, d, u).type = "remoteMigration" => FateFor(r, d, u).owner \in Rank
  <1> DEFINE o == NewOwner(r, u)
  <1>1. /\ ps[r][u] \in Slot
        /\ o \in Rank \cup {NoRank}
    BY WalkType
  <1>2. FlowsOut(r, u) => ~Migrates(r, u)
    BY DEF FlowsOut, Migrates
  <1>3. NoFate \in Fate /\ NoFate.type = "none"
    BY DEF NoFate, Fate
  <1>4. CASE FlowsOut(r, u)
    BY <1>2, <1>4 DEF FateFor, NoFate, Fate
  <1>5. CASE Migrates(r, u) /\ d = o
    <2>1. FateFor(r, d, u) = [NoFate EXCEPT !.type = "migration",
                                            !.ghosts = (ps[r][u].ghosts \ {o}) \cup {r}]
      BY <1>2, <1>5 DEF FateFor
    <2>2. r # o /\ ps[r][u].ghosts \subseteq Rank
      BY <1>1, <1>5 DEF Migrates, Slot
    <2> DEFINE g == (ps[r][u].ghosts \ {o}) \cup {r}
               f == FateFor(r, d, u)
    <2>3. g \subseteq Rank /\ d \notin g
      BY <1>5, <2>2
    <2> HIDE DEF g, f
    <2>4. f = [NoFate EXCEPT !.type = "migration", !.ghosts = g]
      BY <2>1 DEF g, f
    <2>5. f = [type |-> "migration", owner |-> NoRank, ghosts |-> g]
      BY <2>4 DEF NoFate
    <2>6. f \in Fate /\ f.type = "migration" /\ f.ghosts = g
      BY <2>3, <2>5 DEF Fate
    <2> QED
      BY <1>5, <2>3, <2>6 DEF f
  <1>6. CASE Migrates(r, u) /\ d # o
    <2>1. FateFor(r, d, u) = [NoFate EXCEPT !.type = "remoteMigration", !.owner = o]
      BY <1>2, <1>6 DEF FateFor
    <2>2. o \in Rank
      BY <1>1, <1>6 DEF Migrates
    <2> QED
      BY <1>6, <2>1, <2>2 DEF NoFate, Fate
  <1>7. CASE ~FlowsOut(r, u) /\ ~Migrates(r, u)
    <2>1. FateFor(r, d, u) = NoFate
      BY <1>7 DEF FateFor
    <2> QED
      BY <1>3, <1>7, <2>1
  <1> QED
    BY <1>4, <1>5, <1>6, <1>7

LEMMA MigrationNoteForOK ==
  ASSUME StoreOK, NEW r \in Rank, NEW d \in Rank, NEW u \in Particle
  PROVE  MigrationSentOK(d, MigrationNoteFor(r, d, u))
  <1>1. CASE IsHandled(r, u) /\ d \in ps[r][u].ghosts
    <2>1. MigrationNoteFor(r, d, u) =
            [update |-> TRUE, pos |-> MappedPos(r, u), fate |-> FateFor(r, d, u)]
      BY <1>1 DEF MigrationNoteFor
    <2>2. MappedPos(r, u) \in Pos
      BY WalkType
    <2> QED
      BY <2>1, <2>2, FateForOK DEF MigrationSentOK, MigrationNote
  <1>2. CASE ~(IsHandled(r, u) /\ d \in ps[r][u].ghosts)
    <2>1. MigrationNoteFor(r, d, u) = Silence
      BY <1>2 DEF MigrationNoteFor
    <2> QED
      BY <2>1, NowhereType DEF MigrationSentOK, MigrationNote, Silence, NoFate, Fate
  <1> QED
    BY <1>1, <1>2

LEMMA NewNeighborsType ==
  ASSUME StoreOK, NEW r \in Rank, NEW u \in Particle
  PROVE  /\ NewNeighbors(r, u) \subseteq Nbr[r]
         /\ ps[r][u].owner \notin NewNeighbors(r, u)
         /\ NewNeighbors(r, u) # {} => ps[r][u].owner \in Rank
  <1>1. StoredOK(r, ps[r][u])
    BY DEF StoreOK
  <1>2. Resolves(r, u) => ps[r][u].owner \in Rank
    BY <1>1 DEF StoredOK, Resolves, Holds, Slot
  <1> QED
    BY <1>2 DEF NewNeighbors

LEMMA SlotAfterResolutionOK ==
  ASSUME StoreOK, NEW r \in Rank, NEW u \in Particle
  PROVE  StoredOK(r, SlotAfterResolution(r, u))
  <1>1. /\ ps[r][u] \in Slot /\ StoredOK(r, ps[r][u])
        /\ NewNeighbors(r, u) \subseteq Nbr[r] /\ Nbr[r] \subseteq Rank
    BY WalkType, NewNeighborsType
  <1>2. CASE Retires(r, u)
    BY <1>2, AbsentOK DEF SlotAfterResolution
  <1>3. CASE ~Retires(r, u)
    <2>1. SlotAfterResolution(r, u) = [ps[r][u] EXCEPT !.told = @ \cup NewNeighbors(r, u)]
      BY <1>3 DEF SlotAfterResolution
    <2>2. ps[r][u].kind = "none" => NewNeighbors(r, u) = {}
      BY DEF NewNeighbors, Resolves, Holds
    <2> QED
      BY <1>1, <2>1, <2>2 DEF StoredOK, Slot, Absent
  <1> QED
    BY <1>2, <1>3

LEMMA ResolutionNoteForOK ==
  ASSUME StoreOK, NEW r \in Rank, NEW d \in Rank, NEW u \in Particle
  PROVE  ResolutionSentOK(d, ResolutionNoteFor(r, d, u))
  <1> DEFINE sl    == ps[r][u]
             copy  == d \in NewNeighbors(r, u)
             fresh == IF Resolves(r, u) /\ d = sl.owner THEN NewNeighbors(r, u) ELSE {}
             gone  == Retires(r, u) /\ d \in Nbr[r] \cup {sl.owner}
  <1>1. /\ sl \in Slot
        /\ NewNeighbors(r, u) \subseteq Rank /\ sl.owner \notin NewNeighbors(r, u)
        /\ NewNeighbors(r, u) # {} => sl.owner \in Rank
    BY WalkType, NewNeighborsType
  <1>2. CASE copy \/ fresh # {} \/ gone
    <2>1. ResolutionNoteFor(r, d, u) =
            [copy |-> copy, owner |-> sl.owner, pos |-> sl.pos, fresh |-> fresh, gone |-> gone]
      BY <1>2 DEF ResolutionNoteFor
    <2>2. copy \in BOOLEAN /\ gone \in BOOLEAN
      OBVIOUS
    <2>3. fresh \subseteq Rank /\ d \notin fresh
      BY <1>1
    <2>4. copy => sl.owner \in Rank \ {d}
      BY <1>1
    <2>5. sl.owner \in Rank \cup {NoRank} /\ sl.pos \in Pos
      BY <1>1 DEF Slot
    <2> HIDE DEF sl, copy, fresh, gone
    <2> QED
      BY <2>1, <2>2, <2>3, <2>4, <2>5 DEF ResolutionSentOK, ResolutionNote
  <1>3. CASE ~(copy \/ fresh # {} \/ gone)
    <2>1. ResolutionNoteFor(r, d, u) = Nothing
      BY <1>3 DEF ResolutionNoteFor
    <2> QED
      BY <2>1, NowhereType DEF ResolutionSentOK, ResolutionNote, Nothing
  <1> QED
    BY <1>2, <1>3

-----------------------------------------------------------------------------
(* What parsing stores *)

LEMMA SlotAfterMigrationNoteOK ==
  ASSUME NEW r \in Rank, NEW s \in Rank, NEW sl, StoredOK(r, sl),
         NEW n, MigrationSentOK(r, n), MigrationNoteChecks(r, s, sl, n)
  PROVE  StoredOK(r, SlotAfterMigrationNote(r, sl, n))
  <1> DEFINE up == IF n.update THEN Updated(r, sl, n) ELSE sl
  <1>1. n \in MigrationNote /\ sl \in Slot
    BY DEF MigrationSentOK, StoredOK
  <1>2. up \in Slot /\ StoredOK(r, up) /\ up.kind = sl.kind /\ up.owner = sl.owner
    <2>1. CASE n.update
      <3>1. up = [sl EXCEPT !.pos = Image[r][n.pos]]
        BY <2>1 DEF Updated
      <3>2. Image[r][n.pos] \in Pos
        BY <1>1, GeometryAssumption DEF MigrationNote
      <3>3. sl.kind = "ghost"
        BY <2>1 DEF MigrationNoteChecks
      <3> HIDE DEF up
      <3> QED
        BY <1>1, <3>1, <3>2, <3>3 DEF StoredOK, Slot
    <2>2. CASE ~n.update
      BY <1>1, <2>2
    <2> QED
      BY <2>1, <2>2
  <1>3. SlotAfterMigrationNote(r, sl, n) =
          CASE n.fate.type = "removal"         -> Absent
            [] n.fate.type = "migration"       -> [up EXCEPT !.kind = "master", !.owner = r,
                                                             !.ghosts = n.fate.ghosts]
            [] n.fate.type = "remoteMigration" -> [up EXCEPT !.owner = n.fate.owner]
            [] OTHER                           -> up
    BY DEF SlotAfterMigrationNote
  <1>4. n.fate \in Fate
    BY <1>1 DEF MigrationNote
  <1>5. CASE n.fate.type = "removal"
    <2>1. SlotAfterMigrationNote(r, sl, n) = Absent
      BY <1>3, <1>5
    <2> QED
      BY <2>1, AbsentOK
  <1>6. CASE n.fate.type = "migration"
    <2>1. SlotAfterMigrationNote(r, sl, n) =
            [up EXCEPT !.kind = "master", !.owner = r, !.ghosts = n.fate.ghosts]
      BY <1>3, <1>6
    <2>2. r \notin n.fate.ghosts /\ n.fate.ghosts \subseteq Rank
      BY <1>4, <1>6 DEF MigrationSentOK, Fate
    <2> HIDE DEF up
    <2> QED
      BY <1>2, <2>1, <2>2 DEF StoredOK, Slot
  <1>7. CASE n.fate.type = "remoteMigration"
    <2>1. SlotAfterMigrationNote(r, sl, n) = [up EXCEPT !.owner = n.fate.owner]
      BY <1>3, <1>7
    <2>2. n.fate.owner \in Rank \ {r} /\ up.kind = "ghost"
      <3>1. n.update
        BY <1>7 DEF MigrationSentOK
      <3> QED
        BY <1>2, <1>7, <3>1 DEF MigrationSentOK, MigrationNoteChecks, FateChecks
    <2> HIDE DEF up
    <2> QED
      BY <1>2, <2>1, <2>2 DEF StoredOK, Slot
  <1>8. CASE n.fate.type = "none"
    <2>1. SlotAfterMigrationNote(r, sl, n) = up
      BY <1>3, <1>8
    <2> QED
      BY <1>2, <2>1
  <1> QED
    BY <1>4, <1>5, <1>6, <1>7, <1>8 DEF Fate

(* Only a migration makes a master; a ghost stays one otherwise, or is gone. *)
LEMMA KindAfterMigrationNote ==
  ASSUME NEW r \in Rank, NEW s \in Rank, NEW sl, StoredOK(r, sl),
         NEW n, MigrationSentOK(r, n), MigrationNoteChecks(r, s, sl, n)
  PROVE  SlotAfterMigrationNote(r, sl, n).kind = "master" <=>
           sl.kind = "master" \/ n.fate.type = "migration"
  <1> DEFINE up == IF n.update THEN Updated(r, sl, n) ELSE sl
  <1>1. n \in MigrationNote /\ sl \in Slot /\ n.fate \in Fate
    BY DEF MigrationSentOK, StoredOK, MigrationNote
  <1>2. up \in [kind : {"none", "master", "ghost"}, owner : Rank \cup {NoRank},
                ghosts : SUBSET Rank, told : SUBSET Rank, pos : Pos]
        /\ up.kind = sl.kind
    <2>1. CASE n.update
      <3>1. Image[r][n.pos] \in Pos
        BY <1>1, GeometryAssumption DEF MigrationNote
      <3> QED
        BY <1>1, <2>1, <3>1 DEF Updated, Slot
    <2>2. CASE ~n.update
      BY <1>1, <2>2 DEF Slot
    <2> QED
      BY <2>1, <2>2
  <1>3. n.fate.type # "none" => sl.kind = "ghost"
    BY DEF MigrationSentOK, MigrationNoteChecks
  <1>4. SlotAfterMigrationNote(r, sl, n).kind =
          CASE n.fate.type = "removal"         -> "none"
            [] n.fate.type = "migration"       -> "master"
            [] n.fate.type = "remoteMigration" -> up.kind
            [] OTHER                           -> up.kind
    <2> HIDE DEF up
    <2> QED
      BY <1>2 DEF SlotAfterMigrationNote, Absent, up
  <1> QED
    BY <1>1, <1>2, <1>3, <1>4 DEF Fate

LEMMA AfterCopyOK ==
  ASSUME NEW r \in Rank, NEW sl, StoredOK(r, sl), NEW n, ResolutionSentOK(r, n)
  PROVE  /\ StoredOK(r, AfterCopy(r, sl, n))
         /\ AfterCopy(r, sl, n).kind = "master" <=> sl.kind = "master"
  <1>1. CASE n.copy /\ sl.kind = "none"
    <2>1. AfterCopy(r, sl, n) = NewGhost(n.owner, Image[r][n.pos])
      BY <1>1 DEF AfterCopy
    <2>2. n.owner \in Rank \ {r} /\ Image[r][n.pos] \in Pos
      BY <1>1, GeometryAssumption DEF ResolutionSentOK, ResolutionNote
    <2> QED
      BY <1>1, <2>1, <2>2 DEF NewGhost, StoredOK, Slot
  <1>2. CASE ~(n.copy /\ sl.kind = "none")
    BY <1>2 DEF AfterCopy
  <1> QED
    BY <1>1, <1>2

LEMMA SlotAfterResolutionNoteOK ==
  ASSUME NEW r \in Rank, NEW s \in Rank, NEW sl, StoredOK(r, sl),
         NEW n, ResolutionSentOK(r, n), ResolutionNoteChecks(r, sl, n)
  PROVE  /\ StoredOK(r, SlotAfterResolutionNote(r, s, sl, n))
         /\ SlotAfterResolutionNote(r, s, sl, n).kind = "master" <=> sl.kind = "master"
  <1> DEFINE got   == AfterCopy(r, sl, n)
             fewer == IF n.gone /\ n.owner = r THEN {s} ELSE {}
             lost  == IF n.gone THEN {s} ELSE {}
  <1>1. StoredOK(r, got) /\ got \in Slot /\ (got.kind = "master" <=> sl.kind = "master")
    BY AfterCopyOK DEF StoredOK
  <1>2. SlotAfterResolutionNote(r, s, sl, n) =
          [got EXCEPT !.ghosts = (got.ghosts \cup n.fresh) \ fewer, !.told = got.told \ lost]
    BY <1>1 DEF SlotAfterResolutionNote, Slot
  <1>3. n.fresh \subseteq Rank /\ r \notin n.fresh
    BY DEF ResolutionSentOK, ResolutionNote
  <1>4. got.kind = "none" => n.fresh = {}
    BY DEF ResolutionNoteChecks
  <1> DEFINE then == SlotAfterResolutionNote(r, s, sl, n)
  <1> HIDE DEF got, fewer, lost
  <1>5. CASE got.kind = "none"
    <2>1. got = Absent /\ n.fresh = {}
      BY <1>1, <1>4, <1>5 DEF StoredOK
    <2>2. (got.ghosts \cup n.fresh) \ fewer = {} /\ got.told \ lost = {}
      BY <2>1 DEF Absent
    <2>3. then = [got EXCEPT !.ghosts = {}, !.told = {}]
      BY <1>2, <2>2
    <2>4. then = Absent
      BY <2>1, <2>3 DEF Absent
    <2> QED
      BY <1>1, <1>5, <2>1, <2>4
  <1>6. CASE got.kind # "none"
    <2>1. then \in Slot /\ then.kind = got.kind /\ then.owner = got.owner
      <3>1. got \in Slot
        BY <1>1 DEF StoredOK
      <3>2. then.kind = got.kind /\ then.owner = got.owner
        BY <1>2, <3>1 DEF Slot
      <3> QED
        BY <1>2, <1>3, <3>1, <3>2 DEF Slot
    <2>2. r \notin got.ghosts => r \notin then.ghosts
      BY <1>1, <1>2, <1>3 DEF Slot
    <2>3. then.told \subseteq got.told
      BY <1>1, <1>2 DEF Slot
    <2> HIDE DEF then
    <2>4. StoredOK(r, then)
      BY <1>1, <1>6, <2>1, <2>2, <2>3 DEF StoredOK
    <2> QED
      BY <1>1, <2>1, <2>4 DEF then
  <1> QED
    BY <1>5, <1>6

-----------------------------------------------------------------------------
(* The steps keep the shape. *)

LEMMA ShapeInit == Init => Shape
  <1> SUFFICES ASSUME Init PROVE Shape
    OBVIOUS
  <1>1. PICK at \in [Particle -> {p \in Pos : OwnerOf[p] # NoRank}] :
          ps = [r \in Rank |-> [u \in Particle |->
                  IF OwnerOf[at[u]] = r THEN NewMaster(r, at[u]) ELSE Absent]]
    BY DEF Init
  <1>2. ASSUME NEW r \in Rank, NEW u \in Particle
        PROVE  StoredOK(r, ps[r][u])
    <2>1. at[u] \in Pos
      BY <1>1
    <2>2. CASE OwnerOf[at[u]] = r
      BY <1>1, <2>1, <2>2 DEF NewMaster, StoredOK, Slot
    <2>3. CASE OwnerOf[at[u]] # r
      BY <1>1, <2>3, AbsentOK
    <2> QED
      BY <2>2, <2>3
  <1>3. StoreOK
    <2>1. \A r \in Rank, u \in Particle : ps[r][u] \in Slot
      BY <1>2 DEF StoredOK
    <2>2. ps = [r \in Rank |-> [u \in Particle |-> ps[r][u]]]
      BY <1>1
    <2>3. ps \in [Rank -> [Particle -> Slot]]
      BY <2>1, <2>2
    <2> QED
      BY <1>2, <2>3 DEF StoreOK
  <1>4. MigratingOK
    BY DEF Init, MigratingOK, Channels
  <1>5. ResolvingOK
    BY DEF Init, ResolvingOK, Channels
  <1>6. ControlOK
    BY DEF Init, ControlOK
  <1> QED
    BY <1>3, <1>4, <1>5, <1>6 DEF Shape

LEMMA ShapeIntegrate ==
  ASSUME Shape, NEW r \in Rank, Integrate(r)
  PROVE  Shape'
  <1>1. PICK to \in [Particle -> Pos] :
          /\ \A u \in Particle :
               IF IsMaster(r, u) /\ u \notin Fixed /\ ~resting
               THEN to[u] \in Reach[ps[r][u].pos]
               ELSE to[u] = ps[r][u].pos
          /\ ps' = [ps EXCEPT ![r] = [u \in Particle |-> [ps[r][u] EXCEPT !.pos = to[u]]]]
    BY DEF Integrate
  <1>2. StoreOK
    BY DEF Shape
  <1>3. ASSUME NEW u \in Particle
        PROVE  StoredOK(r, [ps[r][u] EXCEPT !.pos = to[u]])
    <2>1. StoredOK(r, ps[r][u]) /\ to[u] \in Pos
      BY <1>2 DEF StoreOK
    <2>2. ps[r][u].kind = "none" => to[u] = ps[r][u].pos
      BY <1>1 DEF IsMaster
    <2>3. ps[r][u].kind = "none" => [ps[r][u] EXCEPT !.pos = to[u]] = ps[r][u]
      BY <2>1, <2>2 DEF StoredOK, Slot
    <2> QED
      BY <2>1, <2>3 DEF StoredOK, Slot
  <1>4. StoreOK'
    <2> DEFINE row == [u \in Particle |-> [ps[r][u] EXCEPT !.pos = to[u]]]
    <2>1. DOMAIN row = Particle /\ row = [u \in Particle |-> row[u]]
      OBVIOUS
    <2>2. \A u \in Particle : StoredOK(r, row[u])
      BY <1>3
    <2>3. ps' = [ps EXCEPT ![r] = row]
      BY <1>1
    <2> HIDE DEF row
    <2> QED
      BY <1>2, <2>1, <2>2, <2>3, RowStored
  <1>5. ControlOK'
    BY DEF Integrate, Shape, ControlOK
  <1>6. UNCHANGED <<migrating, resolving>>
    BY DEF Integrate
  <1> QED
    BY <1>4, <1>5, <1>6 DEF Shape, MigratingOK, ResolvingOK

LEMMA ShapeWalkMasters ==
  ASSUME Shape, NEW r \in Rank, WalkMasters(r)
  PROVE  Shape'
  <1>1. StoreOK /\ MigratingOK /\ ControlOK
    BY DEF Shape
  <1>2. StoreOK'
    <2> DEFINE row == [u \in Particle |-> SlotAfterMigration(r, u)]
    <2>1. DOMAIN row = Particle /\ row = [u \in Particle |-> row[u]]
      OBVIOUS
    <2>2. \A u \in Particle : StoredOK(r, row[u])
      BY <1>1, SlotAfterMigrationOK
    <2>3. ps' = [ps EXCEPT ![r] = row]
      BY DEF WalkMasters
    <2> HIDE DEF row
    <2> QED
      BY <1>1, <2>1, <2>2, <2>3, RowStored
  <1> DEFINE Batch(d) == [u \in Particle |-> MigrationNoteFor(r, d, u)]
  <1>3. migrating' = [c \in Channels |->
          IF c[1] = r /\ c[2] \in UpdateReceivers(r)
          THEN Append(migrating[c], Batch(c[2])) ELSE migrating[c]]
    BY DEF WalkMasters
  <1>4. \A d \in Rank : \A u \in Particle : MigrationSentOK(d, Batch(d)[u])
    BY <1>1, MigrationNoteForOK
  <1>5. \A d \in Rank : Batch(d) \in [Particle -> MigrationNote]
    BY <1>4 DEF MigrationSentOK
  <1> HIDE DEF Batch
  <1>6. MigratingOK'
    <2>1. \A c \in Channels : migrating'[c] \in Seq([Particle -> MigrationNote])
      BY <1>1, <1>3, <1>5 DEF Channels, MigratingOK
    <2>2. migrating' \in [Channels -> Seq([Particle -> MigrationNote])]
      BY <1>3, <2>1
    <2>3. ASSUME NEW s \in Rank, NEW d \in Rank, NEW i \in DOMAIN migrating'[<<s, d>>],
                 NEW u \in Particle
          PROVE  MigrationSentOK(d, migrating'[<<s, d>>][i][u])
      <3>1. migrating[<<s, d>>] \in Seq([Particle -> MigrationNote])
        BY <1>1 DEF MigratingOK, Channels
      <3>2. \/ i \in DOMAIN migrating[<<s, d>>]
               /\ migrating'[<<s, d>>][i] = migrating[<<s, d>>][i]
            \/ migrating'[<<s, d>>][i] = Batch(d)
        BY <1>3, <3>1 DEF Channels
      <3> QED
        BY <1>1, <1>4, <3>2 DEF MigratingOK
    <2> QED
      BY <2>2, <2>3 DEF MigratingOK
  <1>7. UpdateSenders(r) \subseteq Rank
    BY <1>1 DEF UpdateSenders, StoreOK, StoredOK, IsGhost
  <1>8. ControlOK'
    BY <1>1, <1>7 DEF WalkMasters, ControlOK
  <1>9. UNCHANGED resolving
    BY DEF WalkMasters
  <1> QED
    BY <1>2, <1>6, <1>8, <1>9 DEF Shape, ResolvingOK

LEMMA MigratingHead ==
  ASSUME MigratingOK, NEW r \in Rank, NEW s \in Rank, migrating[<<s, r>>] # <<>>
  PROVE  /\ 1 \in DOMAIN migrating[<<s, r>>]
         /\ Head(migrating[<<s, r>>]) = migrating[<<s, r>>][1]
         /\ \A u \in Particle : MigrationSentOK(r, Head(migrating[<<s, r>>])[u])
  <1>1. migrating[<<s, r>>] \in Seq([Particle -> MigrationNote])
    BY DEF MigratingOK, Channels
  <1>2. 1 \in DOMAIN migrating[<<s, r>>] /\ Head(migrating[<<s, r>>]) = migrating[<<s, r>>][1]
    BY <1>1
  <1> QED
    BY <1>2 DEF MigratingOK

LEMMA ResolvingHead ==
  ASSUME ResolvingOK, NEW r \in Rank, NEW s \in Rank, resolving[<<s, r>>] # <<>>
  PROVE  /\ 1 \in DOMAIN resolving[<<s, r>>]
         /\ Head(resolving[<<s, r>>]) = resolving[<<s, r>>][1]
         /\ \A u \in Particle : ResolutionSentOK(r, Head(resolving[<<s, r>>])[u])
  <1>1. resolving[<<s, r>>] \in Seq([Particle -> ResolutionNote])
    BY DEF ResolvingOK, Channels
  <1>2. 1 \in DOMAIN resolving[<<s, r>>] /\ Head(resolving[<<s, r>>]) = resolving[<<s, r>>][1]
    BY <1>1
  <1> QED
    BY <1>2 DEF ResolvingOK

(* ParseMigration when no check fails *)
TakeMigration(r, s) ==
  LET b == Head(migrating[<<s, r>>]) IN
  /\ \A u \in Particle : MigrationNoteChecks(r, s, ps[r][u], b[u])
  /\ ps' = [ps EXCEPT ![r] = [u \in Particle |-> SlotAfterMigrationNote(r, ps[r][u], b[u])]]
  /\ migrating' = [migrating EXCEPT ![<<s, r>>] = Tail(@)]
  /\ pending' = [pending EXCEPT ![r] = @ \ {s}]
  /\ phase' = [phase EXCEPT ![r] = IF pending[r] = {s} THEN "resolve" ELSE "update"]
  /\ UNCHANGED <<resolving, resting, aborted>>

(* ParseResolution when no check fails *)
TakeResolution(r, s) ==
  LET b == Head(resolving[<<s, r>>]) IN
  /\ \A u \in Particle : ResolutionNoteChecks(r, ps[r][u], b[u])
  /\ ps' = [ps EXCEPT ![r] = [u \in Particle |-> SlotAfterResolutionNote(r, s, ps[r][u], b[u])]]
  /\ resolving' = [resolving EXCEPT ![<<s, r>>] = Tail(@)]
  /\ pending' = [pending EXCEPT ![r] = @ \ {s}]
  /\ phase' = [phase EXCEPT ![r] = IF pending[r] = {s} THEN "integrate" ELSE "parse"]
  /\ UNCHANGED <<migrating, resting, aborted>>

LEMMA ParseMigrationTakes ==
  ASSUME NEW r \in Rank, NEW s \in Rank, ParseMigration(r, s), ~Abort
  PROVE  TakeMigration(r, s)
  BY DEF ParseMigration, TakeMigration

LEMMA ParseResolutionTakes ==
  ASSUME NEW r \in Rank, NEW s \in Rank, ParseResolution(r, s), ~Abort
  PROVE  TakeResolution(r, s)
  BY DEF ParseResolution, TakeResolution

LEMMA ShapeTakeMigration ==
  ASSUME Shape, NEW r \in Rank, NEW s \in Rank, migrating[<<s, r>>] # <<>>, TakeMigration(r, s)
  PROVE  Shape'
  <1> DEFINE b == Head(migrating[<<s, r>>])
             row == [u \in Particle |-> SlotAfterMigrationNote(r, ps[r][u], b[u])]
  <1>1. StoreOK /\ MigratingOK /\ ControlOK
    BY DEF Shape
  <1>2. StoreOK'
    <2>1. DOMAIN row = Particle /\ row = [u \in Particle |-> row[u]]
      OBVIOUS
    <2>2. ASSUME NEW u \in Particle PROVE StoredOK(r, row[u])
      <3>1. MigrationSentOK(r, b[u]) /\ StoredOK(r, ps[r][u])
        BY <1>1, MigratingHead DEF StoreOK
      <3>2. MigrationNoteChecks(r, s, ps[r][u], b[u])
        BY DEF TakeMigration
      <3> QED
        BY <3>1, <3>2, SlotAfterMigrationNoteOK
    <2>3. ps' = [ps EXCEPT ![r] = row]
      BY DEF TakeMigration
    <2> HIDE DEF row
    <2> QED
      BY <1>1, <2>1, <2>2, <2>3, RowStored
  <1>3. migrating' = [migrating EXCEPT ![<<s, r>>] = Tail(migrating[<<s, r>>])]
    BY DEF TakeMigration
  <1>4. MigratingOK'
    <2>1. migrating[<<s, r>>] \in Seq([Particle -> MigrationNote])
      BY <1>1 DEF MigratingOK, Channels
    <2>2. migrating' \in [Channels -> Seq([Particle -> MigrationNote])]
      BY <1>1, <1>3, <2>1 DEF MigratingOK, Channels
    <2>3. ASSUME NEW t \in Rank, NEW d \in Rank, NEW i \in DOMAIN migrating'[<<t, d>>],
                 NEW u \in Particle
          PROVE  MigrationSentOK(d, migrating'[<<t, d>>][i][u])
      <3>1. CASE <<t, d>> = <<s, r>>
        <4>1. migrating'[<<t, d>>] = Tail(migrating[<<s, r>>])
          BY <1>1, <1>3, <3>1 DEF MigratingOK, Channels
        <4>2. /\ i + 1 \in DOMAIN migrating[<<t, d>>]
              /\ migrating'[<<t, d>>][i] = migrating[<<t, d>>][i + 1]
          BY <2>1, <3>1, <4>1
        <4> QED
          BY <1>1, <4>2 DEF MigratingOK
      <3>2. CASE <<t, d>> # <<s, r>>
        <4>1. migrating'[<<t, d>>] = migrating[<<t, d>>]
          BY <1>1, <1>3, <3>2 DEF MigratingOK, Channels
        <4> QED
          BY <1>1, <4>1 DEF MigratingOK
      <3> QED
        BY <3>1, <3>2
    <2> QED
      BY <2>2, <2>3 DEF MigratingOK
  <1>5. ControlOK'
    BY <1>1 DEF TakeMigration, ControlOK
  <1>6. UNCHANGED resolving
    BY DEF TakeMigration
  <1> QED
    BY <1>2, <1>4, <1>5, <1>6 DEF Shape, ResolvingOK

LEMMA ShapeResolve ==
  ASSUME Shape, NEW r \in Rank, CheckAndResolveOverlap(r)
  PROVE  Shape'
  <1>1. StoreOK /\ ResolvingOK /\ ControlOK
    BY DEF Shape
  <1>2. StoreOK'
    <2> DEFINE row == [u \in Particle |-> SlotAfterResolution(r, u)]
    <2>1. DOMAIN row = Particle /\ row = [u \in Particle |-> row[u]]
      OBVIOUS
    <2>2. \A u \in Particle : StoredOK(r, row[u])
      BY <1>1, SlotAfterResolutionOK
    <2>3. ps' = [ps EXCEPT ![r] = row]
      BY DEF CheckAndResolveOverlap
    <2> HIDE DEF row
    <2> QED
      BY <1>1, <2>1, <2>2, <2>3, RowStored
  <1> DEFINE Batch(d) == [u \in Particle |-> ResolutionNoteFor(r, d, u)]
  <1>3. resolving' = [c \in Channels |->
          IF c[1] = r /\ c[2] \in ResolutionReceivers(r)
          THEN Append(resolving[c], Batch(c[2])) ELSE resolving[c]]
    BY DEF CheckAndResolveOverlap
  <1>4. \A d \in Rank : \A u \in Particle : ResolutionSentOK(d, Batch(d)[u])
    BY <1>1, ResolutionNoteForOK
  <1>5. \A d \in Rank : Batch(d) \in [Particle -> ResolutionNote]
    BY <1>4 DEF ResolutionSentOK
  <1> HIDE DEF Batch
  <1>6. ResolvingOK'
    <2>1. \A c \in Channels : resolving'[c] \in Seq([Particle -> ResolutionNote])
      BY <1>1, <1>3, <1>5 DEF Channels, ResolvingOK
    <2>2. resolving' \in [Channels -> Seq([Particle -> ResolutionNote])]
      BY <1>3, <2>1
    <2>3. ASSUME NEW s \in Rank, NEW d \in Rank, NEW i \in DOMAIN resolving'[<<s, d>>],
                 NEW u \in Particle
          PROVE  ResolutionSentOK(d, resolving'[<<s, d>>][i][u])
      <3>1. resolving[<<s, d>>] \in Seq([Particle -> ResolutionNote])
        BY <1>1 DEF ResolvingOK, Channels
      <3>2. \/ i \in DOMAIN resolving[<<s, d>>]
               /\ resolving'[<<s, d>>][i] = resolving[<<s, d>>][i]
            \/ resolving'[<<s, d>>][i] = Batch(d)
        BY <1>3, <3>1 DEF Channels
      <3> QED
        BY <1>1, <1>4, <3>2 DEF ResolvingOK
    <2> QED
      BY <2>2, <2>3 DEF ResolvingOK
  <1>7. ResolutionSenders(r) \subseteq Rank
    <2>1. \A u \in Particle : ps[r][u].ghosts \subseteq Rank
      BY <1>1 DEF StoreOK, Slot
    <2> QED
      BY <2>1, GeometryAssumption DEF ResolutionSenders
  <1>8. ControlOK'
    BY <1>1, <1>7 DEF CheckAndResolveOverlap, ControlOK
  <1>9. UNCHANGED migrating
    BY DEF CheckAndResolveOverlap
  <1> QED
    BY <1>2, <1>6, <1>8, <1>9 DEF Shape, MigratingOK

LEMMA ShapeTakeResolution ==
  ASSUME Shape, NEW r \in Rank, NEW s \in Rank, resolving[<<s, r>>] # <<>>, TakeResolution(r, s)
  PROVE  Shape'
  <1> DEFINE b == Head(resolving[<<s, r>>])
             row == [u \in Particle |-> SlotAfterResolutionNote(r, s, ps[r][u], b[u])]
  <1>1. StoreOK /\ ResolvingOK /\ ControlOK
    BY DEF Shape
  <1>2. StoreOK'
    <2>1. DOMAIN row = Particle /\ row = [u \in Particle |-> row[u]]
      OBVIOUS
    <2>2. ASSUME NEW u \in Particle PROVE StoredOK(r, row[u])
      <3>1. ResolutionSentOK(r, b[u]) /\ StoredOK(r, ps[r][u])
        BY <1>1, ResolvingHead DEF StoreOK
      <3>2. ResolutionNoteChecks(r, ps[r][u], b[u])
        BY DEF TakeResolution
      <3> QED
        BY <3>1, <3>2, SlotAfterResolutionNoteOK
    <2>3. ps' = [ps EXCEPT ![r] = row]
      BY DEF TakeResolution
    <2> HIDE DEF row
    <2> QED
      BY <1>1, <2>1, <2>2, <2>3, RowStored
  <1>3. resolving' = [resolving EXCEPT ![<<s, r>>] = Tail(resolving[<<s, r>>])]
    BY DEF TakeResolution
  <1>4. ResolvingOK'
    <2>1. resolving[<<s, r>>] \in Seq([Particle -> ResolutionNote])
      BY <1>1 DEF ResolvingOK, Channels
    <2>2. resolving' \in [Channels -> Seq([Particle -> ResolutionNote])]
      BY <1>1, <1>3, <2>1 DEF ResolvingOK, Channels
    <2>3. ASSUME NEW t \in Rank, NEW d \in Rank, NEW i \in DOMAIN resolving'[<<t, d>>],
                 NEW u \in Particle
          PROVE  ResolutionSentOK(d, resolving'[<<t, d>>][i][u])
      <3>1. CASE <<t, d>> = <<s, r>>
        <4>1. resolving'[<<t, d>>] = Tail(resolving[<<s, r>>])
          BY <1>1, <1>3, <3>1 DEF ResolvingOK, Channels
        <4>2. /\ i + 1 \in DOMAIN resolving[<<t, d>>]
              /\ resolving'[<<t, d>>][i] = resolving[<<t, d>>][i + 1]
          BY <2>1, <3>1, <4>1
        <4> QED
          BY <1>1, <4>2 DEF ResolvingOK
      <3>2. CASE <<t, d>> # <<s, r>>
        <4>1. resolving'[<<t, d>>] = resolving[<<t, d>>]
          BY <1>1, <1>3, <3>2 DEF ResolvingOK, Channels
        <4> QED
          BY <1>1, <4>1 DEF ResolvingOK
      <3> QED
        BY <3>1, <3>2
    <2> QED
      BY <2>2, <2>3 DEF ResolvingOK
  <1>5. ControlOK'
    BY <1>1 DEF TakeResolution, ControlOK
  <1>6. UNCHANGED migrating
    BY DEF TakeResolution
  <1> QED
    BY <1>2, <1>4, <1>5, <1>6 DEF Shape, MigratingOK

LEMMA ShapeClear ==
  ASSUME Shape, ClearGhosts
  PROVE  Shape'
  <1>1. ps' = [r \in Rank |-> [u \in Particle |->
          IF IsMaster(r, u) THEN [ps[r][u] EXCEPT !.ghosts = {}, !.told = {}] ELSE Absent]]
    BY DEF ClearGhosts
  <1>2. ASSUME NEW r \in Rank, NEW u \in Particle
        PROVE  StoredOK(r, ps'[r][u])
    <2>1. StoredOK(r, ps[r][u])
      BY DEF Shape, StoreOK
    <2>2. CASE IsMaster(r, u)
      <3>1. ps'[r][u] = [ps[r][u] EXCEPT !.ghosts = {}, !.told = {}]
        BY <1>1, <2>2
      <3> QED
        BY <2>1, <2>2, <3>1 DEF StoredOK, Slot, IsMaster
    <2>3. CASE ~IsMaster(r, u)
      BY <1>1, <2>3, AbsentOK
    <2> QED
      BY <2>2, <2>3
  <1>3. StoreOK'
    <2>1. \A r \in Rank, u \in Particle : ps'[r][u] \in Slot
      BY <1>2 DEF StoredOK
    <2>2. ps' = [r \in Rank |-> [u \in Particle |-> ps'[r][u]]]
      BY <1>1
    <2>3. ps' \in [Rank -> [Particle -> Slot]]
      BY <2>1, <2>2
    <2> QED
      BY <1>2, <2>3 DEF StoreOK
  <1>4. ControlOK'
    BY DEF ClearGhosts, Shape, ControlOK
  <1>5. UNCHANGED <<migrating, resolving>>
    BY DEF ClearGhosts
  <1> QED
    BY <1>3, <1>4, <1>5 DEF Shape, MigratingOK, ResolvingOK

LEMMA ShapeNext == Shape /\ [Next]_vars => Shape'
  <1> SUFFICES ASSUME Shape, [Next]_vars PROVE Shape'
    OBVIOUS
  <1>1. CASE Abort
    BY <1>1 DEF Abort, Shape, StoreOK, MigratingOK, ResolvingOK, ControlOK
  <1>2. ASSUME NEW r \in Rank, UpdateAndMigrate(r), ~Abort PROVE Shape'
    BY <1>2, ShapeWalkMasters DEF UpdateAndMigrate
  <1>3. ASSUME NEW r \in Rank, NEW s \in Rank, ParseMigration(r, s), ~Abort PROVE Shape'
    BY <1>3, ParseMigrationTakes, ShapeTakeMigration DEF ParseMigration
  <1>4. ASSUME NEW r \in Rank, NEW s \in Rank, ParseResolution(r, s), ~Abort PROVE Shape'
    BY <1>4, ParseResolutionTakes, ShapeTakeResolution DEF ParseResolution
  <1>5. CASE ComeToRest
    BY <1>5 DEF ComeToRest, Shape, StoreOK, MigratingOK, ResolvingOK, ControlOK
  <1>6. CASE UNCHANGED vars
    BY <1>6 DEF vars, Shape, StoreOK, MigratingOK, ResolvingOK, ControlOK
  <1> QED
    BY <1>1, <1>2, <1>3, <1>4, <1>5, <1>6, ShapeIntegrate, ShapeResolve, ShapeClear
       DEF Next, Advance

(* Whatever is stored or under way is well-formed: every slot names an owner
   that fits its kind, no master counts itself among its ghosts, marks are made
   for neighbours only, and every buffer fits the process that parses it. *)
THEOREM ShapeInvariant == Spec => []Shape
  BY ShapeInit, ShapeNext, PTL DEF Spec

-----------------------------------------------------------------------------
(* Where the ownership of u is *)

Masters(u) == {r \in Rank : IsMaster(r, u)}

(* The i-th buffer under way from s to d hands u over. *)
Carries(s, d, i, u) ==
  /\ i \in DOMAIN migrating[<<s, d>>]
  /\ migrating[<<s, d>>][i][u].fate.type = "migration"

(* Buffers under way that hand u over: sender, receiver, place in the queue *)
Transits(u) == {t \in Rank \X Rank \X Nat : Carries(t[1], t[2], t[3], u)}

HeldBy(u, r) == Masters(u) = {r} /\ Transits(u) = {}

MovingIn(u, t) == Masters(u) = {} /\ Transits(u) = {t}

Left(u) == Masters(u) = {} /\ Transits(u) = {}

Placed(u) ==
  \/ \E r \in Rank : HeldBy(u, r)
  \/ \E t \in Rank \X Rank \X Nat : MovingIn(u, t)
  \/ Left(u)

OwnerInv == Shape /\ \A u \in Particle : Placed(u)

(* How a step may move the ownership of u *)
Moved(u) ==
  \/ \E r \in Rank : HeldBy(u, r) /\ HeldBy(u, r)'
  \/ \E t, v \in Rank \X Rank \X Nat : t[2] = v[2] /\ MovingIn(u, t) /\ MovingIn(u, v)'
  \/ Left(u) /\ Left(u)'
  \/ \E r \in Rank, t \in Rank \X Rank \X Nat :
       t[2] \in Nbr[r] /\ HeldBy(u, r) /\ MovingIn(u, t)'
  \/ \E t \in Rank \X Rank \X Nat : MovingIn(u, t) /\ HeldBy(u, t[2])'
  \/ \E r \in Rank : HeldBy(u, r) /\ Left(u)'

LEMMA MovedPlaced == ASSUME NEW u, Moved(u) PROVE Placed(u)'
  BY DEF Moved, Placed

LEMMA MovedSame ==
  ASSUME NEW u, Placed(u), Masters(u)' = Masters(u), Transits(u)' = Transits(u)
  PROVE  Moved(u)
  BY DEF Moved, Placed, HeldBy, MovingIn, Left

LEMMA CarriesIn ==
  ASSUME MigratingOK, NEW u, NEW s \in Rank, NEW d \in Rank, NEW i, Carries(s, d, i, u)
  PROVE  <<s, d, i>> \in Transits(u)
  <1>1. migrating[<<s, d>>] \in Seq([Particle -> MigrationNote])
    BY DEF MigratingOK, Channels
  <1>2. i \in Nat
    BY <1>1 DEF Carries
  <1> QED
    BY <1>2 DEF Transits

LEMMA OwnerInit == Init => OwnerInv
  <1> SUFFICES ASSUME Init, NEW u \in Particle PROVE \E r \in Rank : HeldBy(u, r)
    BY ShapeInit DEF OwnerInv, Placed
  <1>1. PICK at \in [Particle -> {p \in Pos : OwnerOf[p] # NoRank}] :
          ps = [r \in Rank |-> [v \in Particle |->
                  IF OwnerOf[at[v]] = r THEN NewMaster(r, at[v]) ELSE Absent]]
    BY DEF Init
  <1>2. OwnerOf[at[u]] \in Rank
    BY <1>1, GeometryAssumption
  <1>3. \A r \in Rank : IsMaster(r, u) <=> r = OwnerOf[at[u]]
    BY <1>1 DEF IsMaster, NewMaster, Absent
  <1>4. Masters(u) = {OwnerOf[at[u]]}
    BY <1>2, <1>3 DEF Masters
  <1>5. Transits(u) = {}
    BY DEF Init, Transits, Carries, Channels
  <1> QED
    BY <1>2, <1>4, <1>5 DEF HeldBy

-----------------------------------------------------------------------------
(* Steps that change no master: whatever they do to ghosts and to the buffers
   of the second exchange, the ownership stays where it is. *)
LEMMA OwnerKept ==
  ASSUME OwnerInv, NEW u \in Particle,
         \A q \in Rank : IsMaster(q, u)' <=> IsMaster(q, u),
         UNCHANGED migrating
  PROVE  Moved(u)
  <1>1. Masters(u)' = Masters(u)
    BY DEF Masters
  <1>2. Transits(u)' = Transits(u)
    BY DEF Transits, Carries
  <1>3. Placed(u)
    BY DEF OwnerInv
  <1> QED
    BY <1>1, <1>2, <1>3, MovedSame

LEMMA OwnerIntegrate ==
  ASSUME OwnerInv, NEW r \in Rank, NEW u \in Particle, Integrate(r)
  PROVE  Moved(u)
  <1>1. PICK to \in [Particle -> Pos] :
          ps' = [ps EXCEPT ![r] = [v \in Particle |-> [ps[r][v] EXCEPT !.pos = to[v]]]]
    BY DEF Integrate
  <1>2. ps \in [Rank -> [Particle -> Slot]]
    BY DEF OwnerInv, Shape, StoreOK
  <1>3. ASSUME NEW q \in Rank PROVE IsMaster(q, u)' <=> IsMaster(q, u)
    <2>1. CASE q = r
      <3>1. ps'[q][u] = [ps[r][u] EXCEPT !.pos = to[u]]
        BY <1>1, <1>2, <2>1
      <3>2. ps[r][u] \in Slot
        BY <1>2
      <3> QED
        BY <2>1, <3>1, <3>2 DEF IsMaster, Slot
    <2>2. CASE q # r
      BY <1>1, <1>2, <2>2 DEF IsMaster
    <2> QED
      BY <2>1, <2>2
  <1>4. UNCHANGED migrating
    BY DEF Integrate
  <1> QED
    BY <1>3, <1>4, OwnerKept

LEMMA OwnerResolve ==
  ASSUME OwnerInv, NEW r \in Rank, NEW u \in Particle, CheckAndResolveOverlap(r)
  PROVE  Moved(u)
  <1>1. StoreOK /\ ps \in [Rank -> [Particle -> Slot]]
    BY DEF OwnerInv, Shape, StoreOK
  <1>2. ps' = [ps EXCEPT ![r] = [v \in Particle |-> SlotAfterResolution(r, v)]]
    BY DEF CheckAndResolveOverlap
  <1>3. SlotAfterResolution(r, u).kind = "master" <=> IsMaster(r, u)
    <2>1. ps[r][u] \in Slot
      BY <1>1
    <2> QED
      BY <2>1 DEF SlotAfterResolution, Retires, IsGhost, IsMaster, Absent, Slot
  <1>4. \A q \in Rank : IsMaster(q, u)' <=> IsMaster(q, u)
    BY <1>1, <1>2, <1>3 DEF IsMaster
  <1>5. UNCHANGED migrating
    BY DEF CheckAndResolveOverlap
  <1> QED
    BY <1>4, <1>5, OwnerKept

LEMMA OwnerTakeResolution ==
  ASSUME OwnerInv, NEW r \in Rank, NEW s \in Rank, NEW u \in Particle,
         resolving[<<s, r>>] # <<>>, TakeResolution(r, s)
  PROVE  Moved(u)
  <1> DEFINE b == Head(resolving[<<s, r>>])
  <1>1. StoreOK /\ ResolvingOK /\ ps \in [Rank -> [Particle -> Slot]] /\ StoredOK(r, ps[r][u])
    BY DEF OwnerInv, Shape, StoreOK
  <1>2. ps' = [ps EXCEPT ![r] =
                 [v \in Particle |-> SlotAfterResolutionNote(r, s, ps[r][v], b[v])]]
    BY DEF TakeResolution
  <1>3. SlotAfterResolutionNote(r, s, ps[r][u], b[u]).kind = "master" <=> IsMaster(r, u)
    <2>1. ResolutionSentOK(r, b[u]) /\ ResolutionNoteChecks(r, ps[r][u], b[u])
      BY <1>1, ResolvingHead DEF TakeResolution
    <2> QED
      BY <1>1, <2>1, SlotAfterResolutionNoteOK DEF IsMaster
  <1> HIDE DEF b
  <1>4. \A q \in Rank : IsMaster(q, u)' <=> IsMaster(q, u)
    BY <1>1, <1>2, <1>3 DEF IsMaster
  <1>5. UNCHANGED migrating
    BY DEF TakeResolution
  <1> QED
    BY <1>4, <1>5, OwnerKept

LEMMA OwnerClear ==
  ASSUME OwnerInv, NEW u \in Particle, ClearGhosts
  PROVE  Moved(u)
  <1>1. ps' = [r \in Rank |-> [v \in Particle |->
          IF IsMaster(r, v) THEN [ps[r][v] EXCEPT !.ghosts = {}, !.told = {}] ELSE Absent]]
    BY DEF ClearGhosts
  <1>2. \A q \in Rank : ps[q][u] \in Slot
    BY DEF OwnerInv, Shape, StoreOK
  <1>3. \A q \in Rank : IsMaster(q, u)' <=> IsMaster(q, u)
    BY <1>1, <1>2 DEF IsMaster, Absent, Slot
  <1>4. UNCHANGED migrating
    BY DEF ClearGhosts
  <1> QED
    BY <1>3, <1>4, OwnerKept

-----------------------------------------------------------------------------
(* The walk over the masters: only the owner gives a particle up, *)

LEMMA MastersAfterWalk ==
  ASSUME StoreOK, NEW r \in Rank, NEW u \in Particle, WalkMasters(r)
  PROVE  /\ FlowsOut(r, u) \/ Migrates(r, u)
              => r \in Masters(u) /\ Masters(u)' = Masters(u) \ {r}
         /\ ~FlowsOut(r, u) /\ ~Migrates(r, u) => Masters(u)' = Masters(u)
  <1>1. ps' = [ps EXCEPT ![r] = [v \in Particle |-> SlotAfterMigration(r, v)]]
    BY DEF WalkMasters
  <1>2. /\ ps'[r][u] = SlotAfterMigration(r, u)
        /\ \A q \in Rank \ {r} : ps'[q][u] = ps[q][u]
        /\ ps[r][u] \in Slot
    BY <1>1 DEF StoreOK
  <1>3. FlowsOut(r, u) => IsMaster(r, u) /\ ps'[r][u].kind # "master"
    BY <1>2 DEF SlotAfterMigration, FlowsOut, Migrates, IsHandled, Absent
  <1>4. Migrates(r, u) => IsMaster(r, u) /\ ps'[r][u].kind # "master"
    BY <1>2 DEF SlotAfterMigration, FlowsOut, Migrates, IsHandled, Slot
  <1>5. ~FlowsOut(r, u) /\ ~Migrates(r, u) => ps'[r][u].kind = ps[r][u].kind
    BY <1>2 DEF SlotAfterMigration, Slot
  <1> QED
    BY <1>2, <1>3, <1>4, <1>5 DEF IsMaster, Masters

(* and exactly one buffer takes a particle that migrates along: the new owner
   is one of the ghosts the old owner writes to. *)
LEMMA TransitsAfterWalk ==
  ASSUME Shape, NEW r \in Rank, NEW u \in Particle, MigrationChecks(r), WalkMasters(r)
  PROVE  LET o == NewOwner(r, u)
         IN  /\ Migrates(r, u) =>
                  /\ <<r, o, Len(migrating[<<r, o>>]) + 1>> \in Rank \X Rank \X Nat
                  /\ Transits(u)' = Transits(u) \cup {<<r, o, Len(migrating[<<r, o>>]) + 1>>}
             /\ ~Migrates(r, u) => Transits(u)' = Transits(u)
  <1> DEFINE o == NewOwner(r, u)
             New(s, d, i) == Migrates(r, u) /\ s = r /\ d = o /\ i = Len(migrating[<<s, d>>]) + 1
             Batch(d) == [v \in Particle |-> MigrationNoteFor(r, d, v)]
  <1>1. migrating' = [c \in Channels |->
          IF c[1] = r /\ c[2] \in UpdateReceivers(r)
          THEN Append(migrating[c], Batch(c[2])) ELSE migrating[c]]
    BY DEF WalkMasters
  <1>2. StoreOK /\ MigratingOK
    BY DEF Shape
  <1>3. Migrates(r, u) => o \in Rank /\ o \in UpdateReceivers(r) /\ o \in ps[r][u].ghosts
    <2>1. o \in Nbr[r] \cup {r, NoRank} /\ Nbr[r] \subseteq Rank
      BY <1>2, WalkType
    <2>2. Migrates(r, u) => o \in ps[r][u].ghosts
      BY DEF MigrationChecks
    <2> QED
      BY <2>1, <2>2 DEF Migrates, UpdateReceivers
  <1>4. \A d \in Rank : Batch(d)[u].fate.type = "migration" <=> (Migrates(r, u) /\ d = o)
    <2> SUFFICES ASSUME NEW d \in Rank
                 PROVE  MigrationNoteFor(r, d, u).fate.type = "migration"
                          <=> (Migrates(r, u) /\ d = o)
      OBVIOUS
    <2>1. CASE IsHandled(r, u) /\ d \in ps[r][u].ghosts
      <3>1. MigrationNoteFor(r, d, u).fate = FateFor(r, d, u)
        BY <2>1 DEF MigrationNoteFor
      <3> QED
        BY <1>2, <3>1, FateForOK
    <2>2. CASE ~(IsHandled(r, u) /\ d \in ps[r][u].ghosts)
      <3>1. MigrationNoteFor(r, d, u).fate.type = "none"
        BY <2>2 DEF MigrationNoteFor, Silence, NoFate
      <3>2. ~(Migrates(r, u) /\ d = o)
        BY <1>3, <2>2 DEF Migrates
      <3> QED
        BY <3>1, <3>2
    <2> QED
      BY <2>1, <2>2
  <1> HIDE DEF o, Batch
  <1>5. ASSUME NEW s \in Rank, NEW d \in Rank, NEW i \in Nat
        PROVE  Carries(s, d, i, u)' <=> Carries(s, d, i, u) \/ New(s, d, i)
    <2>1. migrating[<<s, d>>] \in Seq([Particle -> MigrationNote]) /\ <<s, d>> \in Channels
      BY <1>2 DEF MigratingOK, Channels
    <2>2. CASE s = r /\ d \in UpdateReceivers(r)
      <3>1. migrating'[<<s, d>>] = Append(migrating[<<s, d>>], Batch(d))
        BY <1>1, <2>1, <2>2
      <3>2. CASE i \in DOMAIN migrating[<<s, d>>]
        <4>1. i \in DOMAIN migrating'[<<s, d>>] /\ migrating'[<<s, d>>][i] = migrating[<<s, d>>][i]
          BY <2>1, <3>1, <3>2
        <4>2. i # Len(migrating[<<s, d>>]) + 1
          BY <2>1, <3>2
        <4> QED
          BY <3>2, <4>1, <4>2 DEF Carries
      <3>3. CASE i = Len(migrating[<<s, d>>]) + 1
        <4>1. /\ i \in DOMAIN migrating'[<<s, d>>] /\ i \notin DOMAIN migrating[<<s, d>>]
              /\ migrating'[<<s, d>>][i] = Batch(d)
          BY <2>1, <3>1, <3>3
        <4> QED
          BY <1>4, <2>2, <3>3, <4>1 DEF Carries
      <3>4. CASE i \notin DOMAIN migrating[<<s, d>>] /\ i # Len(migrating[<<s, d>>]) + 1
        <4>1. i \notin DOMAIN migrating'[<<s, d>>]
          BY <2>1, <3>1, <3>4
        <4> QED
          BY <3>4, <4>1 DEF Carries
      <3> QED
        BY <3>2, <3>3, <3>4
    <2>3. CASE ~(s = r /\ d \in UpdateReceivers(r))
      <3>1. migrating'[<<s, d>>] = migrating[<<s, d>>]
        BY <1>1, <2>1, <2>3
      <3>2. ~New(s, d, i)
        BY <1>3, <2>3
      <3> QED
        BY <3>1, <3>2 DEF Carries
    <2> QED
      BY <2>2, <2>3
  <1>6. Migrates(r, u) => Len(migrating[<<r, o>>]) + 1 \in Nat
    <2>1. ASSUME Migrates(r, u) PROVE migrating[<<r, o>>] \in Seq([Particle -> MigrationNote])
      BY <1>2, <1>3, <2>1 DEF MigratingOK, Channels
    <2> QED
      BY <2>1
  <1>7. \A t \in Rank \X Rank \X Nat :
          t \in Transits(u)' <=> t \in Transits(u) \/ New(t[1], t[2], t[3])
    BY <1>5 DEF Transits
  <1>8. ASSUME Migrates(r, u)
        PROVE  /\ <<r, o, Len(migrating[<<r, o>>]) + 1>> \in Rank \X Rank \X Nat
               /\ Transits(u)' = Transits(u) \cup {<<r, o, Len(migrating[<<r, o>>]) + 1>>}
    <2>1. <<r, o, Len(migrating[<<r, o>>]) + 1>> \in Rank \X Rank \X Nat
      BY <1>3, <1>6, <1>8
    <2>2. \A t \in Rank \X Rank \X Nat :
            New(t[1], t[2], t[3]) <=> t = <<r, o, Len(migrating[<<r, o>>]) + 1>>
      BY <1>8
    <2>3. Transits(u) \subseteq Rank \X Rank \X Nat /\ Transits(u)' \subseteq Rank \X Rank \X Nat
      BY DEF Transits
    <2> QED
      BY <1>7, <2>1, <2>2, <2>3
  <1>9. ASSUME ~Migrates(r, u)
        PROVE  Transits(u)' = Transits(u)
    BY <1>7, <1>9 DEF Transits
  <1> QED
    BY <1>8, <1>9 DEF o

LEMMA OwnerWalk ==
  ASSUME OwnerInv, NEW r \in Rank, NEW u \in Particle, MigrationChecks(r), WalkMasters(r)
  PROVE  Moved(u)
  <1> DEFINE o == NewOwner(r, u)
             n == <<r, o, Len(migrating[<<r, o>>]) + 1>>
  <1>1. Shape /\ StoreOK /\ Placed(u)
    BY DEF OwnerInv, Shape
  <1>2. CASE ~FlowsOut(r, u) /\ ~Migrates(r, u)
    <2>1. Masters(u)' = Masters(u) /\ Transits(u)' = Transits(u)
      BY <1>1, <1>2, MastersAfterWalk, TransitsAfterWalk
    <2> QED
      BY <1>1, <2>1, MovedSame
  <1>3. ASSUME FlowsOut(r, u) \/ Migrates(r, u)
        PROVE  HeldBy(u, r) /\ Masters(u)' = {}
    <2>1. r \in Masters(u) /\ Masters(u)' = Masters(u) \ {r}
      BY <1>1, <1>3, MastersAfterWalk
    <2>2. PICK q \in Rank : HeldBy(u, q)
      BY <1>1, <2>1 DEF Placed, MovingIn, Left
    <2> QED
      BY <2>1, <2>2 DEF HeldBy
  <1>4. CASE FlowsOut(r, u) /\ ~Migrates(r, u)
    <2>1. Transits(u)' = Transits(u)
      BY <1>1, <1>4, TransitsAfterWalk
    <2> QED
      BY <1>3, <1>4, <2>1 DEF HeldBy, Left, Moved
  <1>5. CASE Migrates(r, u)
    <2>1. n \in Rank \X Rank \X Nat /\ Transits(u)' = Transits(u) \cup {n}
      BY <1>1, <1>5, TransitsAfterWalk
    <2>2. o \in Nbr[r]
      BY <1>1, <1>5, WalkType DEF Migrates
    <2>3. PICK t \in Rank \X Rank \X Nat : t = n
      BY <2>1
    <2>4. MovingIn(u, t)'
      BY <1>3, <1>5, <2>1, <2>3 DEF MovingIn, HeldBy
    <2> QED
      BY <1>3, <1>5, <2>2, <2>3, <2>4 DEF Moved
  <1> QED
    BY <1>2, <1>3, <1>4, <1>5

-----------------------------------------------------------------------------
(* Parsing a buffer of the first exchange *)

(* Only a migration makes a master, and only where there is none yet. *)
LEMMA MastersAfterTake ==
  ASSUME Shape, NEW r \in Rank, NEW s \in Rank, NEW u \in Particle,
         migrating[<<s, r>>] # <<>>, TakeMigration(r, s)
  PROVE  Masters(u)' = IF Head(migrating[<<s, r>>])[u].fate.type = "migration"
                       THEN Masters(u) \cup {r} ELSE Masters(u)
  <1> DEFINE b == Head(migrating[<<s, r>>])
  <1>1. StoreOK /\ MigratingOK /\ ps \in [Rank -> [Particle -> Slot]] /\ StoredOK(r, ps[r][u])
    BY DEF Shape, StoreOK
  <1>2. ps' = [ps EXCEPT ![r] =
                 [v \in Particle |-> SlotAfterMigrationNote(r, ps[r][v], b[v])]]
    BY DEF TakeMigration
  <1>3. SlotAfterMigrationNote(r, ps[r][u], b[u]).kind = "master"
          <=> IsMaster(r, u) \/ b[u].fate.type = "migration"
    <2>1. MigrationSentOK(r, b[u]) /\ MigrationNoteChecks(r, s, ps[r][u], b[u])
      BY <1>1, MigratingHead DEF TakeMigration
    <2> QED
      BY <1>1, <2>1, KindAfterMigrationNote DEF IsMaster
  <1> HIDE DEF b
  <1>4. \A q \in Rank \ {r} : IsMaster(q, u)' <=> IsMaster(q, u)
    BY <1>1, <1>2 DEF IsMaster
  <1>5. IsMaster(r, u)' <=> IsMaster(r, u) \/ b[u].fate.type = "migration"
    BY <1>1, <1>2, <1>3 DEF IsMaster
  <1>6. Masters(u)' = IF b[u].fate.type = "migration" THEN Masters(u) \cup {r} ELSE Masters(u)
    BY <1>4, <1>5 DEF Masters
  <1> QED
    BY <1>6 DEF b

(* The queue from s moves up by one, the others stay. *)
LEMMA TransitsAfterTake ==
  ASSUME MigratingOK, NEW r \in Rank, NEW s \in Rank, NEW u \in Particle,
         migrating[<<s, r>>] # <<>>, TakeMigration(r, s),
         NEW t \in Rank, NEW d \in Rank, NEW i \in Nat
  PROVE  <<t, d, i>> \in Transits(u)' <=>
           IF t = s /\ d = r THEN i # 0 /\ <<s, r, i + 1>> \in Transits(u)
                             ELSE <<t, d, i>> \in Transits(u)
  <1>1. migrating' = [migrating EXCEPT ![<<s, r>>] = Tail(migrating[<<s, r>>])]
    BY DEF TakeMigration
  <1>2. migrating[<<s, r>>] \in Seq([Particle -> MigrationNote])
    BY DEF MigratingOK, Channels
  <1>3. CASE t = s /\ d = r
    <2>1. migrating'[<<s, r>>] = Tail(migrating[<<s, r>>])
      BY <1>1 DEF MigratingOK, Channels
    <2>2. i \in DOMAIN migrating'[<<s, r>>] <=> i # 0 /\ i + 1 \in DOMAIN migrating[<<s, r>>]
      BY <1>2, <2>1
    <2>3. i \in DOMAIN migrating'[<<s, r>>] =>
            migrating'[<<s, r>>][i] = migrating[<<s, r>>][i + 1]
      BY <1>2, <2>1
    <2>4. Carries(s, r, i, u)' <=> i # 0 /\ Carries(s, r, i + 1, u)
      BY <2>2, <2>3 DEF Carries
    <2> QED
      BY <1>3, <2>4 DEF Transits
  <1>4. CASE ~(t = s /\ d = r)
    <2>1. migrating'[<<t, d>>] = migrating[<<t, d>>]
      BY <1>1, <1>4 DEF MigratingOK, Channels
    <2>2. Carries(t, d, i, u)' <=> Carries(t, d, i, u)
      BY <2>1 DEF Carries
    <2> QED
      BY <1>4, <2>2 DEF Transits
  <1> QED
    BY <1>3, <1>4

(* The first buffer of the queue hands u over if its note says so. *)
LEMMA TransitAtHead ==
  ASSUME MigratingOK, NEW r \in Rank, NEW s \in Rank, NEW u \in Particle,
         migrating[<<s, r>>] # <<>>
  PROVE  <<s, r, 1>> \in Transits(u) <=> Head(migrating[<<s, r>>])[u].fate.type = "migration"
  BY MigratingHead DEF Transits, Carries

LEMMA OwnerTakeMigration ==
  ASSUME OwnerInv, NEW r \in Rank, NEW s \in Rank, NEW u \in Particle,
         migrating[<<s, r>>] # <<>>, TakeMigration(r, s)
  PROVE  Moved(u)
  <1>1. Shape /\ MigratingOK /\ Placed(u)
    BY DEF OwnerInv, Shape
  <1>2. Transits(u)' \subseteq Rank \X Rank \X Nat /\ Transits(u) \subseteq Rank \X Rank \X Nat
    BY DEF Transits
  <1>3. \A t, d \in Rank, i \in Nat :
          <<t, d, i>> \in Transits(u)' <=>
            IF t = s /\ d = r THEN i # 0 /\ <<s, r, i + 1>> \in Transits(u)
                              ELSE <<t, d, i>> \in Transits(u)
    BY <1>1, TransitsAfterTake
  <1>4. CASE <<s, r, 1>> \in Transits(u)
    <2>1. Masters(u) = {} /\ Transits(u) = {<<s, r, 1>>}
      BY <1>1, <1>4 DEF Placed, HeldBy, MovingIn, Left
    <2>2. Masters(u)' = {r}
      <3>1. Head(migrating[<<s, r>>])[u].fate.type = "migration"
        BY <1>1, <1>4, TransitAtHead
      <3>2. Masters(u)' = Masters(u) \cup {r}
        BY <1>1, <3>1, MastersAfterTake
      <3> QED
        BY <2>1, <3>2
    <2>3. ASSUME NEW t \in Rank, NEW d \in Rank, NEW i \in Nat
          PROVE  <<t, d, i>> \notin Transits(u)'
      <3>1. i # 0 => <<s, r, i + 1>> # <<s, r, 1>>
        OBVIOUS
      <3>2. t # s \/ d # r => <<t, d, i>> # <<s, r, 1>>
        OBVIOUS
      <3> QED
        BY <1>3, <2>1, <3>1, <3>2
    <2>4. Transits(u)' = {}
      BY <1>2, <2>3
    <2>5. MovingIn(u, <<s, r, 1>>) /\ HeldBy(u, r)'
      BY <2>1, <2>2, <2>4 DEF MovingIn, HeldBy
    <2>6. <<s, r, 1>> \in Rank \X Rank \X Nat /\ <<s, r, 1>>[2] = r
      OBVIOUS
    <2> QED
      BY <2>5, <2>6 DEF Moved
  <1>5. CASE <<s, r, 1>> \notin Transits(u)
    <2>1. Masters(u)' = Masters(u)
      BY <1>1, <1>5, TransitAtHead, MastersAfterTake
    <2>2. CASE Transits(u) = {}
      <3>1. \A t, d \in Rank, i \in Nat : <<t, d, i>> \notin Transits(u)'
        BY <1>3, <2>2
      <3>2. Transits(u)' = {}
        BY <1>2, <3>1
      <3> QED
        BY <1>1, <2>1, <2>2, <3>2, MovedSame
    <2>3. CASE Transits(u) # {}
      <3>1. PICK t \in Rank, d \in Rank, i \in Nat :
              Transits(u) = {<<t, d, i>>} /\ Masters(u) = {}
        <4>1. PICK v \in Rank \X Rank \X Nat : MovingIn(u, v)
          BY <1>1, <2>3 DEF Placed, HeldBy, Left
        <4>2. v = <<v[1], v[2], v[3]>> /\ v[1] \in Rank /\ v[2] \in Rank /\ v[3] \in Nat
          OBVIOUS
        <4> QED
          BY <4>1, <4>2 DEF MovingIn
      <3>2. CASE t = s /\ d = r
        <4>1. i # 1
          BY <1>5, <3>1, <3>2
        <4>2. i # 0
          <5>1. <<t, d, i>> \in Transits(u)
            BY <3>1
          <5>2. i \in DOMAIN migrating[<<t, d>>]
            BY <5>1 DEF Transits, Carries
          <5>3. migrating[<<t, d>>] \in Seq([Particle -> MigrationNote])
            BY <1>1 DEF MigratingOK, Channels
          <5> QED
            BY <5>2, <5>3
        <4>3. i - 1 \in Nat /\ i - 1 # 0
          BY <4>1, <4>2
        <4>4. ASSUME NEW a \in Rank, NEW e \in Rank, NEW j \in Nat
              PROVE  <<a, e, j>> \in Transits(u)' <=> <<a, e, j>> = <<s, r, i - 1>>
          BY <1>3, <3>1, <3>2, <4>3
        <4>5. Transits(u)' = {<<s, r, i - 1>>}
          BY <1>2, <4>3, <4>4
        <4>6. MovingIn(u, <<s, r, i - 1>>)'
          BY <2>1, <3>1, <4>5 DEF MovingIn
        <4>7. MovingIn(u, <<s, r, i>>)
          BY <3>1, <3>2 DEF MovingIn
        <4>8. /\ <<s, r, i>> \in Rank \X Rank \X Nat /\ <<s, r, i - 1>> \in Rank \X Rank \X Nat
              /\ <<s, r, i>>[2] = r /\ <<s, r, i - 1>>[2] = r
          BY <4>3
        <4> QED
          BY <4>6, <4>7, <4>8 DEF Moved
      <3>3. CASE ~(t = s /\ d = r)
        <4>1. ASSUME NEW a \in Rank, NEW e \in Rank, NEW j \in Nat
              PROVE  <<a, e, j>> \in Transits(u)' <=> <<a, e, j>> = <<t, d, i>>
          BY <1>3, <3>1, <3>3
        <4>2. Transits(u)' = {<<t, d, i>>}
          BY <1>2, <4>1
        <4> QED
          BY <1>1, <2>1, <3>1, <4>2, MovedSame
      <3> QED
        BY <3>2, <3>3
    <2> QED
      BY <2>2, <2>3
  <1> QED
    BY <1>4, <1>5

-----------------------------------------------------------------------------
LEMMA OwnerMoves ==
  ASSUME OwnerInv, [Next]_vars, NEW u \in Particle
  PROVE  Moved(u)
  <1>1. CASE Abort
    BY <1>1, OwnerKept DEF Abort, IsMaster
  <1>2. ASSUME NEW r \in Rank, UpdateAndMigrate(r), ~Abort PROVE Moved(u)
    BY <1>2, OwnerWalk DEF UpdateAndMigrate
  <1>3. ASSUME NEW r \in Rank, NEW s \in Rank, ParseMigration(r, s), ~Abort PROVE Moved(u)
    BY <1>3, ParseMigrationTakes, OwnerTakeMigration DEF ParseMigration
  <1>4. ASSUME NEW r \in Rank, NEW s \in Rank, ParseResolution(r, s), ~Abort PROVE Moved(u)
    BY <1>4, ParseResolutionTakes, OwnerTakeResolution DEF ParseResolution
  <1>5. CASE ComeToRest
    BY <1>5, OwnerKept DEF ComeToRest, IsMaster
  <1>6. CASE UNCHANGED vars
    BY <1>6, OwnerKept DEF vars, IsMaster
  <1> QED
    BY <1>1, <1>2, <1>3, <1>4, <1>5, <1>6, OwnerIntegrate, OwnerResolve, OwnerClear
       DEF Next, Advance

LEMMA OwnerNext == OwnerInv /\ [Next]_vars => OwnerInv'
  BY ShapeNext, OwnerMoves, MovedPlaced DEF OwnerInv

(* In whatever order the processes walk their masters and parse what the others
   sent, a particle has one master, or one buffer under way makes one, or it
   has left the domain. *)
THEOREM OwnershipInvariant == Spec => []OwnerInv
  BY OwnerInit, OwnerNext, PTL DEF Spec

-----------------------------------------------------------------------------
(* Refinement of ParticleOwnership *)

(* What Holder reads off the state is what the invariant says. *)
HolderReads ==
  \A u \in Particle :
    /\ \A r \in Rank : HeldBy(u, r) => Holder(u) = Ownership!Held(r)
    /\ \A t \in Rank \X Rank \X Nat : MovingIn(u, t) => Holder(u) = Ownership!Moving(t[2])
    /\ Left(u) => Holder(u) = Ownership!Out

LEMMA HolderRead == MigratingOK => HolderReads
  <1> SUFFICES ASSUME MigratingOK, NEW u \in Particle
               PROVE  /\ \A r \in Rank : HeldBy(u, r) => Holder(u) = Ownership!Held(r)
                      /\ \A t \in Rank \X Rank \X Nat :
                           MovingIn(u, t) => Holder(u) = Ownership!Moving(t[2])
                      /\ Left(u) => Holder(u) = Ownership!Out
    BY DEF HolderReads
  <1> DEFINE to == {d \in Rank : InTransit(d, u)}
  <1>1. \A d \in Rank : d \in to <=> \E t \in Transits(u) : t[2] = d
    <2> SUFFICES ASSUME NEW d \in Rank
                 PROVE  InTransit(d, u) <=> \E t \in Transits(u) : t[2] = d
      OBVIOUS
    <2>1. ASSUME InTransit(d, u)
          PROVE  \E t \in Transits(u) : t[2] = d
      <3>1. PICK s \in Rank : \E i \in DOMAIN migrating[<<s, d>>] : Carries(s, d, i, u)
        BY <2>1 DEF InTransit, Carries
      <3>2. PICK i : Carries(s, d, i, u)
        BY <3>1
      <3>3. <<s, d, i>> \in Transits(u)
        BY <3>2, CarriesIn
      <3> QED
        BY <3>3
    <2>2. ASSUME NEW t \in Transits(u), t[2] = d
          PROVE  InTransit(d, u)
      BY <2>2 DEF Transits, Carries, InTransit
    <2> QED
      BY <2>1, <2>2
  <1>2. Holder(u) = IF Masters(u) # {} THEN [state |-> "held", by |-> Masters(u) \cup to]
                    ELSE [state |-> IF to = {} THEN "out" ELSE "moving", by |-> to]
    BY DEF Holder, Masters
  <1> HIDE DEF to
  <1>3. to \subseteq Rank
    BY DEF to
  <1>4. ASSUME NEW r \in Rank, HeldBy(u, r) PROVE Holder(u) = Ownership!Held(r)
    <2>1. to = {}
      BY <1>1, <1>3, <1>4 DEF HeldBy
    <2>2. Masters(u) = {r}
      BY <1>4 DEF HeldBy
    <2> QED
      BY <1>2, <2>1, <2>2 DEF Ownership!Held
  <1>5. ASSUME NEW t \in Rank \X Rank \X Nat, MovingIn(u, t)
        PROVE  Holder(u) = Ownership!Moving(t[2])
    <2>1. Transits(u) = {t} /\ Masters(u) = {} /\ t[2] \in Rank
      BY <1>5 DEF MovingIn
    <2>2. \A d \in Rank : d \in to <=> d = t[2]
      BY <1>1, <2>1
    <2>3. to = {t[2]}
      BY <1>3, <2>1, <2>2
    <2> QED
      BY <1>2, <2>1, <2>3 DEF Ownership!Moving
  <1>6. ASSUME Left(u) PROVE Holder(u) = Ownership!Out
    <2>1. to = {}
      BY <1>1, <1>3, <1>6 DEF Left
    <2> QED
      BY <1>2, <1>6, <2>1 DEF Left, Ownership!Out
  <1> QED
    BY <1>4, <1>5, <1>6

LEMMA HolderInit == Init => Ownership!Init
  <1> SUFFICES ASSUME Init PROVE Ownership!Init
    OBVIOUS
  <1>1. OwnerInv /\ HolderReads
    BY OwnerInit, HolderRead DEF OwnerInv, Shape
  <1>2. ASSUME NEW u \in Particle
        PROVE  Holder(u) \in {Ownership!Held(r) : r \in Rank}
    <2>1. PICK r \in Rank : HeldBy(u, r)
      <3>1. Transits(u) = {}
        BY DEF Init, Transits, Carries, Channels
      <3>2. Masters(u) # {}
        <4>1. PICK at \in [Particle -> {p \in Pos : OwnerOf[p] # NoRank}] :
                ps = [r \in Rank |-> [v \in Particle |->
                        IF OwnerOf[at[v]] = r THEN NewMaster(r, at[v]) ELSE Absent]]
          BY DEF Init
        <4>2. OwnerOf[at[u]] \in Rank
          BY <4>1, GeometryAssumption
        <4>3. ps[OwnerOf[at[u]]][u].kind = "master"
          BY <4>1, <4>2 DEF NewMaster
        <4> QED
          BY <4>2, <4>3 DEF Masters, IsMaster
      <3> QED
        BY <1>1, <3>1, <3>2 DEF OwnerInv, Placed, MovingIn, Left
    <2> QED
      BY <1>1, <2>1 DEF HolderReads
  <1> QED
    BY <1>2 DEF Ownership!Init

LEMMA HolderStep ==
  OwnerInv /\ HolderReads /\ HolderReads' /\ [Next]_vars
    => [Ownership!Next]_([u \in Particle |-> Holder(u)])
  <1> SUFFICES ASSUME OwnerInv, HolderReads, HolderReads', [Next]_vars
               PROVE  Ownership!Next
    OBVIOUS
  <1> DEFINE H == [v \in Particle |-> Holder(v)]
  <1>1. ASSUME NEW u \in Particle
        PROVE  H'[u] = H[u] \/ Ownership!HandOver(u) \/ Ownership!Arrive(u) \/ Ownership!Leave(u)
    <2>1. /\ \A r \in Rank : HeldBy(u, r) => Holder(u) = Ownership!Held(r)
          /\ \A t \in Rank \X Rank \X Nat : MovingIn(u, t) => Holder(u) = Ownership!Moving(t[2])
          /\ Left(u) => Holder(u) = Ownership!Out
      BY DEF HolderReads
    <2>2. /\ \A r \in Rank : HeldBy(u, r)' => Holder(u)' = Ownership!Held(r)
          /\ \A t \in Rank \X Rank \X Nat : MovingIn(u, t)' => Holder(u)' = Ownership!Moving(t[2])
          /\ Left(u)' => Holder(u)' = Ownership!Out
      BY DEF HolderReads
    <2>3. CASE \/ \E r \in Rank : HeldBy(u, r) /\ HeldBy(u, r)'
               \/ \E t, v \in Rank \X Rank \X Nat :
                    t[2] = v[2] /\ MovingIn(u, t) /\ MovingIn(u, v)'
               \/ Left(u) /\ Left(u)'
      BY <2>1, <2>2, <2>3
    <2>4. ASSUME NEW r \in Rank, NEW t \in Rank \X Rank \X Nat,
                 t[2] \in Nbr[r], HeldBy(u, r), MovingIn(u, t)'
          PROVE  Ownership!HandOver(u)
      BY <2>1, <2>2, <2>4 DEF Ownership!HandOver
    <2>5. ASSUME NEW t \in Rank \X Rank \X Nat, MovingIn(u, t), HeldBy(u, t[2])'
          PROVE  Ownership!Arrive(u)
      <3>1. t[2] \in Rank
        OBVIOUS
      <3> QED
        BY <2>1, <2>2, <2>5, <3>1 DEF Ownership!Arrive
    <2>6. ASSUME NEW r \in Rank, HeldBy(u, r), Left(u)'
          PROVE  Ownership!Leave(u)
      BY <2>1, <2>2, <2>6 DEF Ownership!Leave
    <2>7. Moved(u)
      BY OwnerMoves
    <2> QED
      BY <2>3, <2>4, <2>5, <2>6, <2>7 DEF Moved
  <1> QED
    BY <1>1 DEF Ownership!Next

(* Particle by particle, both exchanges together are a hand-over from one owner
   to a neighbour of it, never visible as two owners or as none. *)
THEOREM OwnershipRefined == Spec => ImplementsOwnership
  <1>1. Spec => []OwnerInv
    BY OwnerInit, OwnerNext, PTL DEF Spec
  <1>2. OwnerInv => HolderReads
    BY HolderRead DEF OwnerInv, Shape
  <1> QED
    BY <1>1, <1>2, HolderInit, HolderStep, PTL DEF Spec, ImplementsOwnership, Ownership!Spec

-----------------------------------------------------------------------------
(* The registry: chapters *)

(* What all processes would hold of a particle if they called the kernel in
   lockstep, between two exchanges: who has a copy, the owner among them, and
   whom each marks as having one, too. *)
Chapter == [owner : Rank \cup {NoRank}, pos : Pos, holders : SUBSET Rank,
            told : [Rank -> SUBSET Rank]]

Kept(c, d, ghosts, told) ==
  [kind |-> IF d = c.owner THEN "master" ELSE "ghost", owner |-> c.owner,
   ghosts |-> IF d = c.owner THEN ghosts ELSE {}, told |-> told, pos |-> Image[d][c.pos]]

SlotIn(c, d) == IF d \in c.holders THEN Kept(c, d, c.holders \ {d}, c.told[d]) ELSE Absent

(* To whom d gives a copy, and who drops its own, in the second exchange *)
Spread(c, d) ==
  IF d \in c.holders THEN (Nbr[d] \cap Overlap[c.pos]) \ ({c.owner} \cup c.told[d]) ELSE {}

Retired(c) == {d \in c.holders \ {c.owner} : d \notin Overlap[c.pos]}

NoMarks == [d \in Rank |-> {}]

(* After the first exchange, in which the owner becomes o and the position p *)
Mid(c, o, p) ==
  [owner |-> o, pos |-> p, holders |-> IF o = NoRank THEN {} ELSE c.holders,
   told |-> IF o = NoRank THEN NoMarks ELSE c.told]

(* After the second one *)
Resolved(c) ==
  [owner |-> c.owner, pos |-> c.pos,
   holders |-> (c.holders \ Retired(c)) \cup UNION {Spread(c, s) : s \in Rank},
   told |-> [d \in Rank |-> IF d \in c.holders \ Retired(c)
                            THEN (c.told[d] \cup Spread(c, d)) \ Retired(c) ELSE {}]]

(* What d holds in the second exchange while it has read all but the buffers of P *)
Partly(c, d, P) ==
  IF d \in c.holders \ Retired(c)
  THEN Kept(c, d, ((c.holders \ {d}) \cup UNION {Spread(c, s) : s \in Rank \ P}) \ (Retired(c) \ P),
                  (c.told[d] \cup Spread(c, d)) \ (Retired(c) \ P))
  ELSE IF \E s \in Rank \ P : d \in Spread(c, s) THEN NewGhost(c.owner, Image[d][c.pos])
  ELSE Absent

(* What the owner of c tells d in the first exchange, whose outcome is c1, and
   what s tells d in the second, in which all start from c *)
FateIn(c, c1, d) ==
  IF c1.owner = NoRank THEN [NoFate EXCEPT !.type = "removal"]
  ELSE IF c1.owner = c.owner THEN NoFate
  ELSE IF c1.owner = d THEN [NoFate EXCEPT !.type = "migration", !.ghosts = c.holders \ {d}]
  ELSE [NoFate EXCEPT !.type = "remoteMigration", !.owner = c1.owner]

FirstNote(c, c1, d) ==
  IF d \in c.holders \ {c.owner}
  THEN [update |-> TRUE, pos |-> c1.pos, fate |-> FateIn(c, c1, d)] ELSE Silence

FreshIn(c, s, d) == IF d = c.owner THEN Spread(c, s) ELSE {}

GoneIn(c, s, d) == s \in Retired(c) /\ d \in Nbr[s] \cup {c.owner}

SecondNote(c, s, d) ==
  IF d \in Spread(c, s) \/ FreshIn(c, s, d) # {} \/ GoneIn(c, s, d)
  THEN [copy |-> d \in Spread(c, s), owner |-> c.owner, pos |-> Image[s][c.pos],
        fresh |-> FreshIn(c, s, d), gone |-> GoneIn(c, s, d)]
  ELSE Nothing

(* An owner has a copy where the particle lies, and a process marks only
   neighbours that have a copy. *)
Sound(c) ==
  /\ c \in Chapter
  /\ c.owner = NoRank => c.holders = {}
  /\ c.owner # NoRank => c.owner \in c.holders /\ OwnerOf[c.pos] = c.owner
  /\ \A d \in Rank : c.told[d] \subseteq c.holders \cap Nbr[d]
  /\ \A d \in Rank \ c.holders : c.told[d] = {}

(* The first exchange has made m of the chapter c, the second c1 of m. *)
Turned(c, m, c1) ==
  /\ c.owner # NoRank
  /\ Sound(m)
  /\ m.owner \in c.holders \cup {NoRank}
  /\ m = Mid(c, m.owner, m.pos)
  /\ c1 = Resolved(m)

(* The slot sl of the owner r of c after a time step, the K-th one *)
Pushed(c, r, u, K, sl) ==
  /\ sl = [kind |-> "master", owner |-> r, ghosts |-> c.holders \ {r}, told |-> c.told[r],
           pos |-> sl.pos]
  /\ sl.pos = c.pos \/ (K # 0 /\ u \notin Fixed /\ sl.pos \in Reach[c.pos])

(* The owner has seen to it that its neighbours have the copies they need. *)
Surrounded(c) == c.owner # NoRank => Nbr[c.owner] \cap Overlap[c.pos] \subseteq c.holders

Closed(S) == S \subseteq Rank /\ \A r \in S : Nbr[r] \subseteq S

-----------------------------------------------------------------------------
LEMMA Neighbors ==
  /\ \A r \in Rank : Nbr[r] \subseteq Rank \ {r}
  /\ \A r, s \in Rank : s \in Nbr[r] <=> r \in Nbr[s]
  BY GeometryAssumption, NeighborAssumption

LEMMA SoundFacts ==
  ASSUME NEW c, Sound(c)
  PROVE  /\ c.owner \in Rank \cup {NoRank} /\ c.pos \in Pos /\ c.holders \subseteq Rank
         /\ c.told \in [Rank -> SUBSET Rank]
         /\ c.owner # NoRank => c.owner \in Rank
         /\ c.holders # {} => c.owner # NoRank /\ OwnerOf[c.pos] = c.owner /\ c.owner \in c.holders
         /\ c = [owner |-> c.owner, pos |-> c.pos, holders |-> c.holders, told |-> c.told]
  BY DEF Sound, Chapter

LEMMA SpreadFacts ==
  ASSUME NEW c, Sound(c), NEW s \in Rank
  PROVE  /\ Spread(c, s) \subseteq Nbr[s] /\ Spread(c, s) \subseteq Rank
         /\ s \notin Spread(c, s) /\ c.owner \notin Spread(c, s)
         /\ Spread(c, s) \cap Retired(c) = {}
         /\ Spread(c, s) \subseteq Overlap[c.pos]
         /\ s \notin c.holders => Spread(c, s) = {}
         /\ c.owner = NoRank => Spread(c, s) = {}
  BY Neighbors, SoundFacts DEF Spread, Retired, Sound

LEMMA RetiredFacts ==
  ASSUME NEW c, Sound(c)
  PROVE  Retired(c) \subseteq c.holders /\ Retired(c) \subseteq Rank /\ c.owner \notin Retired(c)
  BY SoundFacts DEF Retired

LEMMA SoundMid ==
  ASSUME NEW c, Sound(c), c.owner # NoRank, NEW o \in c.holders \cup {NoRank},
         NEW p \in Pos, o # NoRank => OwnerOf[p] = o
  PROVE  /\ Sound(Mid(c, o, p))
         /\ Mid(c, o, p).owner = o /\ Mid(c, o, p).pos = p
         /\ Mid(c, o, p).holders \subseteq c.holders
  <1>1. /\ c.holders \subseteq Rank /\ c.told \in [Rank -> SUBSET Rank] /\ c.owner \in c.holders
    BY SoundFacts DEF Sound
  <1>2. CASE o = NoRank
    <2>1. Mid(c, o, p) = [owner |-> o, pos |-> p, holders |-> {}, told |-> NoMarks]
      BY <1>2 DEF Mid
    <2> QED
      BY <1>2, <2>1 DEF Sound, Chapter, NoMarks
  <1>3. CASE o # NoRank
    <2>1. Mid(c, o, p) = [owner |-> o, pos |-> p, holders |-> c.holders, told |-> c.told]
      BY <1>3 DEF Mid
    <2>2. o \in Rank
      BY <1>1, <1>3
    <2> QED
      BY <1>1, <1>3, <2>1, <2>2 DEF Sound, Chapter
  <1> QED
    BY <1>2, <1>3

LEMMA ResolvedFields ==
  ASSUME NEW c, NEW d \in Rank
  PROVE  /\ Resolved(c).owner = c.owner /\ Resolved(c).pos = c.pos
         /\ Resolved(c).holders = (c.holders \ Retired(c)) \cup UNION {Spread(c, s) : s \in Rank}
         /\ Resolved(c).told[d] = IF d \in c.holders \ Retired(c)
                                  THEN (c.told[d] \cup Spread(c, d)) \ Retired(c) ELSE {}
  BY DEF Resolved

LEMMA SoundResolved ==
  ASSUME NEW c, Sound(c)
  PROVE  Sound(Resolved(c)) /\ Surrounded(Resolved(c))
  <1> DEFINE w == Resolved(c)
             new == UNION {Spread(c, s) : s \in Rank}
  <1>1. /\ c.owner \in Rank \cup {NoRank} /\ c.pos \in Pos /\ c.holders \subseteq Rank
        /\ c.told \in [Rank -> SUBSET Rank]
    BY SoundFacts
  <1>2. \A s \in Rank : /\ Spread(c, s) \subseteq Nbr[s] /\ Spread(c, s) \subseteq Rank
                        /\ Spread(c, s) \cap Retired(c) = {}
                        /\ Spread(c, s) \subseteq new
                        /\ c.owner = NoRank => Spread(c, s) = {}
    BY SpreadFacts
  <1>3. new \subseteq Rank
    BY <1>2
  <1>4. /\ w.owner = c.owner /\ w.pos = c.pos /\ w.holders = (c.holders \ Retired(c)) \cup new
        /\ \A d \in Rank : w.told[d] = IF d \in c.holders \ Retired(c)
                                       THEN (c.told[d] \cup Spread(c, d)) \ Retired(c) ELSE {}
    BY ResolvedFields, RankAssumption
  <1>5. w \in Chapter
    <2>1. w.told \in [Rank -> SUBSET Rank]
      <3>1. \A d \in Rank : (IF d \in c.holders \ Retired(c)
                             THEN (c.told[d] \cup Spread(c, d)) \ Retired(c) ELSE {}) \in SUBSET Rank
        BY <1>1, <1>2
      <3> QED
        BY <3>1 DEF Resolved
    <2>2. w = [owner |-> w.owner, pos |-> w.pos, holders |-> w.holders, told |-> w.told]
      BY DEF Resolved
    <2>3. w.holders \in SUBSET Rank
      BY <1>1, <1>3, <1>4
    <2> HIDE DEF w, new
    <2> QED
      BY <1>1, <1>4, <2>1, <2>2, <2>3 DEF Chapter
  <1> HIDE DEF new
  <1>6. c.owner = NoRank => w.holders = {}
    <2>1. c.owner = NoRank => new = {}
      BY <1>2 DEF new
    <2> QED
      BY <1>4, <2>1 DEF Sound
  <1>7. c.owner # NoRank => c.owner \in w.holders
    BY <1>4, RetiredFacts DEF Sound
  <1>8. \A d \in Rank : w.told[d] \subseteq w.holders \cap Nbr[d]
    <2> SUFFICES ASSUME NEW d \in Rank
                 PROVE  w.told[d] \subseteq w.holders \cap Nbr[d]
      OBVIOUS
    <2>1. CASE d \in c.holders \ Retired(c)
      <3>1. w.told[d] = (c.told[d] \cup Spread(c, d)) \ Retired(c)
        BY <1>4, <2>1
      <3>2. c.told[d] \subseteq c.holders \cap Nbr[d] /\ Spread(c, d) \subseteq new \cap Nbr[d]
        BY <1>2 DEF Sound
      <3> HIDE DEF w
      <3> QED
        BY <1>4, <3>1, <3>2
    <2>2. CASE d \notin c.holders \ Retired(c)
      BY <1>4, <2>2
    <2> QED
      BY <2>1, <2>2
  <1>9. \A d \in Rank \ w.holders : w.told[d] = {}
    BY <1>4
  <1>10. c.owner # NoRank => Nbr[c.owner] \cap Overlap[c.pos] \subseteq w.holders
    <2> SUFFICES ASSUME c.owner # NoRank, NEW d \in Nbr[c.owner] \cap Overlap[c.pos]
                 PROVE  d \in w.holders
      OBVIOUS
    <2>1. c.owner \in Rank /\ c.owner \in c.holders /\ d # c.owner
      BY <1>1, Neighbors DEF Sound
    <2>2. CASE d \in c.told[c.owner]
      <3>1. d \in c.holders /\ d \notin Retired(c)
        BY <2>1, <2>2 DEF Sound, Retired
      <3> QED
        BY <1>4, <3>1
    <2>3. CASE d \notin c.told[c.owner]
      <3>1. d \in Spread(c, c.owner)
        BY <2>1, <2>3 DEF Spread
      <3> QED
        BY <1>2, <1>4, <2>1, <3>1
    <2> QED
      BY <2>2, <2>3
  <1> HIDE DEF w
  <1>11. Sound(w)
    BY <1>4, <1>5, <1>6, <1>7, <1>8, <1>9 DEF Sound
  <1>12. Surrounded(w)
    BY <1>4, <1>10 DEF Surrounded
  <1> QED
    BY <1>11, <1>12 DEF w

-----------------------------------------------------------------------------
(* The second exchange, read off the chapter it starts from *)

LEMMA SecondNoteFields ==
  ASSUME NEW c, NEW s, NEW d
  PROVE  LET b == SecondNote(c, s, d) IN
         /\ b.copy <=> d \in Spread(c, s)
         /\ b.fresh = FreshIn(c, s, d)
         /\ b.gone <=> GoneIn(c, s, d)
         /\ b.copy \/ b.fresh # {} \/ b.gone => b.owner = c.owner /\ b.pos = Image[s][c.pos]
  <1> DEFINE copy  == d \in Spread(c, s)
             fresh == FreshIn(c, s, d)
             gone  == GoneIn(c, s, d)
  <1>1. CASE copy \/ fresh # {} \/ gone
    <2>1. SecondNote(c, s, d) = [copy |-> copy, owner |-> c.owner, pos |-> Image[s][c.pos],
                                 fresh |-> fresh, gone |-> gone]
      BY <1>1 DEF SecondNote
    <2>2. copy \in BOOLEAN /\ gone \in BOOLEAN
      BY DEF GoneIn
    <2> HIDE DEF copy, fresh, gone
    <2>3. LET b == SecondNote(c, s, d) IN
          b.copy = copy /\ b.fresh = fresh /\ b.gone = gone /\ b.owner = c.owner /\ b.pos = Image[s][c.pos]
      BY <2>1
    <2> QED
      BY <2>2, <2>3 DEF copy, fresh, gone
  <1>2. CASE ~(copy \/ fresh # {} \/ gone)
    <2>1. SecondNote(c, s, d) = Nothing
      BY <1>2 DEF SecondNote
    <2> QED
      BY <1>2, <2>1 DEF Nothing
  <1> QED
    BY <1>1, <1>2

(* What a copy is made of *)
LEMMA KeptFields ==
  ASSUME NEW c, NEW d, NEW g, NEW t
  PROVE  LET sl == Kept(c, d, g, t) IN
         /\ sl.kind = (IF d = c.owner THEN "master" ELSE "ghost") /\ sl.owner = c.owner
         /\ sl.ghosts = (IF d = c.owner THEN g ELSE {}) /\ sl.told = t /\ sl.pos = Image[d][c.pos]
  BY DEF Kept

LEMMA KeptTold ==
  ASSUME NEW c, NEW d, NEW g, NEW t, NEW t1, NEW sl, NEW w,
         sl = Kept(c, d, g, t), w = [sl EXCEPT !.told = t1]
  PROVE  w = Kept(c, d, g, t1)
  <1> DEFINE kd == IF d = c.owner THEN "master" ELSE "ghost"
             gh == IF d = c.owner THEN g ELSE {}
             p  == Image[d][c.pos]
  <1>1. \A a : Kept(c, d, g, a) = [kind |-> kd, owner |-> c.owner, ghosts |-> gh, told |-> a, pos |-> p]
    BY DEF Kept
  <1> HIDE DEF kd, gh, p
  <1> QED
    BY <1>1

LEMMA KeptGhost ==
  ASSUME NEW c, NEW d, d # c.owner, NEW g
  PROVE  Kept(c, d, g, {}) = NewGhost(c.owner, Image[d][c.pos])
  BY DEF Kept, NewGhost

(* Before any buffer is read: the copy of d has been dropped or marked. *)
LEMMA PartlyAll ==
  ASSUME NEW c, Sound(c), NEW d \in Rank, NEW P, Nbr[d] \cup {d} \subseteq P,
         d = c.owner => c.holders \subseteq P
  PROVE  Partly(c, d, P) = IF d \in c.holders \ Retired(c)
                           THEN [SlotIn(c, d) EXCEPT !.told = c.told[d] \cup Spread(c, d)]
                           ELSE Absent
  <1>1. \A s \in Rank \ P : d \notin Spread(c, s)
    BY SpreadFacts, Neighbors
  <1>2. CASE d \notin c.holders \ Retired(c)
    BY <1>1, <1>2 DEF Partly
  <1>3. CASE d \in c.holders \ Retired(c)
    <2> DEFINE told == c.told[d] \cup Spread(c, d)
               all  == ((c.holders \ {d}) \cup UNION {Spread(c, s) : s \in Rank \ P}) \ (Retired(c) \ P)
    <2>1. told \ (Retired(c) \ P) = told
      BY SpreadFacts DEF Sound
    <2>2. d = c.owner => all = c.holders \ {d}
      <3> SUFFICES ASSUME d = c.owner
                   PROVE  all = c.holders \ {d}
        OBVIOUS
      <3>1. \A s \in Rank \ P : Spread(c, s) = {}
        BY SpreadFacts
      <3>2. UNION {Spread(c, s) : s \in Rank \ P} = {}
        BY <3>1
      <3>3. Retired(c) \ P = {}
        BY RetiredFacts
      <3> QED
        BY <3>2, <3>3
    <2>3. Partly(c, d, P) = Kept(c, d, all, told)
      BY <1>3, <2>1 DEF Partly
    <2>4. Kept(c, d, all, told) = Kept(c, d, c.holders \ {d}, told)
      <3> HIDE DEF all, told
      <3> QED
        BY <2>2 DEF Kept
    <2> DEFINE then == [SlotIn(c, d) EXCEPT !.told = told]
    <2>5. then = Kept(c, d, c.holders \ {d}, told)
      <3>1. SlotIn(c, d) = Kept(c, d, c.holders \ {d}, c.told[d])
        BY <1>3 DEF SlotIn
      <3>2. then = [SlotIn(c, d) EXCEPT !.told = told]
        OBVIOUS
      <3> HIDE DEF told, then
      <3> QED
        BY <3>1, <3>2, KeptTold
    <2> QED
      BY <1>3, <2>3, <2>4, <2>5
  <1> QED
    BY <1>2, <1>3

(* When all are read: the next chapter *)
LEMMA PartlyNone ==
  ASSUME NEW c, Sound(c), NEW d \in Rank
  PROVE  Partly(c, d, {}) = SlotIn(Resolved(c), d)
  <1> DEFINE w    == Resolved(c)
             new  == UNION {Spread(c, s) : s \in Rank}
             told == (c.told[d] \cup Spread(c, d)) \ Retired(c)
  <1>1. /\ w.owner = c.owner /\ w.pos = c.pos /\ w.holders = (c.holders \ Retired(c)) \cup new
        /\ w.told[d] = IF d \in c.holders \ Retired(c) THEN told ELSE {}
    BY ResolvedFields
  <1>2. d \in new <=> \E s \in Rank : d \in Spread(c, s)
    OBVIOUS
  <1>3. new \cap Retired(c) = {}
    BY SpreadFacts
  <1>4. Rank \ {} = Rank /\ Retired(c) \ {} = Retired(c)
    OBVIOUS
  <1>5. d = c.owner => d \notin new
    BY SpreadFacts
  <1>6. CASE d \in c.holders \ Retired(c)
    <2>1. Partly(c, d, {}) = Kept(c, d, ((c.holders \ {d}) \cup new) \ Retired(c), told)
      BY <1>4, <1>6 DEF Partly
    <2> HIDE DEF new, told
    <2>2. SlotIn(w, d) = Kept(w, d, w.holders \ {d}, told)
      <3> HIDE DEF w
      <3> QED
        BY <1>1, <1>6 DEF SlotIn
    <2>3. d = c.owner => ((c.holders \ {d}) \cup new) \ Retired(c) = w.holders \ {d}
      <3> HIDE DEF w
      <3> QED
        BY <1>1, <1>3, <1>5
    <2>4. Kept(w, d, w.holders \ {d}, told) = Kept(c, d, ((c.holders \ {d}) \cup new) \ Retired(c), told)
      <3> HIDE DEF w
      <3> QED
        BY <1>1, <2>3 DEF Kept
    <2> QED
      BY <2>1, <2>2, <2>4 DEF w
  <1>7. CASE d \notin c.holders \ Retired(c)
    <2>1. d # c.owner
      BY <1>7, RetiredFacts, RankAssumption DEF Sound
    <2>2. Partly(c, d, {}) = IF d \in new THEN NewGhost(c.owner, Image[d][c.pos]) ELSE Absent
      BY <1>2, <1>4, <1>7 DEF Partly
    <2> HIDE DEF w, new
    <2>3. SlotIn(w, d) = IF d \in new THEN Kept(w, d, w.holders \ {d}, {}) ELSE Absent
      BY <1>1, <1>7 DEF SlotIn
    <2>4. Kept(w, d, w.holders \ {d}, {}) = NewGhost(c.owner, Image[d][c.pos])
      BY <1>1, <2>1, KeptGhost
    <2> QED
      BY <2>2, <2>3, <2>4 DEF w
  <1> QED
    BY <1>6, <1>7

(* Reading the buffer of s *)
LEMMA PartlyRead ==
  ASSUME ImagesAgree, NEW c, Sound(c), NEW d \in Rank, NEW P, NEW s \in Rank, s \in P
  PROVE  /\ ResolutionNoteChecks(d, Partly(c, d, P), SecondNote(c, s, d))
         /\ SlotAfterResolutionNote(d, s, Partly(c, d, P), SecondNote(c, s, d)) = Partly(c, d, P \ {s})
  <1> DEFINE n    == SecondNote(c, s, d)
             sl   == Partly(c, d, P)
             got  == AfterCopy(d, sl, n)
             less == IF n.gone /\ n.owner = d THEN {s} ELSE {}
             lost == IF n.gone THEN {s} ELSE {}
  <1>1. /\ n.copy <=> d \in Spread(c, s)
        /\ n.fresh = FreshIn(c, s, d)
        /\ n.gone <=> GoneIn(c, s, d)
        /\ n.copy \/ n.fresh # {} \/ n.gone => n.owner = c.owner /\ n.pos = Image[s][c.pos]
    BY SecondNoteFields
  <1>2. Rank \ (P \ {s}) = (Rank \ P) \cup {s} /\ Retired(c) \ (P \ {s}) = (Retired(c) \ P) \cup (Retired(c) \cap {s})
    OBVIOUS
  <1>3. d # c.owner => n.fresh = {} /\ less = {}
    BY <1>1 DEF FreshIn
  <1>4. CASE d \in c.holders \ Retired(c)
    <2> DEFINE told(Q) == (c.told[d] \cup Spread(c, d)) \ (Retired(c) \ Q)
               more(Q) == UNION {Spread(c, q) : q \in Rank \ Q}
               all(Q)  == ((c.holders \ {d}) \cup more(Q)) \ (Retired(c) \ Q)
    <2>1. sl = Kept(c, d, all(P), told(P)) /\ Partly(c, d, P \ {s}) = Kept(c, d, all(P \ {s}), told(P \ {s}))
      BY <1>4 DEF Partly
    <2>2. told(P \ {s}) = told(P) \ lost
      <3>1. s \in c.told[d] \cup Spread(c, d) => d \in Nbr[s]
        BY SpreadFacts, Neighbors DEF Sound
      <3>2. s \in Retired(c) /\ s \in c.told[d] \cup Spread(c, d) => n.gone
        BY <1>1, <3>1 DEF GoneIn
      <3>3. n.gone => s \in Retired(c)
        BY <1>1 DEF GoneIn
      <3> HIDE DEF n
      <3> QED
        BY <1>2, <3>2, <3>3
    <2>3. d = c.owner => all(P \ {s}) = (all(P) \cup n.fresh) \ less
      <3> SUFFICES ASSUME d = c.owner
                   PROVE  all(P \ {s}) = (all(P) \cup n.fresh) \ less
        OBVIOUS
      <3>1. n.fresh = Spread(c, s)
        BY <1>1 DEF FreshIn
      <3>2. less = Retired(c) \cap {s}
        BY <1>1 DEF GoneIn
      <3>3. more(P \ {s}) = more(P) \cup Spread(c, s)
        <4>1. \A e : e \in more(P \ {s}) <=> \E q \in Rank \ (P \ {s}) : e \in Spread(c, q)
          OBVIOUS
        <4>2. \A e : e \in more(P) <=> \E q \in Rank \ P : e \in Spread(c, q)
          OBVIOUS
        <4> HIDE DEF more
        <4> QED
          BY <4>1, <4>2
      <3>4. Spread(c, s) \cap Retired(c) = {}
        BY SpreadFacts
      <3> HIDE DEF n, less, more
      <3> QED
        BY <1>2, <3>1, <3>2, <3>3, <3>4
    <2> HIDE DEF told, all, n, sl
    <2>4. sl.kind = (IF d = c.owner THEN "master" ELSE "ghost") /\ sl.kind # "none"
      BY <2>1, KeptFields
    <2>5. got = sl
      BY <2>4 DEF AfterCopy
    <2>6. ResolutionNoteChecks(d, sl, n)
      BY <1>1, <2>4, <2>5 DEF ResolutionNoteChecks
    <2> DEFINE then == SlotAfterResolutionNote(d, s, sl, n)
               gh   == (sl.ghosts \cup n.fresh) \ less
               to   == sl.told \ lost
    <2>7. then = [sl EXCEPT !.ghosts = gh, !.told = to]
      BY <2>1, <2>5 DEF SlotAfterResolutionNote, Kept
    <2>8. then = Kept(c, d, all(P \ {s}), told(P \ {s}))
      <3>1. sl.ghosts = (IF d = c.owner THEN all(P) ELSE {}) /\ sl.told = told(P)
        BY <2>1, KeptFields
      <3>2. gh = IF d = c.owner THEN all(P \ {s}) ELSE {}
        BY <1>3, <2>3, <3>1
      <3>3. to = told(P \ {s})
        BY <2>2, <3>1
      <3> DEFINE kd  == IF d = c.owner THEN "master" ELSE "ghost"
                 old == IF d = c.owner THEN all(P) ELSE {}
                 p   == Image[d][c.pos]
      <3>4. sl = [kind |-> kd, owner |-> c.owner, ghosts |-> old, told |-> told(P), pos |-> p]
        BY <2>1 DEF Kept
      <3>5. Kept(c, d, all(P \ {s}), told(P \ {s})) =
              [kind |-> kd, owner |-> c.owner, ghosts |-> gh, told |-> to, pos |-> p]
        BY <3>2, <3>3 DEF Kept
      <3> HIDE DEF less, lost, then, gh, to, kd, old, p
      <3>6. then = [kind |-> kd, owner |-> c.owner, ghosts |-> gh, told |-> to, pos |-> p]
        BY <2>7, <3>4
      <3> QED
        BY <3>5, <3>6
    <2> QED
      BY <2>1, <2>6, <2>8 DEF sl, n
  <1>5. CASE d \notin c.holders \ Retired(c)
    <2>1. d # c.owner
      BY <1>5, RetiredFacts, RankAssumption DEF Sound
    <2>2. sl = IF \E q \in Rank \ P : d \in Spread(c, q) THEN NewGhost(c.owner, Image[d][c.pos]) ELSE Absent
      BY <1>5 DEF Partly
    <2>3. Partly(c, d, P \ {s}) = IF (\E q \in Rank \ P : d \in Spread(c, q)) \/ d \in Spread(c, s)
                                  THEN NewGhost(c.owner, Image[d][c.pos]) ELSE Absent
      BY <1>2, <1>5 DEF Partly
    <2>4. d \in Spread(c, s) => NewGhost(n.owner, Image[d][n.pos]) = NewGhost(c.owner, Image[d][c.pos])
      BY <1>1, SpreadFacts, SoundFacts DEF ImagesAgree, Sound
    <2> HIDE DEF n, sl
    <2>5. sl.kind = "none" <=> ~ \E q \in Rank \ P : d \in Spread(c, q)
      BY <2>2 DEF NewGhost, Absent
    <2>6. got = Partly(c, d, P \ {s})
      BY <1>1, <2>2, <2>3, <2>4, <2>5 DEF AfterCopy
    <2>7. got.kind # "master" /\ got.ghosts = {} /\ got.told = {}
      BY <2>3, <2>6 DEF NewGhost, Absent
    <2>8. ResolutionNoteChecks(d, sl, n)
      <3>1. n.gone => n.owner # d
        BY <1>1, <2>1
      <3> QED
        BY <1>3, <2>1, <2>7, <3>1 DEF ResolutionNoteChecks
    <2> DEFINE then == SlotAfterResolutionNote(d, s, sl, n)
    <2>9. then = [got EXCEPT !.ghosts = {}, !.told = {}]
      BY <1>3, <2>1, <2>7 DEF SlotAfterResolutionNote
    <2>10. then = got
      <3> HIDE DEF then
      <3>1. CASE got = Absent
        <4>1. got = [kind |-> "none", owner |-> NoRank, ghosts |-> {}, told |-> {}, pos |-> Nowhere]
          BY <3>1 DEF Absent
        <4> HIDE DEF got
        <4>2. then = [kind |-> "none", owner |-> NoRank, ghosts |-> {}, told |-> {}, pos |-> Nowhere]
          BY <2>9, <4>1
        <4> QED
          BY <4>1, <4>2
      <3>2. CASE got = NewGhost(c.owner, Image[d][c.pos])
        <4> DEFINE o == c.owner
                   p == Image[d][c.pos]
        <4>1. got = [kind |-> "ghost", owner |-> o, ghosts |-> {}, told |-> {}, pos |-> p]
          BY <3>2 DEF NewGhost
        <4> HIDE DEF got, o, p
        <4>2. then = [kind |-> "ghost", owner |-> o, ghosts |-> {}, told |-> {}, pos |-> p]
          BY <2>9, <4>1
        <4> QED
          BY <4>1, <4>2
      <3> QED
        BY <2>3, <2>6, <3>1, <3>2
    <2> QED
      BY <2>6, <2>8, <2>10 DEF sl, n
  <1> QED
    BY <1>4, <1>5

-----------------------------------------------------------------------------
(* The first exchange, read off the chapter it starts from *)

LEMMA MidFields ==
  ASSUME NEW c, NEW o, NEW p
  PROVE  /\ Mid(c, o, p).owner = o /\ Mid(c, o, p).pos = p
         /\ Mid(c, o, p).holders = IF o = NoRank THEN {} ELSE c.holders
         /\ Mid(c, o, p).told = IF o = NoRank THEN NoMarks ELSE c.told
  BY DEF Mid

LEMMA SilentNote ==
  ASSUME NEW d, NEW s, NEW sl
  PROVE  MigrationNoteChecks(d, s, sl, Silence) /\ SlotAfterMigrationNote(d, sl, Silence) = sl
  BY DEF MigrationNoteChecks, SlotAfterMigrationNote, Silence, NoFate

LEMMA NothingNote ==
  ASSUME NEW d, NEW s, NEW sl \in Slot
  PROVE  ResolutionNoteChecks(d, sl, Nothing) /\ SlotAfterResolutionNote(d, s, sl, Nothing) = sl
  <1>1. AfterCopy(d, sl, Nothing) = sl
    BY DEF AfterCopy, Nothing
  <1> DEFINE then == SlotAfterResolutionNote(d, s, sl, Nothing)
  <1>2. then = [sl EXCEPT !.ghosts = sl.ghosts, !.told = sl.told]
    <2>1. (sl.ghosts \cup Nothing.fresh) \ (IF Nothing.gone /\ Nothing.owner = d THEN {s} ELSE {}) = sl.ghosts
      BY DEF Nothing
    <2>2. sl.told \ (IF Nothing.gone THEN {s} ELSE {}) = sl.told
      BY DEF Nothing
    <2> QED
      BY <1>1, <2>1, <2>2 DEF SlotAfterResolutionNote, Slot
  <1>3. then = sl
    <2> HIDE DEF then
    <2> QED
      BY <1>2 DEF Slot
  <1> QED
    BY <1>1, <1>3 DEF ResolutionNoteChecks, Nothing

LEMMA FirstRead ==
  ASSUME ImagesAgree, NEW c, Sound(c), NEW m, NEW c1, Turned(c, m, c1), NEW d \in Rank, d # c.owner
  PROVE  /\ MigrationNoteChecks(d, c.owner, SlotIn(c, d), FirstNote(c, m, d))
         /\ SlotAfterMigrationNote(d, SlotIn(c, d), FirstNote(c, m, d)) = SlotIn(m, d)
  <1> DEFINE o  == m.owner
             p  == m.pos
             n  == FirstNote(c, m, d)
             sl == SlotIn(c, d)
  <1>1. /\ m.holders = IF o = NoRank THEN {} ELSE c.holders
        /\ m.told = IF o = NoRank THEN NoMarks ELSE c.told
    <2>1. m = Mid(c, o, p)
      BY DEF Turned
    <2> HIDE DEF o, p
    <2>2. /\ Mid(c, o, p).holders = IF o = NoRank THEN {} ELSE c.holders
          /\ Mid(c, o, p).told = IF o = NoRank THEN NoMarks ELSE c.told
      BY MidFields
    <2> QED
      BY <2>1, <2>2
  <1>2. p \in Pos /\ (o # NoRank => OwnerOf[p] = o) /\ c.owner \in Rank
    BY SoundFacts DEF Turned, Sound, Chapter
  <1>3. CASE d \notin c.holders
    <2>1. n = Silence
      BY <1>3 DEF FirstNote
    <2>2. SlotIn(m, d) = sl
      BY <1>1, <1>3 DEF SlotIn
    <2> QED
      BY <2>1, <2>2, SilentNote
  <1>4. CASE d \in c.holders
    <2> DEFINE g == c.told[d]
               q == Image[d][p]
               w == c.owner
               up == Updated(d, sl, n)
    <2>1. n.update /\ n.pos = p /\ n.fate = FateIn(c, m, d)
      <3>1. n = [update |-> TRUE, pos |-> p, fate |-> FateIn(c, m, d)]
        BY <1>4 DEF FirstNote
      <3> HIDE DEF n
      <3> QED
        BY <3>1
    <2>2. sl = [kind |-> "ghost", owner |-> w, ghosts |-> {}, told |-> g, pos |-> Image[d][c.pos]]
      BY <1>4 DEF SlotIn, Kept
    <2>3. up = [kind |-> "ghost", owner |-> w, ghosts |-> {}, told |-> g, pos |-> q]
      <3> DEFINE then == [sl EXCEPT !.pos = q]
      <3>1. up = then
        BY <2>1 DEF Updated
      <3>2. then = [kind |-> "ghost", owner |-> w, ghosts |-> {}, told |-> g, pos |-> q]
        <4>1. then = [sl EXCEPT !.pos = q]
          OBVIOUS
        <4> HIDE DEF sl, then, g, q, w
        <4> QED
          BY <2>2, <4>1
      <3> QED
        BY <3>1, <3>2
    <2> DEFINE then == SlotAfterMigrationNote(d, sl, n)
               f    == FateIn(c, m, d)
    <2> HIDE DEF sl, n, up, w, g
    <2>4. CASE o = NoRank
      <3>1. f.type = "removal"
        BY <2>4 DEF FateIn, NoFate
      <3>2. then = Absent /\ SlotIn(m, d) = Absent
        BY <1>1, <2>1, <2>4, <3>1 DEF SlotAfterMigrationNote, SlotIn
      <3> QED
        BY <2>1, <2>2, <3>1, <3>2 DEF MigrationNoteChecks, FateChecks, sl, n, w
    <2>5. CASE o # NoRank /\ o = c.owner
      <3>1. f = NoFate
        BY <2>5 DEF FateIn
      <3>2. then = up
        BY <2>1, <3>1 DEF SlotAfterMigrationNote, NoFate, up
      <3>3. SlotIn(m, d) = [kind |-> "ghost", owner |-> w, ghosts |-> {}, told |-> g, pos |-> q]
        BY <1>1, <1>4, <2>5 DEF SlotIn, Kept, w, g
      <3> QED
        BY <2>1, <2>2, <2>3, <3>1, <3>2, <3>3 DEF MigrationNoteChecks, FateChecks, NoFate, sl, n, w
    <2>6. CASE o # NoRank /\ o # c.owner /\ o = d
      <3> DEFINE gh == c.holders \ {d}
      <3>1. f.type = "migration" /\ f.ghosts = gh
        BY <2>6 DEF FateIn, NoFate
      <3>2. q = p /\ OwnerOf[p] = d
        BY <1>2, <2>6 DEF ImagesAgree
      <3> HIDE DEF gh, q, f
      <3>3. then = [up EXCEPT !.kind = "master", !.owner = d, !.ghosts = gh]
        BY <2>1, <3>1 DEF SlotAfterMigrationNote, up, f
      <3>4. then = [kind |-> "master", owner |-> d, ghosts |-> gh, told |-> g, pos |-> q]
        <4> HIDE DEF then
        <4> QED
          BY <2>3, <3>3
      <3>5. SlotIn(m, d) = [kind |-> "master", owner |-> d, ghosts |-> gh, told |-> g, pos |-> q]
        BY <1>1, <1>4, <2>6 DEF SlotIn, Kept, g, gh, q
      <3>6. MigrationNoteChecks(d, w, sl, n)
        <4>1. Updated(d, sl, n).pos = p
          BY <2>3, <3>2 DEF up
        <4> QED
          BY <2>1, <2>2, <3>1, <3>2, <4>1 DEF MigrationNoteChecks, FateChecks, f
      <3> QED
        BY <3>4, <3>5, <3>6 DEF sl, n, w
    <2>7. CASE o # NoRank /\ o # c.owner /\ o # d
      <3>1. f.type = "remoteMigration" /\ f.owner = o
        BY <2>7 DEF FateIn, NoFate
      <3> HIDE DEF q, f
      <3>2. then = [up EXCEPT !.owner = o]
        BY <2>1, <3>1 DEF SlotAfterMigrationNote, up, f
      <3>3. then = [kind |-> "ghost", owner |-> o, ghosts |-> {}, told |-> g, pos |-> q]
        <4> HIDE DEF then, o
        <4> QED
          BY <2>3, <3>2
      <3>4. SlotIn(m, d) = [kind |-> "ghost", owner |-> o, ghosts |-> {}, told |-> g, pos |-> q]
        BY <1>1, <1>4, <2>7 DEF SlotIn, Kept, g, q
      <3>5. MigrationNoteChecks(d, w, sl, n)
        BY <2>1, <2>2, <2>7, <3>1 DEF MigrationNoteChecks, FateChecks, f
      <3> QED
        BY <3>3, <3>4, <3>5 DEF sl, n, w
    <2> QED
      BY <2>4, <2>5, <2>6, <2>7
  <1> QED
    BY <1>3, <1>4

(* The walk of the owner over its masters in the first exchange *)
LEMMA WalkChapter ==
  ASSUME ImagesAgree, StepsSeen, StoreOK, NEW r \in Rank, NEW u \in Particle, Communicates(u),
         NEW c, Sound(c), c.owner = r, NEW K \in Nat, K = 0 \/ Surrounded(c),
         Pushed(c, r, u, K, ps[r][u])
  PROVE  LET o == NewOwner(r, u)
             p == MappedPos(r, u)
             m == Mid(c, o, p)
         IN  /\ IsHandled(r, u)
             /\ o \in c.holders \cup {NoRank} /\ p \in Pos /\ (o # NoRank => OwnerOf[p] = o)
             /\ Migrates(r, u) => o \in ps[r][u].ghosts
             /\ SlotAfterMigration(r, u) = SlotIn(m, r)
             /\ \A d \in Rank : MigrationNoteFor(r, d, u) = FirstNote(c, m, d)
  <1> DEFINE o  == NewOwner(r, u)
             p  == MappedPos(r, u)
             m  == Mid(c, o, p)
             sl == ps[r][u]
             q  == sl.pos
             gh == c.holders \ {r}
             t  == c.told[r]
  <1>1. /\ c.pos \in Pos /\ OwnerOf[c.pos] = r /\ r \in c.holders /\ r # NoRank /\ c.holders \subseteq Rank
        /\ c.told \in [Rank -> SUBSET Rank]
    BY SoundFacts, RankAssumption DEF Sound
  <1>2. /\ sl = [kind |-> "master", owner |-> r, ghosts |-> gh, told |-> t, pos |-> q]
        /\ q = c.pos \/ (K # 0 /\ u \notin Fixed /\ q \in Reach[c.pos])
    BY DEF Pushed
  <1> HIDE DEF q, gh, t
  <1>3. sl.kind = "master" /\ sl.owner = r /\ sl.ghosts = gh /\ sl.told = t
    BY <1>2
  <1>4. IsHandled(r, u)
    BY <1>3 DEF IsHandled, IsMaster
  <1>5. p \in Pos /\ o \in Nbr[r] \cup {r, NoRank} /\ Nbr[r] \subseteq Rank \ {r}
    BY WalkType
  <1>6. o # NoRank => OwnerOf[p] = o
    BY DEF NewOwner, FindContaining
  <1>7. o \in c.holders \cup {NoRank}
    <2>1. CASE q = c.pos
      <3>1. p = c.pos
        BY <1>1, <2>1 DEF MappedPos, ImagesAgree, q
      <3> QED
        BY <1>1, <1>6, <3>1
    <2>2. CASE q # c.pos
      <3>1. K # 0 /\ u \notin Fixed /\ q \in Reach[c.pos] /\ Surrounded(c)
        BY <1>2, <2>2
      <3>2. p = Wrap[q]
        BY <3>1 DEF MappedPos, q
      <3>3. o \in Nbr[r] => o \in Overlap[c.pos]
        <4>1. SUFFICES ASSUME o \in Nbr[r] PROVE o \in Overlap[c.pos]
          OBVIOUS
        <4>2. o # NoRank /\ OwnerOf[Wrap[q]] = o
          BY <1>5, <1>6, <3>2, <4>1, RankAssumption
        <4> HIDE DEF o
        <4> QED
          BY <1>1, <3>1, <4>1, <4>2 DEF StepsSeen
      <3>4. o \in Nbr[r] => o \in c.holders
        BY <1>1, <3>1, <3>3 DEF Surrounded
      <3> QED
        BY <1>1, <1>5, <3>4
    <2> QED
      BY <2>1, <2>2
  <1>8. Migrates(r, u) => o \in sl.ghosts
    BY <1>3, <1>7 DEF Migrates, gh
  <1>9. /\ m.owner = o /\ m.pos = p /\ m.holders = (IF o = NoRank THEN {} ELSE c.holders)
        /\ m.told = IF o = NoRank THEN NoMarks ELSE c.told
    BY MidFields
  <1>10. SlotAfterMigration(r, u) = SlotIn(m, r)
    <2> DEFINE then == SlotAfterMigration(r, u)
    <2>1. CASE o = NoRank
      <3>1. FlowsOut(r, u) /\ ~Migrates(r, u)
        BY <1>4, <2>1 DEF FlowsOut, Migrates
      <3>2. then = Absent
        BY <3>1 DEF SlotAfterMigration
      <3> QED
        BY <1>9, <2>1, <3>2 DEF SlotIn
    <2>2. CASE o = r
      <3>1. ~FlowsOut(r, u) /\ ~Migrates(r, u)
        BY <1>1, <2>2 DEF FlowsOut, Migrates
      <3>2. then = [sl EXCEPT !.pos = p]
        BY <1>4, <3>1 DEF SlotAfterMigration
      <3>3. Image[r][p] = p
        BY <1>1, <1>5, <1>6, <2>2 DEF ImagesAgree
      <3>4. SlotIn(m, r) = [kind |-> "master", owner |-> r, ghosts |-> gh, told |-> t, pos |-> p]
        <4> HIDE DEF m
        <4> QED
          BY <1>1, <1>9, <2>2, <3>3 DEF SlotIn, Kept, gh, t
      <3> HIDE DEF sl, then, p
      <3>5. then = [kind |-> "master", owner |-> r, ghosts |-> gh, told |-> t, pos |-> p]
        BY <1>2, <3>2
      <3> QED
        BY <3>4, <3>5 DEF then
    <2>3. CASE o # NoRank /\ o # r
      <3>1. ~FlowsOut(r, u) /\ Migrates(r, u)
        BY <1>4, <2>3 DEF FlowsOut, Migrates
      <3> DEFINE i == Image[r][p]
      <3>2. then = [sl EXCEPT !.kind = "ghost", !.owner = o, !.ghosts = {}, !.pos = i]
        BY <3>1 DEF SlotAfterMigration
      <3>3. SlotIn(m, r) = [kind |-> "ghost", owner |-> o, ghosts |-> {}, told |-> t, pos |-> i]
        <4> HIDE DEF m
        <4> QED
          BY <1>1, <1>9, <2>3 DEF SlotIn, Kept, t
      <3> HIDE DEF sl, then, p, o, i
      <3>4. then = [kind |-> "ghost", owner |-> o, ghosts |-> {}, told |-> t, pos |-> i]
        BY <1>2, <3>2
      <3> QED
        BY <3>3, <3>4 DEF then
    <2> QED
      BY <2>1, <2>2, <2>3
  <1>11. ASSUME NEW d \in Rank
         PROVE  MigrationNoteFor(r, d, u) = FirstNote(c, m, d)
    <2>1. d \in sl.ghosts <=> d \in c.holders \ {c.owner}
      BY <1>3 DEF gh
    <2>2. FateFor(r, d, u) = FateIn(c, m, d) \/ d \notin c.holders \ {r}
      <3> SUFFICES ASSUME d \in c.holders \ {r}
                   PROVE  FateFor(r, d, u) = FateIn(c, m, d)
        OBVIOUS
      <3>1. CASE o = NoRank
        <4>1. FlowsOut(r, u) /\ ~Migrates(r, u)
          BY <1>4, <3>1 DEF FlowsOut, Migrates
        <4>2. FateFor(r, d, u) = [NoFate EXCEPT !.type = "removal"]
          BY <4>1 DEF FateFor
        <4> QED
          BY <1>9, <3>1, <4>2 DEF FateIn
      <3>2. CASE o = r
        <4>1. ~FlowsOut(r, u) /\ ~Migrates(r, u)
          BY <1>1, <3>2 DEF FlowsOut, Migrates
        <4> QED
          BY <1>1, <1>9, <3>2, <4>1 DEF FateFor, FateIn
      <3>3. CASE o # NoRank /\ o # r
        <4>1. ~FlowsOut(r, u) /\ Migrates(r, u)
          BY <1>4, <3>3 DEF FlowsOut, Migrates
        <4>2. (sl.ghosts \ {o}) \cup {r} = c.holders \ {o}
          BY <1>1, <1>3, <3>3 DEF gh
        <4>3. FateFor(r, d, u) = IF d = o THEN [NoFate EXCEPT !.type = "migration", !.ghosts = c.holders \ {o}]
                                 ELSE [NoFate EXCEPT !.type = "remoteMigration", !.owner = o]
          BY <4>1, <4>2 DEF FateFor
        <4>4. FateIn(c, m, d) = IF o = d THEN [NoFate EXCEPT !.type = "migration", !.ghosts = c.holders \ {d}]
                                ELSE [NoFate EXCEPT !.type = "remoteMigration", !.owner = o]
          BY <1>9, <3>3 DEF FateIn
        <4> QED
          BY <4>3, <4>4
      <3> QED
        BY <3>1, <3>2, <3>3
    <2> HIDE DEF o, p, m, sl
    <2> QED
      BY <1>4, <1>9, <2>1, <2>2 DEF MigrationNoteFor, FirstNote, o, p, sl
  <1> QED
    BY <1>4, <1>5, <1>6, <1>7, <1>8, <1>10, <1>11

(* The walk of r over its copies in the second exchange *)
LEMMA ResolveChapter ==
  ASSUME ImagesAgree, StoreOK, NEW r \in Rank, NEW u \in Particle, Communicates(u), NEW c, Sound(c),
         ps[r][u] = SlotIn(c, r), NEW P, Nbr[r] \cup {r} \subseteq P,
         r = c.owner => c.holders \subseteq P
  PROVE  /\ SlotAfterResolution(r, u) = Partly(c, r, P)
         /\ \A d \in Rank : ResolutionNoteFor(r, d, u) = SecondNote(c, r, d)
  <1> DEFINE sl == ps[r][u]
  <1>1. CASE r \notin c.holders
    <2>1. sl = Absent
      BY <1>1 DEF SlotIn
    <2>2. ~Resolves(r, u) /\ ~Retires(r, u) /\ NewNeighbors(r, u) = {}
      BY <2>1 DEF Resolves, Retires, Holds, IsGhost, NewNeighbors, Absent
    <2>3. SlotAfterResolution(r, u) = Absent
      <3> DEFINE then == [sl EXCEPT !.told = sl.told]
      <3>1. sl.told \cup {} = sl.told
        BY <2>1 DEF Absent
      <3>2. SlotAfterResolution(r, u) = then
        BY <2>2, <3>1 DEF SlotAfterResolution
      <3>3. then = [sl EXCEPT !.told = sl.told]
        OBVIOUS
      <3>4. then = sl
        <4> HIDE DEF then
        <4> QED
          BY <2>1, <3>3 DEF Absent
      <3> QED
        BY <2>1, <3>2, <3>4
    <2>4. Spread(c, r) = {} /\ r \notin Retired(c)
      BY <1>1 DEF Spread, Retired
    <2>5. ASSUME NEW d \in Rank
          PROVE  ResolutionNoteFor(r, d, u) = SecondNote(c, r, d)
      BY <2>2, <2>4 DEF ResolutionNoteFor, SecondNote, FreshIn, GoneIn
    <2>6. Partly(c, r, P) = Absent
      BY <1>1, PartlyAll
    <2> QED
      BY <2>3, <2>5, <2>6
  <1>2. CASE r \in c.holders
    <2> DEFINE g == c.holders \ {r}
               t == c.told[r]
               i == Image[r][c.pos]
    <2>1. sl = Kept(c, r, g, t)
      BY <1>2 DEF SlotIn
    <2>2. /\ sl.kind = (IF r = c.owner THEN "master" ELSE "ghost") /\ sl.owner = c.owner
          /\ sl.told = t /\ sl.pos = i
      BY <2>1, KeptFields
    <2> HIDE DEF sl, g, t, i
    <2>3. Resolves(r, u) /\ (IsGhost(r, u) <=> r # c.owner)
      BY <2>2 DEF Resolves, Holds, IsGhost, sl
    <2>4. Overlap[sl.pos] = Overlap[c.pos]
      BY <1>2, <2>2, SoundFacts DEF ImagesAgree, i
    <2>5. NewNeighbors(r, u) = Spread(c, r)
      BY <1>2, <2>2, <2>3, <2>4 DEF NewNeighbors, Spread, sl, t
    <2>6. Retires(r, u) <=> r \in Retired(c)
      BY <1>2, <2>3, <2>4 DEF Retires, Retired, sl
    <2>7. ASSUME NEW d \in Rank
          PROVE  ResolutionNoteFor(r, d, u) = SecondNote(c, r, d)
      <3> DEFINE copy  == d \in Spread(c, r)
                 fresh == FreshIn(c, r, d)
                 gone  == GoneIn(c, r, d)
      <3>1. (d \in NewNeighbors(r, u)) = copy
        BY <2>5
      <3>2. (IF Resolves(r, u) /\ d = sl.owner THEN NewNeighbors(r, u) ELSE {}) = fresh
        BY <2>2, <2>3, <2>5 DEF FreshIn
      <3>3. (Retires(r, u) /\ d \in Nbr[r] \cup {sl.owner}) = gone
        BY <2>2, <2>6 DEF GoneIn
      <3>4. ResolutionNoteFor(r, d, u) =
              IF copy \/ fresh # {} \/ gone
              THEN [copy |-> copy, owner |-> sl.owner, pos |-> sl.pos, fresh |-> fresh, gone |-> gone]
              ELSE Nothing
        <4> HIDE DEF copy, fresh, gone
        <4> QED
          BY <3>1, <3>2, <3>3 DEF ResolutionNoteFor, sl
      <3> QED
        BY <2>2, <3>4 DEF SecondNote, i
    <2>8. SlotAfterResolution(r, u) = Partly(c, r, P)
      <3>1. CASE r \in Retired(c)
        BY <2>6, <3>1, PartlyAll DEF SlotAfterResolution
      <3>2. CASE r \notin Retired(c)
        <4> DEFINE then == SlotAfterResolution(r, u)
                   t1   == c.told[r] \cup Spread(c, r)
        <4>1. then = [sl EXCEPT !.told = t1]
          BY <2>2, <2>5, <2>6, <3>2 DEF SlotAfterResolution, sl, t
        <4>2. Partly(c, r, P) = [SlotIn(c, r) EXCEPT !.told = t1]
          BY <1>2, <3>2, PartlyAll
        <4> QED
          BY <4>1, <4>2 DEF sl
      <3> QED
        BY <3>1, <3>2
    <2> QED
      BY <2>7, <2>8
  <1> QED
    BY <1>1, <1>2

-----------------------------------------------------------------------------
(* Queues *)

(* q numbers the buffers of b with the rounds in A, in which F is said. *)
Numbers(q, b, A, F) ==
  /\ Len(q) = Len(b)
  /\ \A i, j \in DOMAIN q : i < j => q[i] < q[j]
  /\ \A j \in Nat : j \in A <=> \E i \in DOMAIN q : q[i] = j
  /\ \A i \in DOMAIN q : b[i] = F[q[i]]

(* The buffers of b are those of the rounds in A, one each, the earlier first. *)
Lists(b, A, F) == \E q \in Seq(Nat) : Numbers(q, b, A, F)

LEMMA ListsNone ==
  ASSUME NEW F
  PROVE  Lists(<<>>, {}, F)
  <1>1. <<>> \in Seq(Nat) /\ Numbers(<<>>, <<>>, {}, F)
    BY DEF Numbers
  <1> QED
    BY <1>1 DEF Lists

LEMMA ListsSame ==
  ASSUME NEW b, NEW A, A \subseteq Nat, NEW F, NEW F1, Lists(b, A, F), \A j \in A : F1[j] = F[j]
  PROVE  Lists(b, A, F1)
  <1>1. PICK q \in Seq(Nat) : Numbers(q, b, A, F)
    BY DEF Lists
  <1>2. Numbers(q, b, A, F1)
    BY <1>1 DEF Numbers
  <1> QED
    BY <1>2 DEF Lists

LEMMA ListsEmpty ==
  ASSUME NEW T, NEW b \in Seq(T), NEW A, A \subseteq Nat, NEW F, Lists(b, A, F)
  PROVE  b = <<>> <=> A = {}
  <1>1. PICK q \in Seq(Nat) : Numbers(q, b, A, F)
    BY DEF Lists
  <1>2. A = {} <=> Len(q) = 0
    BY <1>1 DEF Numbers
  <1> QED
    BY <1>1, <1>2 DEF Numbers

LEMMA ListsAppend ==
  ASSUME NEW T, NEW b \in Seq(T), NEW v \in T, NEW A, A \subseteq Nat, NEW F, Lists(b, A, F),
         NEW K \in Nat, \A j \in A : j < K, F[K] = v
  PROVE  Lists(Append(b, v), A \cup {K}, F)
  <1>1. PICK q \in Seq(Nat) : Numbers(q, b, A, F)
    BY DEF Lists
  <1> DEFINE w == Append(q, K)
             n == Len(q) + 1
  <1>2. /\ w \in Seq(Nat) /\ Len(w) = n /\ DOMAIN w = 1..n /\ w[n] = K
        /\ \A i \in 1..Len(q) : w[i] = q[i]
        /\ DOMAIN q = 1..Len(q) /\ Len(q) \in Nat
    OBVIOUS
  <1>3. /\ Len(Append(b, v)) = Len(b) + 1 /\ Append(b, v)[Len(b) + 1] = v
        /\ \A i \in 1..Len(b) : Append(b, v)[i] = b[i]
    OBVIOUS
  <1> HIDE DEF w
  <1>4. \A i, j \in DOMAIN w : i < j => w[i] < w[j]
    <2> SUFFICES ASSUME NEW i \in 1..n, NEW j \in 1..n, i < j
                 PROVE  w[i] < w[j]
      BY <1>2
    <2>1. i \in 1..Len(q) /\ w[i] = q[i] /\ q[i] \in A /\ q[i] \in Nat
      <3>1. i \in 1..Len(q)
        BY <1>2
      <3>2. w[i] = q[i] /\ q[i] \in Nat
        BY <1>2, <3>1
      <3> QED
        BY <1>1, <1>2, <3>1, <3>2 DEF Numbers
    <2>2. CASE j = n
      BY <1>2, <2>1, <2>2
    <2>3. CASE j # n
      <3>1. j \in 1..Len(q)
        BY <1>2, <2>3
      <3>2. w[j] = q[j] /\ i \in DOMAIN q /\ j \in DOMAIN q
        BY <1>2, <2>1, <3>1
      <3> QED
        BY <1>1, <2>1, <3>2 DEF Numbers
    <2> QED
      BY <2>2, <2>3
  <1>5. \A j \in Nat : j \in A \cup {K} <=> \E i \in DOMAIN w : w[i] = j
    <2> TAKE j \in Nat
    <2>1. j \in A \cup {K} => \E i \in DOMAIN w : w[i] = j
      <3>1. CASE j = K
        <4>1. n \in DOMAIN w
          BY <1>2
        <4> QED
          BY <1>2, <3>1, <4>1
      <3>2. CASE j \in A
        <4>1. PICK i \in 1..Len(q) : q[i] = j
          BY <1>1, <1>2, <3>2 DEF Numbers
        <4>2. i \in DOMAIN w /\ w[i] = j
          BY <1>2, <4>1
        <4> QED
          BY <4>2
      <3> QED
        BY <3>1, <3>2
    <2>2. ASSUME NEW i \in 1..n, w[i] = j
          PROVE  j \in A \cup {K}
      <3>1. CASE i = n
        BY <1>2, <2>2, <3>1
      <3>2. CASE i # n
        <4>1. i \in 1..Len(q) /\ q[i] = j
          BY <1>2, <2>2, <3>2
        <4> QED
          BY <1>1, <1>2, <4>1 DEF Numbers
      <3> QED
        BY <3>1, <3>2
    <2> QED
      BY <1>2, <2>1, <2>2
  <1>6. \A i \in DOMAIN w : Append(b, v)[i] = F[w[i]]
    <2> TAKE i \in DOMAIN w
    <2>1. CASE i = n
      BY <1>1, <1>2, <1>3, <2>1 DEF Numbers
    <2>2. CASE i # n
      <3>1. i \in 1..Len(q) /\ w[i] = q[i]
        BY <1>2, <2>2
      <3>2. i \in 1..Len(b) /\ b[i] = F[q[i]]
        BY <1>1, <1>2, <3>1 DEF Numbers
      <3> QED
        BY <1>3, <3>1, <3>2
    <2> QED
      BY <2>1, <2>2
  <1>7. Numbers(w, Append(b, v), A \cup {K}, F)
    BY <1>1, <1>2, <1>3, <1>4, <1>5, <1>6 DEF Numbers
  <1> QED
    BY <1>2, <1>7 DEF Lists

LEMMA ListsTake ==
  ASSUME NEW T, NEW b \in Seq(T), b # <<>>, NEW A, A \subseteq Nat, NEW F, Lists(b, A, F),
         NEW K \in A, \A j \in A : K <= j
  PROVE  Head(b) = F[K] /\ Lists(Tail(b), A \ {K}, F)
  <1>1. PICK q \in Seq(Nat) : Numbers(q, b, A, F)
    BY DEF Lists
  <1> DEFINE w == Tail(q)
  <1>2. /\ Len(q) \in Nat /\ DOMAIN q = 1..Len(q) /\ \A i \in 1..Len(q) : q[i] \in Nat
        /\ 1 \in DOMAIN q /\ Len(b) = Len(q) /\ Head(b) = b[1]
    BY <1>1 DEF Numbers
  <1>3. /\ w \in Seq(Nat) /\ Len(w) = Len(q) - 1 /\ DOMAIN w = 1..(Len(q) - 1)
        /\ \A i \in 1..(Len(q) - 1) : w[i] = q[i + 1] /\ i + 1 \in 1..Len(q)
    BY <1>2
  <1>4. /\ Len(Tail(b)) = Len(q) - 1
        /\ \A i \in 1..(Len(q) - 1) : Tail(b)[i] = b[i + 1]
    BY <1>2
  <1> HIDE DEF w
  <1>5. q[1] = K
    <2>1. q[1] \in A
      BY <1>1, <1>2 DEF Numbers
    <2>2. PICK i \in 1..Len(q) : q[i] = K
      BY <1>1, <1>2 DEF Numbers
    <2>3. i # 1 => q[1] < q[i]
      BY <1>1, <1>2 DEF Numbers
    <2> QED
      BY <1>2, <2>1, <2>2, <2>3
  <1>6. Head(b) = F[K]
    BY <1>1, <1>2, <1>5 DEF Numbers
  <1>7. \A i, j \in DOMAIN w : i < j => w[i] < w[j]
    <2> SUFFICES ASSUME NEW i \in 1..(Len(q) - 1), NEW j \in 1..(Len(q) - 1), i < j
                 PROVE  w[i] < w[j]
      BY <1>3
    <2>1. i + 1 \in DOMAIN q /\ j + 1 \in DOMAIN q /\ i + 1 < j + 1
      BY <1>2
    <2>2. q[i + 1] < q[j + 1]
      BY <1>1, <2>1 DEF Numbers
    <2> QED
      BY <1>3, <2>2
  <1>8. \A j \in Nat : j \in A \ {K} <=> \E i \in DOMAIN w : w[i] = j
    <2> TAKE j \in Nat
    <2>1. ASSUME j \in A \ {K}
          PROVE  \E i \in DOMAIN w : w[i] = j
      <3>1. PICK i \in 1..Len(q) : q[i] = j
        BY <1>1, <1>2, <2>1 DEF Numbers
      <3>2. i # 1
        BY <1>5, <2>1, <3>1
      <3>3. i - 1 \in 1..(Len(q) - 1) /\ (i - 1) + 1 = i
        BY <1>2, <3>2
      <3>4. i - 1 \in DOMAIN w /\ w[i - 1] = j
        BY <1>3, <3>1, <3>3
      <3> QED
        BY <3>4
    <2>2. ASSUME NEW i \in 1..(Len(q) - 1), w[i] = j
          PROVE  j \in A \ {K}
      <3>1. i + 1 \in DOMAIN q /\ q[i + 1] = j /\ 1 < i + 1
        BY <1>2, <1>3, <2>2
      <3>2. q[1] < q[i + 1]
        BY <1>1, <1>2, <3>1 DEF Numbers
      <3>3. j \in A
        BY <1>1, <3>1 DEF Numbers
      <3> QED
        BY <1>5, <3>1, <3>2, <3>3
    <2> QED
      BY <1>3, <2>1, <2>2
  <1>9. \A i \in DOMAIN w : Tail(b)[i] = F[w[i]]
    <2> TAKE i \in DOMAIN w
    <2>1. i + 1 \in DOMAIN q /\ w[i] = q[i + 1] /\ Tail(b)[i] = b[i + 1]
      BY <1>2, <1>3, <1>4
    <2> QED
      BY <1>1, <2>1 DEF Numbers
  <1>10. Numbers(w, Tail(b), A \ {K}, F)
    BY <1>3, <1>4, <1>7, <1>8, <1>9 DEF Numbers
  <1> QED
    BY <1>3, <1>6, <1>10 DEF Lists

-----------------------------------------------------------------------------
(* The registry: what has happened to a particle since the last ClearGhosts *)

Shared == Particle \ NonCommunicating

(* A story holds the chapters of a particle: ends[j] after j synchronizations,
   mids[j] between the exchanges of the j-th one, up to the len-th.  It has got as
   far as the owners have: k[r] is the number of calls of updateAndMigrate on r. *)
Tale(t, k) ==
  /\ t.len \in Nat
  /\ \A j \in 0..t.len : Sound(t.ends[j])
  /\ \A j \in 1..t.len : Turned(t.ends[j - 1], t.mids[j], t.ends[j])
  /\ \A j \in 1..t.len : j <= k[t.ends[j - 1].owner]
  /\ t.ends[t.len].owner # NoRank => k[t.ends[t.len].owner] <= t.len
  /\ t.ends[0].holders \subseteq {t.ends[0].owner}
  /\ \A S \in SUBSET Rank : Closed(S) /\ t.ends[0].holders \subseteq S
       => \A j \in 0..t.len : t.ends[j].holders \subseteq S

Extended(t, m) ==
  [len |-> t.len + 1, ends |-> [j \in Nat |-> IF j <= t.len THEN t.ends[j] ELSE Resolved(m)],
   mids |-> [j \in Nat |-> IF j <= t.len THEN t.mids[j] ELSE m]]

(* r is ahead of the story: it has no copy, or waits for the owner. *)
ShowsLast(t, u, r, K) ==
  LET c == t.ends[t.len] IN
  /\ ps[r][u] = SlotIn(c, r)
  /\ r \in c.holders => K = t.len + 1 /\ phase[r] = "update" /\ c.owner \in pending[r]

ShowsRound(t, u, r, K) ==
  /\ phase[r] = "integrate" => ps[r][u] = SlotIn(t.ends[K], r)
  /\ phase[r] = "migrate" => IF r = t.ends[K].owner THEN Pushed(t.ends[K], r, u, K, ps[r][u])
                             ELSE ps[r][u] = SlotIn(t.ends[K], r)
  /\ phase[r] = "update" =>
       ps[r][u] = SlotIn(IF t.ends[K - 1].owner \in pending[r] THEN t.ends[K - 1] ELSE t.mids[K], r)
  /\ phase[r] = "resolve" => ps[r][u] = SlotIn(t.mids[K], r)
  /\ phase[r] = "parse" => ps[r][u] = Partly(t.mids[K], r, pending[r])

Shows(t, u, r, K) == IF K <= t.len THEN ShowsRound(t, u, r, K) ELSE ShowsLast(t, u, r, K)

(* How often r has sent the buffers of the second exchange *)
Done(k, r) == IF phase[r] \in {"update", "resolve"} THEN k[r] - 1 ELSE k[r]

(* Who sends whom a buffer in the j-th synchronization, whether d expects it no
   more, which ones are under way, and what they say *)
Sends1(h, s, d, j) ==
  \E u \in Shared : /\ j <= h[u].len + 1
                    /\ h[u].ends[j - 1].owner = s
                    /\ d \in h[u].ends[j - 1].holders \ {s}

Sends2(h, s, d, j) ==
  \/ d \in Nbr[s] \cup {s}
  \/ \E u \in Shared : j <= h[u].len /\ s \in h[u].mids[j].holders /\ h[u].mids[j].owner = d

Read1(k, d, s, j) == j < k[d] \/ (j = k[d] /\ ~(phase[d] = "update" /\ s \in pending[d]))

Read2(k, d, s, j) == j < Done(k, d) \/ (j = Done(k, d) /\ ~(phase[d] = "parse" /\ s \in pending[d]))

Under1(k, h, s, d) == {j \in Nat \ {0} : Sends1(h, s, d, j) /\ j <= k[s] /\ ~Read1(k, d, s, j)}

Under2(k, h, s, d) == {j \in Nat \ {0} : Sends2(h, s, d, j) /\ j <= Done(k, s) /\ ~Read2(k, d, s, j)}

Says1(h, s, d) ==
  [j \in Nat |-> [u \in Particle |->
    IF u \in Shared /\ j <= h[u].len /\ h[u].ends[j - 1].owner = s
    THEN FirstNote(h[u].ends[j - 1], h[u].mids[j], d) ELSE Silence]]

Says2(h, s, d) ==
  [j \in Nat |-> [u \in Particle |->
    IF u \in Shared /\ j <= h[u].len THEN SecondNote(h[u].mids[j], s, d) ELSE Nothing]]

Control(k) ==
  /\ k \in [Rank -> Nat]
  /\ \A r \in Rank : phase[r] # "migrate" => k[r] # 0
  /\ \A r \in Rank : pending[r] # {} <=> phase[r] \in {"update", "parse"}

Tales(k, h) == \A u \in Shared : Tale(h[u], k)

Shown(k, h) == \A u \in Shared, r \in Rank : Shows(h[u], u, r, k[r])

(* Particles that do not communicate have no ghosts and no marks. *)
Quiet == \A u \in NonCommunicating, r \in Rank : ~IsGhost(r, u) /\ ps[r][u].told = {}

Firsts(k, h) ==
  /\ \A r \in Rank : phase[r] = "update" => \A s \in pending[r] : Sends1(h, s, r, k[r])
  /\ \A s, d \in Rank : Lists(migrating[<<s, d>>], Under1(k, h, s, d), Says1(h, s, d))

Seconds(k, h) ==
  /\ \A r \in Rank : phase[r] = "parse" => \A s \in pending[r] : Sends2(h, s, r, k[r])
  /\ \A s, d \in Rank, j \in Nat \ {0} : Sends2(h, s, d, j) /\ Read2(k, d, s, j) => j <= Done(k, s)
  /\ \A s, d \in Rank : Lists(resolving[<<s, d>>], Under2(k, h, s, d), Says2(h, s, d))

Traced(k, h) ==
  Control(k) /\ Tales(k, h) /\ Shown(k, h) /\ Quiet /\ Firsts(k, h) /\ Seconds(k, h)

RegistryInv == Shape /\ ~aborted /\ \E k, h : Traced(k, h)

-----------------------------------------------------------------------------
LEMMA TaleFacts ==
  ASSUME NEW k, NEW t, Tale(t, k), NEW j \in Nat, j <= t.len
  PROVE  /\ Sound(t.ends[j])
         /\ j # 0 => /\ Turned(t.ends[j - 1], t.mids[j], t.ends[j]) /\ Sound(t.ends[j - 1])
                     /\ Sound(t.mids[j]) /\ t.ends[j] = Resolved(t.mids[j])
                     /\ t.ends[j - 1].owner \in Rank
                     /\ t.mids[j].holders \subseteq t.ends[j - 1].holders
         /\ j = 0 \/ Surrounded(t.ends[j])
  <1>1. t.len \in Nat /\ j \in 0..t.len /\ Sound(t.ends[j])
    BY DEF Tale
  <1>2. ASSUME j # 0
        PROVE  /\ Turned(t.ends[j - 1], t.mids[j], t.ends[j]) /\ Sound(t.ends[j - 1])
               /\ Sound(t.mids[j]) /\ t.ends[j] = Resolved(t.mids[j])
               /\ t.ends[j - 1].owner \in Rank
               /\ t.mids[j].holders \subseteq t.ends[j - 1].holders
               /\ Surrounded(t.ends[j])
    <2>1. j \in 1..t.len /\ j - 1 \in 0..t.len
      BY <1>1, <1>2
    <2>2. Turned(t.ends[j - 1], t.mids[j], t.ends[j]) /\ Sound(t.ends[j - 1])
      BY <2>1 DEF Tale
    <2> DEFINE c == t.ends[j - 1]
               m == t.mids[j]
               o == m.owner
               p == m.pos
    <2> HIDE DEF c, m
    <2>3. /\ Sound(m) /\ t.ends[j] = Resolved(m) /\ m = Mid(c, o, p) /\ c.owner # NoRank
          /\ Sound(c)
      BY <2>2 DEF Turned, c, m
    <2> HIDE DEF o, p
    <2>4. Mid(c, o, p).holders \subseteq c.holders
      BY MidFields
    <2>5. m.holders \subseteq c.holders
      BY <2>3, <2>4
    <2> QED
      BY <2>2, <2>3, <2>5, SoundFacts, SoundResolved DEF c, m
  <1> QED
    BY <1>1, <1>2

(* A slot read off a chapter *)
LEMMA SlotInFacts ==
  ASSUME NEW c, Sound(c), NEW r \in Rank, NEW sl, sl = SlotIn(c, r)
  PROVE  /\ sl.kind = "none" <=> r \notin c.holders
         /\ sl.kind = "master" <=> r = c.owner
         /\ sl.kind = "ghost" <=> r \in c.holders \ {c.owner}
         /\ r \in c.holders => sl.owner = c.owner
         /\ r = c.owner => sl.ghosts = c.holders \ {r}
         /\ r # c.owner => sl.ghosts = {}
         /\ r \in c.holders => sl.told = c.told[r] /\ sl.pos = Image[r][c.pos]
         /\ sl.told = c.told[r]
  <1>1. r = c.owner => r \in c.holders
    BY RankAssumption DEF Sound
  <1>2. CASE r \notin c.holders
    BY <1>1, <1>2 DEF SlotIn, Absent, Sound
  <1>3. CASE r \in c.holders
    <2>1. sl = Kept(c, r, c.holders \ {r}, c.told[r])
      BY <1>3 DEF SlotIn
    <2> QED
      BY <1>3, <2>1, KeptFields
  <1> QED
    BY <1>2, <1>3

(* A process that has a copy in the last chapter has not got beyond it. *)
LEMMA HoldersBehind ==
  ASSUME NEW k, NEW h, Traced(k, h), NEW u \in Shared, NEW r \in Rank,
         r \in h[u].ends[h[u].len].holders
  PROVE  LET t == h[u] IN
         /\ Done(k, r) <= t.len
         /\ k[r] <= t.len \/ (k[r] = t.len + 1 /\ phase[r] = "update" /\ t.ends[t.len].owner \in pending[r])
  <1>1. h[u].len \in Nat /\ k[r] \in Nat
    BY DEF Traced, Tales, Tale, Control
  <1>2. Shows(h[u], u, r, k[r])
    BY DEF Traced, Shown
  <1> QED
    BY <1>1, <1>2 DEF Shows, ShowsLast, Done

LEMMA DoneType ==
  ASSUME NEW k, Control(k), NEW r \in Rank
  PROVE  Done(k, r) \in Nat /\ k[r] \in Nat /\ Done(k, r) <= k[r] /\ k[r] <= Done(k, r) + 1
  BY DEF Control, Done

-----------------------------------------------------------------------------
(* updateAndMigrate: the owners write the next chapter. *)

LEMMA OwnerStory ==
  ASSUME StoreOK, NEW k, NEW h, Traced(k, h), NEW r \in Rank, phase[r] = "migrate", NEW u \in Shared
  PROVE  LET t == h[u]
             K == k[r]
         IN  /\ t.len \in Nat /\ K \in Nat /\ Sound(t.ends[t.len]) /\ Communicates(u) /\ u \in Particle
             /\ IsHandled(r, u) =>
                  /\ K = t.len /\ t.ends[K].owner = r /\ Pushed(t.ends[K], r, u, K, ps[r][u])
                  /\ K = 0 \/ Surrounded(t.ends[K])
             /\ K <= t.len /\ t.ends[K].owner = r => IsHandled(r, u)
             /\ K <= t.len /\ t.ends[K].owner # r => ps[r][u] = SlotIn(t.ends[K], r) /\ Sound(t.ends[K])
             /\ K > t.len => ps[r][u] = Absent /\ r \notin t.ends[t.len].holders
  <1> DEFINE t == h[u]
             K == k[r]
  <1>1. Tale(t, k) /\ t.len \in Nat /\ K \in Nat /\ Shows(t, u, r, K) /\ Communicates(u) /\ u \in Particle
    BY DEF Traced, Tales, Shown, Tale, Control, Shared, Communicates
  <1> HIDE DEF t, K
  <1>2. Sound(t.ends[t.len])
    BY <1>1, TaleFacts
  <1>3. CASE K > t.len
    <2>1. ps[r][u] = SlotIn(t.ends[t.len], r) /\ r \notin t.ends[t.len].holders
      BY <1>1, <1>3 DEF Shows, ShowsLast
    <2>2. ps[r][u] = Absent
      BY <2>1 DEF SlotIn
    <2>3. ~IsHandled(r, u)
      BY <2>2 DEF IsHandled, IsMaster, Absent
    <2> QED
      BY <1>1, <1>2, <1>3, <2>1, <2>2, <2>3 DEF t, K
  <1>4. CASE K <= t.len
    <2> DEFINE c == t.ends[K]
    <2>1. Sound(c) /\ (K = 0 \/ Surrounded(c))
      BY <1>1, <1>4, TaleFacts
    <2>2. IF r = c.owner THEN Pushed(c, r, u, K, ps[r][u]) ELSE ps[r][u] = SlotIn(c, r)
      BY <1>1, <1>4 DEF Shows, ShowsRound
    <2>3. CASE r = c.owner
      <3>1. K = t.len
        <4>1. SUFFICES ASSUME K # t.len PROVE FALSE
          OBVIOUS
        <4>2. K + 1 \in 1..t.len /\ (K + 1) - 1 = K
          BY <1>1, <1>4, <4>1
        <4>3. K + 1 <= k[t.ends[(K + 1) - 1].owner]
          BY <1>1, <4>2 DEF Tale
        <4>4. K + 1 <= K
          BY <2>3, <4>2, <4>3 DEF K
        <4> QED
          BY <1>1, <4>4
      <3>2. Pushed(c, r, u, K, ps[r][u])
        BY <2>2, <2>3
      <3>3. IsHandled(r, u)
        BY <1>1, <3>2 DEF Pushed, IsHandled, IsMaster
      <3> QED
        BY <1>1, <1>2, <1>4, <2>1, <2>3, <3>1, <3>2, <3>3 DEF t, K
    <2>4. CASE r # c.owner
      <3>1. ps[r][u] = SlotIn(c, r)
        BY <2>2, <2>4
      <3>2. ~IsHandled(r, u)
        BY <2>1, <2>4, <3>1, SlotInFacts DEF IsHandled, IsMaster
      <3> QED
        BY <1>1, <1>2, <1>4, <2>1, <2>4, <3>1, <3>2 DEF t, K
    <2> QED
      BY <2>3, <2>4
  <1> QED
    BY <1>1, <1>3, <1>4

(* "New owner has to be former ghost owner!" never fails. *)
LEMMA RegistryMigrationChecks ==
  ASSUME ImagesAgree, StepsSeen, StoreOK, NEW k, NEW h, Traced(k, h),
         NEW r \in Rank, phase[r] = "migrate"
  PROVE  MigrationChecks(r)
  <1> SUFFICES ASSUME NEW u \in Particle, Migrates(r, u)
               PROVE  NewOwner(r, u) \in ps[r][u].ghosts
    BY DEF MigrationChecks
  <1>1. IsHandled(r, u) /\ u \in Shared
    BY DEF Migrates, IsHandled, Communicates, Shared
  <1> DEFINE K == k[r]
             c == h[u].ends[K]
  <1>2. /\ K \in Nat /\ Sound(c) /\ Communicates(u) /\ c.owner = r /\ Pushed(c, r, u, K, ps[r][u])
        /\ K = 0 \/ Surrounded(c)
    BY <1>1, OwnerStory
  <1> HIDE DEF K, c
  <1> QED
    BY <1>2, WalkChapter

Grown(h, r) ==
  [u \in Particle |->
     IF IsHandled(r, u)
     THEN Extended(h[u], Mid(h[u].ends[h[u].len], NewOwner(r, u), MappedPos(r, u))) ELSE h[u]]

(* The histories before and after the walk of r *)
Walking(r, k, h, k1, h1) ==
  /\ Shape /\ Traced(k, h) /\ phase[r] = "migrate"
  /\ k1 = [k EXCEPT ![r] = k[r] + 1]
  /\ h1 = Grown(h, r)

LEMMA ClockWalk ==
  ASSUME NEW k, NEW h, NEW k1, NEW h1, NEW r \in Rank, Walking(r, k, h, k1, h1)
  PROVE  /\ k \in [Rank -> Nat] /\ k1 \in [Rank -> Nat] /\ k1[r] = k[r] + 1
         /\ \A q \in Rank : q # r => k1[q] = k[q]
         /\ \A q \in Rank : k[q] <= k1[q] /\ k1[q] <= k[q] + 1
  BY DEF Walking, Traced, Control

LEMMA SlotKept ==
  ASSUME StoreOK, NEW r \in Rank, NEW u \in Particle, ~IsHandled(r, u)
  PROVE  /\ SlotAfterMigration(r, u) = ps[r][u]
         /\ \A d \in Rank : MigrationNoteFor(r, d, u) = Silence
  <1>1. ~FlowsOut(r, u) /\ ~Migrates(r, u)
    BY DEF FlowsOut, Migrates
  <1>2. ps[r][u] \in Slot
    BY DEF StoreOK
  <1> DEFINE then == SlotAfterMigration(r, u)
             sl   == ps[r][u]
  <1>3. then = [sl EXCEPT !.pos = sl.pos]
    BY <1>1 DEF SlotAfterMigration
  <1>4. then = sl
    <2> HIDE DEF then, sl
    <2> QED
      BY <1>2, <1>3 DEF Slot, sl
  <1> QED
    BY <1>4 DEF MigrationNoteFor

LEMMA StoryKept ==
  ASSUME NEW k, NEW h, NEW k1, NEW h1, NEW r \in Rank, Walking(r, k, h, k1, h1),
         NEW u \in Shared, ~IsHandled(r, u)
  PROVE  /\ h1[u] = h[u]
         /\ SlotAfterMigration(r, u) = ps[r][u]
         /\ \A d \in Rank : MigrationNoteFor(r, d, u) = Silence
  <1>1. h1[u] = h[u] /\ u \in Particle /\ StoreOK
    BY DEF Walking, Grown, Shared, Shape
  <1> QED
    BY <1>1, SlotKept

LEMMA StoryGrows ==
  ASSUME ImagesAgree, StepsSeen, NEW k, NEW h, NEW k1, NEW h1, NEW r \in Rank,
         Walking(r, k, h, k1, h1), NEW u \in Shared, IsHandled(r, u)
  PROVE  LET n == h[u].len
             c == h[u].ends[n]
             m == h1[u].mids[n + 1]
         IN  /\ n \in Nat /\ k[r] = n /\ c.owner = r /\ Sound(c) /\ Sound(m)
             /\ h1[u].len = n + 1
             /\ \A j \in Nat : j <= n => h1[u].ends[j] = h[u].ends[j] /\ h1[u].mids[j] = h[u].mids[j]
             /\ h1[u].ends[n + 1] = Resolved(m)
             /\ Turned(c, m, Resolved(m))
             /\ m.holders \subseteq c.holders
             /\ SlotAfterMigration(r, u) = SlotIn(m, r)
             /\ \A d \in Rank : MigrationNoteFor(r, d, u) = FirstNote(c, m, d)
  <1> DEFINE n == h[u].len
             c == h[u].ends[n]
             o == NewOwner(r, u)
             p == MappedPos(r, u)
             m == Mid(c, o, p)
  <1>0. StoreOK /\ Traced(k, h) /\ phase[r] = "migrate" /\ u \in Particle
    BY DEF Walking, Shape, Shared
  <1>1. /\ n \in Nat /\ k[r] = n /\ Sound(c) /\ Communicates(u) /\ c.owner = r
        /\ Pushed(c, r, u, n, ps[r][u]) /\ (n = 0 \/ Surrounded(c))
    BY <1>0, OwnerStory
  <1> HIDE DEF n, c
  <1>2. /\ o \in c.holders \cup {NoRank} /\ p \in Pos /\ (o # NoRank => OwnerOf[p] = o)
        /\ SlotAfterMigration(r, u) = SlotIn(m, r)
        /\ \A d \in Rank : MigrationNoteFor(r, d, u) = FirstNote(c, m, d)
    BY <1>0, <1>1, WalkChapter
  <1> HIDE DEF o, p
  <1>3. c.owner # NoRank
    BY <1>1, RankAssumption
  <1>4. Sound(m) /\ m.owner = o /\ m.pos = p /\ m.holders \subseteq c.holders
    BY <1>1, <1>2, <1>3, SoundMid
  <1>5. h1[u] = Extended(h[u], m)
    BY <1>0 DEF Walking, Grown, n, c, o, p
  <1>6. Turned(c, m, Resolved(m))
    BY <1>2, <1>3, <1>4 DEF Turned
  <1> HIDE DEF m
  <1>7. /\ h1[u].len = n + 1
        /\ h1[u].ends = [j \in Nat |-> IF j <= n THEN h[u].ends[j] ELSE Resolved(m)]
        /\ h1[u].mids = [j \in Nat |-> IF j <= n THEN h[u].mids[j] ELSE m]
    BY <1>5 DEF Extended, n
  <1>8. n + 1 \in Nat /\ ~(n + 1 <= n)
    BY <1>1
  <1>9. h1[u].ends[n + 1] = Resolved(m) /\ h1[u].mids[n + 1] = m
    BY <1>7, <1>8
  <1>10. \A j \in Nat : j <= n => h1[u].ends[j] = h[u].ends[j] /\ h1[u].mids[j] = h[u].mids[j]
    BY <1>7
  <1> QED
    BY <1>1, <1>2, <1>4, <1>6, <1>7, <1>9, <1>10 DEF n, c

LEMMA WalkTales ==
  ASSUME ImagesAgree, StepsSeen, NEW k, NEW h, NEW k1, NEW h1, NEW r \in Rank,
         Walking(r, k, h, k1, h1)
  PROVE  Tales(k1, h1)
  <1> SUFFICES ASSUME NEW u \in Shared
               PROVE  Tale(h1[u], k1)
    BY DEF Tales
  <1> DEFINE t == h[u]
             n == t.len
             v == h1[u]
  <1>1. Tale(t, k) /\ n \in Nat /\ Traced(k, h) /\ StoreOK /\ phase[r] = "migrate"
    BY DEF Walking, Traced, Tales, Tale, Shape
  <1>2. \A j \in 1..n : t.ends[j - 1].owner \in Rank /\ j <= k1[t.ends[j - 1].owner]
    <2> TAKE j \in 1..n
    <2>1. t.ends[j - 1].owner \in Rank /\ j <= k[t.ends[j - 1].owner]
      <3>1. j \in Nat /\ j <= n /\ j # 0
        BY <1>1
      <3>2. t.ends[j - 1].owner \in Rank
        BY <1>1, <3>1, TaleFacts
      <3> QED
        BY <1>1, <3>2 DEF Tale
    <2> QED
      BY <2>1, ClockWalk
  <1>3. CASE ~IsHandled(r, u)
    <2>1. v = t
      BY <1>3, StoryKept
    <2>2. ASSUME t.ends[n].owner # NoRank
          PROVE  k1[t.ends[n].owner] <= n
      <3>1. t.ends[n].owner \in Rank /\ k[t.ends[n].owner] <= n
        BY <1>1, <2>2, TaleFacts, SoundFacts DEF Tale
      <3>2. t.ends[n].owner = r => k[r] # n
        BY <1>1, <1>3, OwnerStory
      <3> QED
        BY <1>1, <3>1, <3>2, ClockWalk
    <2>3. Tale(t, k1)
      BY <1>1, <1>2, <2>2 DEF Tale
    <2> QED
      BY <2>1, <2>3
  <1>4. CASE IsHandled(r, u)
    <2> DEFINE c == t.ends[n]
               m == v.mids[n + 1]
    <2>1. /\ k[r] = n /\ c.owner = r /\ Sound(c) /\ Sound(m)
          /\ v.len = n + 1
          /\ \A j \in Nat : j <= n => v.ends[j] = t.ends[j] /\ v.mids[j] = t.mids[j]
          /\ v.ends[n + 1] = Resolved(m) /\ Turned(c, m, Resolved(m)) /\ m.holders \subseteq c.holders
      BY <1>4, StoryGrows
    <2> HIDE DEF t, n, v, c, m
    <2>2. n + 1 \in Nat
      BY <1>1
    <2>3. \A j \in 0..(n + 1) : Sound(v.ends[j])
      <3> TAKE j \in 0..(n + 1)
      <3>1. CASE j = n + 1
        BY <2>1, <3>1, SoundResolved
      <3>2. CASE j # n + 1
        <4>1. j \in 0..n /\ j \in Nat /\ j <= n
          BY <1>1, <3>2
        <4> QED
          BY <1>1, <2>1, <4>1 DEF Tale, n
      <3> QED
        BY <3>1, <3>2
    <2>4. \A j \in 1..(n + 1) : Turned(v.ends[j - 1], v.mids[j], v.ends[j]) /\ j <= k1[v.ends[j - 1].owner]
      <3> TAKE j \in 1..(n + 1)
      <3>1. CASE j = n + 1
        <4>1. j - 1 = n /\ v.ends[j - 1] = c
          BY <1>1, <2>1, <3>1 DEF c
        <4> QED
          BY <1>1, <2>1, <3>1, <4>1, ClockWalk DEF m
      <3>2. CASE j # n + 1
        <4>1. j \in 1..n /\ j \in Nat /\ j <= n /\ j - 1 \in Nat /\ j - 1 <= n
          BY <1>1, <3>2
        <4>2. v.ends[j - 1] = t.ends[j - 1] /\ v.ends[j] = t.ends[j] /\ v.mids[j] = t.mids[j]
          BY <2>1, <4>1
        <4> QED
          BY <1>1, <1>2, <4>1, <4>2 DEF Tale, n
      <3> QED
        BY <3>1, <3>2
    <2>5. ASSUME v.ends[n + 1].owner # NoRank
          PROVE  k1[v.ends[n + 1].owner] <= n + 1
      <3> DEFINE o == v.ends[n + 1].owner
      <3>1. o = m.owner /\ o \in c.holders /\ o \in Rank
        <4>1. o = m.owner
          BY <2>1, ResolvedFields
        <4>2. m.owner \in c.holders \cup {NoRank}
          BY <2>1 DEF Turned
        <4>3. c.holders \subseteq Rank
          BY <2>1, SoundFacts
        <4> QED
          BY <2>5, <4>1, <4>2, <4>3
      <3> HIDE DEF o
      <3>2. CASE o = r
        BY <1>1, <2>1, <3>2, ClockWalk DEF o
      <3>3. CASE o # r
        <4>1. k[o] <= n \/ k[o] = n + 1
          BY <1>1, <3>1, HoldersBehind DEF c, n, t
        <4>2. k1[o] = k[o] /\ k[o] \in Nat
          BY <3>1, <3>3, ClockWalk
        <4> QED
          BY <1>1, <4>1, <4>2 DEF o
      <3> QED
        BY <3>2, <3>3
    <2>6. ASSUME NEW S \in SUBSET Rank, Closed(S), v.ends[0].holders \subseteq S, NEW j \in 0..(n + 1)
          PROVE  v.ends[j].holders \subseteq S
      <3>1. v.ends[0] = t.ends[0]
        BY <1>1, <2>1
      <3>2. \A i \in 0..n : t.ends[i].holders \subseteq S
        BY <1>1, <2>6, <3>1 DEF Tale, n
      <3>3. CASE j = n + 1
        <4>1. c.holders \subseteq S
          BY <1>1, <3>2 DEF c
        <4>2. \A s \in Rank : Spread(m, s) \subseteq S
          <5> TAKE s \in Rank
          <5>1. Spread(m, s) # {} => s \in S
            BY <2>1, <4>1, SpreadFacts
          <5>2. Spread(m, s) \subseteq Nbr[s]
            BY <2>1, SpreadFacts
          <5> QED
            BY <2>6, <5>1, <5>2 DEF Closed
        <4>3. v.ends[j].holders = (m.holders \ Retired(m)) \cup UNION {Spread(m, s) : s \in Rank}
          BY <2>1, <3>3 DEF Resolved
        <4>4. UNION {Spread(m, s) : s \in Rank} \subseteq S
          BY <4>2
        <4> QED
          BY <2>1, <4>1, <4>3, <4>4
      <3>4. CASE j # n + 1
        <4>1. j \in 0..n /\ j \in Nat /\ j <= n
          BY <1>1, <3>4
        <4> QED
          BY <2>1, <3>2, <4>1
      <3> QED
        BY <3>3, <3>4
    <2>7. v.ends[0].holders \subseteq {v.ends[0].owner}
      <3>1. v.ends[0] = t.ends[0]
        BY <1>1, <2>1
      <3> QED
        BY <1>1, <3>1 DEF Tale
    <2>8. Tale(v, k1)
      BY <2>1, <2>2, <2>3, <2>4, <2>5, <2>6, <2>7 DEF Tale
    <2> QED
      BY <2>8 DEF v
  <1> QED
    BY <1>3, <1>4

(* Whom r writes to, and whom it waits for *)
LEMMA WalkPartners ==
  ASSUME NEW k, NEW h, NEW k1, NEW h1, NEW r \in Rank, Walking(r, k, h, k1, h1), NEW q \in Rank
  PROVE  /\ q \in UpdateReceivers(r) <=> Sends1(h, r, q, k[r] + 1)
         /\ q \in UpdateSenders(r) <=> Sends1(h, q, r, k[r] + 1)
         /\ UpdateSenders(r) \subseteq Rank \ {r}
  <1> DEFINE K == k[r]
  <1>1. StoreOK /\ Traced(k, h) /\ phase[r] = "migrate" /\ K \in Nat
    BY DEF Walking, Shape, Traced, Control
  <1>2. ASSUME NEW u \in Shared
        PROVE  LET c == h[u].ends[K] IN
               /\ IsHandled(r, u) /\ q \in ps[r][u].ghosts
                    <=> K <= h[u].len /\ c.owner = r /\ q \in c.holders \ {r}
               /\ IsGhost(r, u) /\ ps[r][u].owner = q
                    <=> K <= h[u].len /\ c.owner = q /\ r \in c.holders \ {q}
    <2> DEFINE c == h[u].ends[K]
               n == h[u].len
    <2>1. /\ n \in Nat
          /\ IsHandled(r, u) => K = n /\ c.owner = r /\ Pushed(c, r, u, K, ps[r][u])
          /\ K <= n /\ c.owner = r => IsHandled(r, u)
          /\ K <= n /\ c.owner # r => ps[r][u] = SlotIn(c, r) /\ Sound(c)
          /\ K > n => ps[r][u] = Absent
      BY <1>1, OwnerStory
    <2> HIDE DEF c, n, K
    <2>2. CASE K > n
      <3>1. ~IsHandled(r, u) /\ ~IsGhost(r, u)
        BY <2>1, <2>2 DEF IsHandled, IsMaster, IsGhost, Absent
      <3> QED
        BY <1>1, <2>1, <2>2, <3>1 DEF c, n
    <2>3. CASE K <= n /\ c.owner = r
      <3>1. IsHandled(r, u) /\ ps[r][u].kind = "master" /\ ps[r][u].ghosts = c.holders \ {r}
        BY <2>1, <2>3 DEF Pushed
      <3> QED
        BY <2>3, <3>1 DEF IsGhost, c, n
    <2>4. CASE K <= n /\ c.owner # r
      <3>1. /\ ps[r][u].kind # "master"
            /\ ps[r][u].kind = "ghost" <=> r \in c.holders \ {c.owner}
            /\ r \in c.holders => ps[r][u].owner = c.owner
        BY <2>1, <2>4, SlotInFacts
      <3> QED
        BY <2>4, <3>1 DEF IsGhost, IsHandled, IsMaster, c, n
    <2> QED
      BY <1>1, <2>1, <2>2, <2>3, <2>4
  <1>3. /\ q \in UpdateReceivers(r) <=> \E u \in Shared : IsHandled(r, u) /\ q \in ps[r][u].ghosts
        /\ q \in UpdateSenders(r) <=> \E u \in Shared : IsGhost(r, u) /\ ps[r][u].owner = q
    BY DEF UpdateReceivers, UpdateSenders, IsHandled, Communicates, Shared
  <1>4. \A u \in Shared : h[u].len \in Nat
    BY <1>1 DEF Traced, Tales, Tale
  <1>5. \A s, d \in Rank : Sends1(h, s, d, K + 1) <=>
          \E u \in Shared : K <= h[u].len /\ h[u].ends[K].owner = s /\ d \in h[u].ends[K].holders \ {s}
    <2>1. (K + 1) - 1 = K /\ \A u \in Shared : K + 1 <= h[u].len + 1 <=> K <= h[u].len
      BY <1>1, <1>4
    <2> HIDE DEF K
    <2> QED
      BY <2>1 DEF Sends1
  <1>6. UpdateSenders(r) \subseteq Rank \ {r}
    BY <1>1 DEF UpdateSenders, IsGhost, StoreOK, StoredOK
  <1> HIDE DEF K
  <1> QED
    BY <1>2, <1>3, <1>5, <1>6 DEF K

LEMMA WalkState ==
  ASSUME NEW k, NEW h, NEW k1, NEW h1, NEW r \in Rank, Walking(r, k, h, k1, h1), WalkMasters(r)
  PROVE  /\ \A u \in Particle : ps'[r][u] = SlotAfterMigration(r, u)
         /\ \A q \in Rank, u \in Particle : q # r => ps'[q][u] = ps[q][u]
         /\ pending'[r] = UpdateSenders(r) /\ \A q \in Rank : q # r => pending'[q] = pending[q]
         /\ phase'[r] = (IF UpdateSenders(r) = {} THEN "resolve" ELSE "update")
         /\ \A q \in Rank : q # r => phase'[q] = phase[q]
         /\ resolving' = resolving /\ aborted' = aborted
         /\ \A s, d \in Rank : migrating'[<<s, d>>] =
              IF s = r /\ d \in UpdateReceivers(r)
              THEN Append(migrating[<<s, d>>], [u \in Particle |-> MigrationNoteFor(r, d, u)])
              ELSE migrating[<<s, d>>]
  <1>1. /\ DOMAIN ps = Rank /\ DOMAIN pending = Rank /\ DOMAIN phase = Rank
    BY DEF Walking, Shape, StoreOK, ControlOK
  <1>2. \A s, d \in Rank : migrating'[<<s, d>>] =
              IF s = r /\ d \in UpdateReceivers(r)
              THEN Append(migrating[<<s, d>>], [u \in Particle |-> MigrationNoteFor(r, d, u)])
              ELSE migrating[<<s, d>>]
    <2> TAKE s, d \in Rank
    <2>1. <<s, d>> \in Channels /\ <<s, d>>[1] = s /\ <<s, d>>[2] = d
      BY DEF Channels
    <2> QED
      BY <2>1, Zenon DEF WalkMasters
  <1> QED
    BY <1>1, <1>2 DEF WalkMasters

LEMMA WalkControl ==
  ASSUME NEW k, NEW h, NEW k1, NEW h1, NEW r \in Rank, Walking(r, k, h, k1, h1), WalkMasters(r)
  PROVE  /\ Control(k1)'
         /\ \A q \in Rank : Done(k1, q)' = Done(k, q)
  <1>1. Control(k) /\ phase[r] = "migrate"
    BY DEF Walking, Traced
  <1>2. Control(k1)'
    <2> SUFFICES ASSUME NEW q \in Rank
                 PROVE  /\ phase'[q] # "migrate" => k1[q] # 0
                        /\ pending'[q] # {} <=> phase'[q] \in {"update", "parse"}
      BY ClockWalk DEF Control
    <2>1. CASE q = r
      BY <1>1, <2>1, ClockWalk, WalkState DEF Control
    <2>2. CASE q # r
      BY <1>1, <2>2, ClockWalk, WalkState DEF Control
    <2> QED
      BY <2>1, <2>2
  <1>3. ASSUME NEW q \in Rank
        PROVE  Done(k1, q)' = Done(k, q)
    <2>1. CASE q = r
      <3>1. phase[r] = "migrate" /\ phase'[r] \in {"update", "resolve"}
        BY <1>1, WalkState
      <3>2. k1[r] = k[r] + 1 /\ k[r] \in Nat
        BY ClockWalk
      <3> QED
        BY <2>1, <3>1, <3>2 DEF Done
    <2>2. CASE q # r
      BY <1>1, <2>2, ClockWalk, WalkState DEF Done
    <2> QED
      BY <2>1, <2>2
  <1> QED
    BY <1>2, <1>3

(* Those who are ahead of the owner without a copy get none in the next chapter,
   unless they are still to read of it. *)
LEMMA NotYet ==
  ASSUME ImagesAgree, StepsSeen, NEW k, NEW h, NEW k1, NEW h1, NEW r \in Rank,
         Walking(r, k, h, k1, h1), NEW u \in Shared, IsHandled(r, u),
         NEW d \in Rank, h[u].len < k[d], NEW s \in Rank, d \in Spread(h1[u].mids[h[u].len + 1], s)
  PROVE  /\ k[d] = h[u].len + 1
         /\ \/ phase[d] \in {"update", "resolve"}
            \/ phase[d] = "parse" /\ s \in pending[d]
  <1> DEFINE n == h[u].len
             m == h1[u].mids[n + 1]
  <1>1. n \in Nat /\ Sound(m) /\ m.holders \subseteq h[u].ends[n].holders
    BY StoryGrows
  <1>2. Traced(k, h) /\ Control(k) /\ Seconds(k, h)
    BY DEF Walking, Traced
  <1>3. s \in m.holders /\ d \in Nbr[s]
    BY <1>1, SpreadFacts
  <1>4. Done(k, s) <= n
    BY <1>1, <1>2, <1>3, HoldersBehind
  <1> HIDE DEF n, m
  <1>5. Done(k, d) \in Nat /\ Done(k, s) \in Nat /\ k[d] \in Nat
    BY <1>2, DoneType
  <1>6. ~Read2(k, d, s, n + 1)
    <2>1. Sends2(h, s, d, n + 1)
      BY <1>3 DEF Sends2
    <2>2. n + 1 \in Nat \ {0}
      BY <1>1
    <2>3. Read2(k, d, s, n + 1) => n + 1 <= Done(k, s)
      BY <1>2, <2>1, <2>2 DEF Seconds
    <2> QED
      BY <1>1, <1>4, <1>5, <2>3
  <1>7. n < k[d]
    BY DEF n
  <1>8. Done(k, d) <= n + 1 /\ (Done(k, d) = n + 1 => phase[d] = "parse" /\ s \in pending[d])
    BY <1>1, <1>5, <1>6 DEF Read2
  <1>9. Done(k, d) = IF phase[d] \in {"update", "resolve"} THEN k[d] - 1 ELSE k[d]
    BY DEF Done
  <1>10. CASE Done(k, d) = n + 1
    BY <1>1, <1>5, <1>7, <1>8, <1>9, <1>10 DEF n
  <1>11. CASE Done(k, d) # n + 1
    BY <1>1, <1>5, <1>7, <1>8, <1>9, <1>11 DEF n
  <1> QED
    BY <1>10, <1>11

LEMMA WalkShown ==
  ASSUME ImagesAgree, StepsSeen, NEW k, NEW h, NEW k1, NEW h1, NEW r \in Rank,
         Walking(r, k, h, k1, h1), WalkMasters(r)
  PROVE  Shown(k1, h1)'
  <1> SUFFICES ASSUME NEW u \in Shared, NEW d \in Rank
               PROVE  Shows(h1[u], u, d, k1[d])'
    BY DEF Shown
  <1> DEFINE t == h[u]
             n == t.len
             v == h1[u]
             K == k[d]
  <1>1. /\ Tale(t, k) /\ n \in Nat /\ Traced(k, h) /\ StoreOK /\ phase[r] = "migrate" /\ Control(k)
        /\ K \in Nat /\ Shows(t, u, d, K) /\ u \in Particle /\ Sound(t.ends[n])
        /\ phase[d] # "migrate" => K # 0
    BY TaleFacts DEF Walking, Traced, Tales, Tale, Shape, Control, Shown, Shared
  <1>2. CASE d # r /\ ~IsHandled(r, u)
    <2>1. v = t /\ k1[d] = K
      BY <1>2, StoryKept, ClockWalk
    <2>2. ps'[d][u] = ps[d][u] /\ phase'[d] = phase[d] /\ pending'[d] = pending[d]
      BY <1>1, <1>2, WalkState
    <2> QED
      BY <1>1, <2>1, <2>2 DEF Shows, ShowsRound, ShowsLast
  <1>3. CASE d # r /\ IsHandled(r, u)
    <2> DEFINE c == t.ends[n]
               m == v.mids[n + 1]
               w == Resolved(m)
    <2>1. /\ c.owner = r /\ Sound(c) /\ Sound(m) /\ v.len = n + 1
          /\ \A j \in Nat : j <= n => v.ends[j] = t.ends[j] /\ v.mids[j] = t.mids[j]
          /\ v.ends[n + 1] = w /\ Turned(c, m, w) /\ m.holders \subseteq c.holders
      BY <1>3, StoryGrows
    <2>2. ps'[d][u] = ps[d][u] /\ phase'[d] = phase[d] /\ pending'[d] = pending[d] /\ k1[d] = K
      BY <1>1, <1>3, WalkState, ClockWalk
    <2>3. \A s \in Rank : n < K /\ d \in Spread(m, s) =>
             /\ K = n + 1
             /\ phase[d] \in {"update", "resolve"} \/ (phase[d] = "parse" /\ s \in pending[d])
      BY <1>3, NotYet
    <2>4. w.owner = m.owner /\ w.holders = (m.holders \ Retired(m)) \cup UNION {Spread(m, s) : s \in Rank}
      BY ResolvedFields
    <2>5. m.owner \in c.holders \cup {NoRank}
      BY <2>1 DEF Turned
    <2> HIDE DEF c, w, m, t, n, v, K
    <2>6. CASE K <= n
      <3>1. ShowsRound(t, u, d, K)
        BY <1>1, <2>6 DEF Shows, n
      <3>2. v.ends[K] = t.ends[K] /\ v.mids[K] = t.mids[K]
        BY <1>1, <2>1, <2>6
      <3>3. phase[d] = "update" => v.ends[K - 1] = t.ends[K - 1]
        <4>1. phase[d] = "update" => K - 1 \in Nat /\ K - 1 <= n
          BY <1>1, <2>6
        <4> QED
          BY <2>1, <4>1
      <3>4. ShowsRound(v, u, d, K)'
        BY <2>2, <3>1, <3>2, <3>3 DEF ShowsRound
      <3>5. K <= v.len
        BY <1>1, <2>1, <2>6
      <3> QED
        BY <2>2, <3>4, <3>5 DEF Shows, v
    <2>7. CASE K > n
      <3>1. ShowsLast(t, u, d, K)
        BY <1>1, <2>7 DEF Shows, n
      <3>2. /\ ps[d][u] = SlotIn(c, d)
            /\ d \in c.holders => K = n + 1 /\ phase[d] = "update" /\ r \in pending[d]
        BY <2>1, <3>1 DEF ShowsLast, c, n
      <3>3. v.ends[n] = c
        BY <1>1, <2>1 DEF c
      <3>4. CASE d \in c.holders
        <4>1. K = n + 1 /\ phase[d] = "update" /\ r \in pending[d]
          BY <3>2, <3>4
        <4>2. v.ends[K - 1] = c
          BY <1>1, <3>3, <4>1
        <4>3. ShowsRound(v, u, d, K)'
          BY <2>1, <2>2, <3>2, <4>1, <4>2 DEF ShowsRound
        <4> QED
          BY <1>1, <2>1, <2>2, <4>1, <4>3 DEF Shows, v
      <3>5. CASE d \notin c.holders
        <4>1. ps[d][u] = Absent /\ SlotIn(c, d) = Absent /\ SlotIn(m, d) = Absent /\ d \notin m.holders
          BY <2>1, <3>2, <3>5 DEF SlotIn
        <4>2. d # m.owner
          BY <2>5, <3>5, RankAssumption
        <4>3. CASE K = n + 1
          <5>1. phase[d] \in {"integrate", "migrate"} => SlotIn(w, d) = Absent
            BY <2>3, <2>4, <2>7, <4>1 DEF SlotIn
          <5>2. phase[d] = "parse" => Partly(m, d, pending[d]) = Absent
            BY <2>3, <2>7, <4>1 DEF Partly
          <5>3. phase[d] = "update" => v.ends[K - 1] = c
            BY <1>1, <3>3, <4>3
          <5>4. v.ends[K] = w /\ v.mids[K] = m
            BY <2>1, <4>3 DEF m
          <5>5. ShowsRound(v, u, d, K)'
            BY <2>2, <2>4, <4>1, <4>2, <5>1, <5>2, <5>3, <5>4 DEF ShowsRound
          <5> QED
            BY <1>1, <2>1, <2>2, <4>3, <5>5 DEF Shows, v
        <4>4. CASE K # n + 1
          <5>1. d \notin w.holders
            BY <2>3, <2>4, <2>7, <4>1, <4>4
          <5>2. SlotIn(w, d) = Absent
            BY <5>1 DEF SlotIn
          <5>3. ShowsLast(v, u, d, K)'
            BY <2>1, <2>2, <4>1, <5>1, <5>2 DEF ShowsLast
          <5>4. ~(K <= v.len)
            BY <1>1, <2>1, <2>7, <4>4
          <5> QED
            BY <2>2, <5>3, <5>4 DEF Shows, v
        <4> QED
          BY <4>3, <4>4
      <3> QED
        BY <3>4, <3>5
    <2> QED
      BY <1>1, <2>6, <2>7
  <1>4. CASE d = r /\ IsHandled(r, u)
    <2> DEFINE c == t.ends[n]
               m == v.mids[n + 1]
    <2>1. /\ K = n /\ c.owner = r /\ v.len = n + 1
          /\ \A j \in Nat : j <= n => v.ends[j] = t.ends[j]
          /\ SlotAfterMigration(r, u) = SlotIn(m, r)
      BY <1>4, StoryGrows
    <2>2. ps'[r][u] = SlotIn(m, r) /\ k1[r] = n + 1
      BY <1>1, <1>4, <2>1, WalkState, ClockWalk
    <2>3. phase'[r] \in {"update", "resolve"} /\ r \notin pending'[r]
      BY WalkState, WalkPartners
    <2> HIDE DEF t, n, v, K
    <2>4. v.ends[(n + 1) - 1] = c /\ v.mids[n + 1] = m
      BY <1>1, <2>1
    <2> HIDE DEF c, m
    <2>5. ShowsRound(v, u, r, n + 1)'
      BY <2>1, <2>2, <2>3, <2>4 DEF ShowsRound
    <2> QED
      BY <1>1, <1>4, <2>1, <2>2, <2>5 DEF Shows, v
  <1>5. CASE d = r /\ ~IsHandled(r, u)
    <2>1. v = t /\ k1[r] = K + 1 /\ ps'[r][u] = ps[r][u]
      BY <1>1, <1>5, StoryKept, ClockWalk, WalkState
    <2>2. \/ K <= n /\ t.ends[K].owner # r /\ ps[r][u] = SlotIn(t.ends[K], r) /\ Sound(t.ends[K])
          \/ K > n /\ ps[r][u] = Absent /\ r \notin t.ends[n].holders
      <3>1. K = k[r]
        BY <1>5
      <3>2. /\ K <= n /\ t.ends[K].owner = r => IsHandled(r, u)
            /\ K <= n /\ t.ends[K].owner # r => ps[r][u] = SlotIn(t.ends[K], r) /\ Sound(t.ends[K])
            /\ K > n => ps[r][u] = Absent /\ r \notin t.ends[n].holders
        BY <1>1, <3>1, OwnerStory
      <3> HIDE DEF t, n, K
      <3>3. CASE K <= n
        BY <1>5, <3>2, <3>3
      <3>4. CASE K > n
        BY <3>2, <3>4
      <3> QED
        BY <1>1, <3>3, <3>4
    <2>3. /\ phase'[r] = (IF pending'[r] = {} THEN "resolve" ELSE "update")
          /\ \A s \in Rank : s \in pending'[r] <=> Sends1(h, s, r, K + 1)
      BY <1>5, WalkState, WalkPartners
    <2>4. K <= n /\ r \in t.ends[K].holders /\ t.ends[K].owner # r
            => t.ends[K].owner \in pending'[r] /\ phase'[r] = "update"
      <3> SUFFICES ASSUME K <= n, r \in t.ends[K].holders, t.ends[K].owner # r
                   PROVE  t.ends[K].owner \in pending'[r] /\ phase'[r] = "update"
        OBVIOUS
      <3>1. t.ends[K].owner \in Rank
        BY <1>1, TaleFacts, SoundFacts
      <3>2. (K + 1) - 1 = K /\ K + 1 <= n + 1
        BY <1>1
      <3>3. Sends1(h, t.ends[K].owner, r, K + 1)
        BY <3>2 DEF Sends1
      <3> QED
        BY <2>3, <3>1, <3>3
    <2> HIDE DEF t, n, v, K
    <2>5. CASE K > n
      <3>1. ShowsLast(t, u, r, K + 1)'
        BY <2>1, <2>2, <2>5, <1>1 DEF ShowsLast, SlotIn, n
      <3> QED
        BY <1>1, <1>5, <2>1, <2>5, <3>1 DEF Shows, n, v
    <2>6. CASE K = n
      <3>1. ShowsLast(t, u, r, K + 1)'
        BY <2>1, <2>2, <2>4, <2>6, <1>1 DEF ShowsLast, n
      <3> QED
        BY <1>1, <1>5, <2>1, <2>6, <3>1 DEF Shows, n, v
    <2>7. CASE K < n
      <3>1. K <= n /\ t.ends[K].owner # r /\ ps[r][u] = SlotIn(t.ends[K], r) /\ Sound(t.ends[K])
        BY <1>1, <2>2, <2>7
      <3>2. t.mids[K + 1].holders \subseteq t.ends[K].holders
        <4>1. K + 1 \in Nat /\ K + 1 <= t.len /\ K + 1 # 0 /\ (K + 1) - 1 = K
          BY <1>1, <2>7 DEF n
        <4> QED
          BY <1>1, <4>1, TaleFacts
      <3>3. t.ends[(K + 1) - 1] = t.ends[K]
        BY <1>1
      <3>4. CASE r \in t.ends[K].holders
        BY <1>1, <1>5, <2>1, <2>4, <2>7, <3>1, <3>3, <3>4 DEF Shows, ShowsRound, n, v
      <3>5. CASE r \notin t.ends[K].holders
        <4>1. ps[r][u] = Absent /\ SlotIn(t.mids[K + 1], r) = Absent /\ SlotIn(t.ends[K], r) = Absent
          BY <3>1, <3>2, <3>5 DEF SlotIn
        <4>2. phase'[r] \in {"update", "resolve"}
          BY <2>3
        <4> QED
          BY <1>1, <1>5, <2>1, <2>7, <3>3, <4>1, <4>2 DEF Shows, ShowsRound, n, v
      <3> QED
        BY <3>4, <3>5
    <2> QED
      BY <1>1, <2>5, <2>6, <2>7
  <1> QED
    BY <1>2, <1>3, <1>4, <1>5

LEMMA WalkQuiet ==
  ASSUME NEW k, NEW h, NEW k1, NEW h1, NEW r \in Rank, Walking(r, k, h, k1, h1), WalkMasters(r)
  PROVE  Quiet'
  <1> SUFFICES ASSUME NEW u \in NonCommunicating, NEW q \in Rank
               PROVE  ~IsGhost(q, u)' /\ ps'[q][u].told = {}
    BY DEF Quiet
  <1>1. u \in Particle /\ StoreOK /\ ~IsGhost(q, u) /\ ps[q][u].told = {}
    BY ParticleAssumption DEF Walking, Shape, Traced, Quiet
  <1>2. ~IsHandled(r, u)
    BY DEF IsHandled, Communicates
  <1>3. ps'[q][u] = ps[q][u]
    BY <1>1, <1>2, SlotKept, WalkState
  <1> QED
    BY <1>1, <1>3 DEF IsGhost

(* What is sent in the rounds so far does not depend on the new chapter. *)
LEMMA Sends1Grows ==
  ASSUME ImagesAgree, StepsSeen, NEW k, NEW h, NEW k1, NEW h1, NEW r \in Rank,
         Walking(r, k, h, k1, h1), NEW s \in Rank, NEW d \in Rank, NEW j \in Nat \ {0}
  PROVE  /\ Sends1(h, s, d, j) => Sends1(h1, s, d, j)
         /\ Sends1(h1, s, d, j) /\ j <= k1[s] => Sends1(h, s, d, j)
  <1>1. ASSUME NEW u \in Shared
        PROVE  /\ h[u].len \in Nat
               /\ j <= h[u].len + 1 => j <= h1[u].len + 1 /\ h1[u].ends[j - 1] = h[u].ends[j - 1]
               /\ j <= h1[u].len + 1 /\ h1[u].ends[j - 1].owner = s /\ j <= k1[s]
                    => j <= h[u].len + 1
    <2>1. h[u].len \in Nat
      BY DEF Walking, Traced, Tales, Tale
    <2>2. CASE ~IsHandled(r, u)
      BY <2>1, <2>2, StoryKept
    <2>3. CASE IsHandled(r, u)
      <3> DEFINE n == h[u].len
      <3>1. h1[u].len = n + 1 /\ \A i \in Nat : i <= n => h1[u].ends[i] = h[u].ends[i]
        BY <2>3, StoryGrows
      <3>2. j - 1 \in Nat
        OBVIOUS
      <3>3. Tale(h1[u], k1)
        BY WalkTales DEF Tales
      <3>4. h1[u].ends[n + 1].owner = s => k1[s] <= n + 1
        BY <3>1, <3>3, RankAssumption DEF Tale
      <3>5. k1[s] \in Nat
        BY ClockWalk
      <3>6. j = n + 2 => h1[u].ends[j - 1] = h1[u].ends[n + 1]
        BY <2>1
      <3> HIDE DEF n
      <3> QED
        BY <2>1, <3>1, <3>2, <3>4, <3>5, <3>6 DEF n
    <2> QED
      BY <2>2, <2>3
  <1> QED
    BY <1>1 DEF Sends1

LEMMA Sends2Grows ==
  ASSUME ImagesAgree, StepsSeen, NEW k, NEW h, NEW k1, NEW h1, NEW r \in Rank,
         Walking(r, k, h, k1, h1), NEW s \in Rank, NEW d \in Rank, NEW j \in Nat \ {0}
  PROVE  /\ Sends2(h, s, d, j) => Sends2(h1, s, d, j)
         /\ Sends2(h1, s, d, j) /\ j <= Done(k, s) => Sends2(h, s, d, j)
         /\ Sends2(h1, s, d, j) /\ j <= Done(k, d) => Sends2(h, s, d, j)
  <1>1. ASSUME NEW u \in Shared
        PROVE  /\ j <= h[u].len => j <= h1[u].len /\ h1[u].mids[j] = h[u].mids[j]
               /\ j <= h1[u].len /\ s \in h1[u].mids[j].holders /\ h1[u].mids[j].owner = d
                  /\ (j <= Done(k, s) \/ j <= Done(k, d)) => j <= h[u].len
    <2>1. h[u].len \in Nat /\ Traced(k, h)
      BY DEF Walking, Traced, Tales, Tale
    <2>2. CASE ~IsHandled(r, u)
      BY <2>1, <2>2, StoryKept
    <2>3. CASE IsHandled(r, u)
      <3> DEFINE n == h[u].len
                 c == h[u].ends[n]
                 m == h1[u].mids[n + 1]
      <3>1. /\ h1[u].len = n + 1 /\ \A i \in Nat : i <= n => h1[u].mids[i] = h[u].mids[i]
            /\ Sound(m) /\ m.holders \subseteq c.holders
        BY <2>3, StoryGrows
      <3>2. s \in m.holders => Done(k, s) <= n
        BY <2>1, <3>1, HoldersBehind
      <3>3. m.owner = d => Done(k, d) <= n
        <4>1. m.owner = d => d \in m.holders
          BY <3>1, RankAssumption DEF Sound
        <4> QED
          BY <2>1, <3>1, <4>1, HoldersBehind
      <3>4. Done(k, s) \in Nat /\ Done(k, d) \in Nat
        BY <2>1, DoneType DEF Traced
      <3> HIDE DEF n, c
      <3> QED
        BY <2>1, <3>1, <3>2, <3>3, <3>4 DEF n
    <2> QED
      BY <2>2, <2>3
  <1> QED
    BY <1>1 DEF Sends2

LEMMA WalkUnder1 ==
  ASSUME ImagesAgree, StepsSeen, NEW k, NEW h, NEW k1, NEW h1, NEW r \in Rank,
         Walking(r, k, h, k1, h1), WalkMasters(r), NEW s \in Rank, NEW d \in Rank
  PROVE  Under1(k1, h1, s, d)' =
           Under1(k, h, s, d) \cup IF s = r /\ d \in UpdateReceivers(r) THEN {k[r] + 1} ELSE {}
  <1> DEFINE K == k[r]
  <1>1. /\ Traced(k, h) /\ StoreOK /\ phase[r] = "migrate" /\ K \in Nat
        /\ k \in [Rank -> Nat] /\ k1 \in [Rank -> Nat]
    BY DEF Walking, Traced, Control, Shape
  <1>2. ASSUME NEW j \in Nat \ {0}, Sends1(h, s, d, j), j <= k1[s]
        PROVE  Read1(k1, d, s, j)' <=> Read1(k, d, s, j)
    <2>1. CASE d # r
      BY <2>1, ClockWalk, WalkState DEF Read1
    <2>2. CASE d = r
      <3>1. Read1(k, r, s, j) <=> j <= K
        BY <1>1 DEF Read1
      <3>2. k1[r] = K + 1
        BY ClockWalk
      <3>3. j = K + 1 => s \in pending'[r] /\ phase'[r] = "update"
        BY <1>2, <2>2, WalkPartners, WalkState
      <3>4. Read1(k1, r, s, j)' <=> j < K + 1 \/ (j = K + 1 /\ ~(phase'[r] = "update" /\ s \in pending'[r]))
        BY <3>2 DEF Read1
      <3> HIDE DEF K
      <3> QED
        BY <1>1, <2>2, <3>1, <3>3, <3>4
    <2> QED
      BY <2>1, <2>2
  <1>3. ASSUME Sends1(h, r, d, K + 1)
        PROVE  ~Read1(k, d, r, K + 1)
    <2>1. PICK u \in Shared : /\ K + 1 <= h[u].len + 1
                              /\ h[u].ends[(K + 1) - 1].owner = r
                              /\ d \in h[u].ends[(K + 1) - 1].holders \ {r}
      BY <1>3 DEF Sends1
    <2>2. h[u].len \in Nat /\ (K + 1) - 1 = K
      BY <1>1 DEF Traced, Tales, Tale
    <2>3. K <= h[u].len /\ h[u].ends[K].owner = r /\ d \in h[u].ends[K].holders
      BY <1>1, <2>1, <2>2
    <2>4. IsHandled(r, u)
      BY <1>1, <2>3, OwnerStory
    <2>5. K = h[u].len
      BY <1>1, <2>4, OwnerStory
    <2>6. k[d] <= K \/ (k[d] = K + 1 /\ phase[d] = "update" /\ r \in pending[d])
      BY <1>1, <2>3, <2>5, HoldersBehind
    <2>7. k[d] \in Nat
      BY <1>1
    <2> HIDE DEF K
    <2> QED
      BY <1>1, <2>6, <2>7 DEF Read1
  <1>4. ASSUME NEW j \in Nat \ {0}
        PROVE  j \in Under1(k1, h1, s, d)' <=>
                 j \in Under1(k, h, s, d) \/ (s = r /\ d \in UpdateReceivers(r) /\ j = K + 1)
    <2>1. j \in Under1(k1, h1, s, d)' <=> Sends1(h1, s, d, j) /\ j <= k1[s] /\ ~Read1(k1, d, s, j)'
      BY DEF Under1, Sends1
    <2>2. j \in Under1(k1, h1, s, d)' <=> Sends1(h, s, d, j) /\ j <= k1[s] /\ ~Read1(k, d, s, j)
      BY <1>2, <2>1, Sends1Grows
    <2>3. j \in Under1(k, h, s, d) <=> Sends1(h, s, d, j) /\ j <= k[s] /\ ~Read1(k, d, s, j)
      BY DEF Under1
    <2>4. CASE s # r
      BY <2>2, <2>3, <2>4, ClockWalk
    <2>5. CASE s = r
      <3>1. k1[r] = K + 1
        BY ClockWalk
      <3>2. j <= K + 1 <=> j <= K \/ j = K + 1
        BY <1>1
      <3>3. d \in UpdateReceivers(r) <=> Sends1(h, r, d, K + 1)
        BY WalkPartners
      <3> HIDE DEF K
      <3> QED
        BY <1>3, <2>2, <2>3, <2>5, <3>1, <3>2, <3>3 DEF K
    <2> QED
      BY <2>4, <2>5
  <1>5. Under1(k1, h1, s, d)' \subseteq Nat \ {0} /\ Under1(k, h, s, d) \subseteq Nat \ {0}
    BY DEF Under1
  <1>6. K + 1 \in Nat \ {0}
    BY <1>1
  <1> HIDE DEF K
  <1> DEFINE A == Under1(k1, h1, s, d)'
             B == Under1(k, h, s, d)
             C == IF s = r /\ d \in UpdateReceivers(r) THEN {K + 1} ELSE {}
  <1>7. \A j : j \in A <=> j \in B \/ j \in C
    BY <1>4, <1>5, <1>6
  <1>8. A = B \cup C
    <2> HIDE DEF A, B, C
    <2> QED
      BY <1>7
  <1> QED
    BY <1>8 DEF K

LEMMA WalkSays1 ==
  ASSUME ImagesAgree, StepsSeen, NEW k, NEW h, NEW k1, NEW h1, NEW r \in Rank,
         Walking(r, k, h, k1, h1), NEW s \in Rank, NEW d \in Rank, NEW j \in Nat \ {0}, j <= k[s]
  PROVE  Says1(h1, s, d)[j] = Says1(h, s, d)[j]
  <1>1. Traced(k, h) /\ StoreOK /\ phase[r] = "migrate" /\ k[r] \in Nat /\ k[s] \in Nat
    BY DEF Walking, Traced, Control, Shape
  <1> DEFINE Note(g, u, i) == IF u \in Shared /\ i <= g[u].len /\ g[u].ends[i - 1].owner = s
                              THEN FirstNote(g[u].ends[i - 1], g[u].mids[i], d) ELSE Silence
  <1>2. \A g : \A i \in Nat : Says1(g, s, d)[i] = [u \in Particle |-> Note(g, u, i)]
    BY DEF Says1
  <1>3. ASSUME NEW u \in Particle
        PROVE  Note(h1, u, j) = Note(h, u, j)
    <2>1. CASE u \notin Shared
      BY <2>1
    <2>2. CASE u \in Shared /\ ~IsHandled(r, u)
      BY <2>2, StoryKept
    <2>3. CASE u \in Shared /\ IsHandled(r, u)
      <3> DEFINE n == h[u].len
      <3>1. /\ n \in Nat /\ k[r] = n /\ h[u].ends[n].owner = r /\ h1[u].len = n + 1
            /\ \A i \in Nat : i <= n => h1[u].ends[i] = h[u].ends[i] /\ h1[u].mids[i] = h[u].mids[i]
        BY <2>3, StoryGrows
      <3>2. j - 1 \in Nat
        OBVIOUS
      <3>3. CASE j <= n
        <4>1. j - 1 <= n /\ j <= n + 1
          BY <3>1, <3>3
        <4>2. h1[u].ends[j - 1] = h[u].ends[j - 1] /\ h1[u].mids[j] = h[u].mids[j]
          BY <3>1, <3>2, <3>3, <4>1
        <4> QED
          BY <3>1, <3>3, <4>1, <4>2
      <3>4. CASE j = n + 1
        <4>1. j - 1 = n /\ ~(j <= n)
          BY <3>1, <3>4
        <4>2. h1[u].ends[j - 1].owner = r /\ s # r
          BY <1>1, <3>1, <3>4, <4>1
        <4> QED
          BY <4>1, <4>2
      <3>5. CASE j > n + 1
        BY <3>1, <3>5
      <3> QED
        BY <3>1, <3>3, <3>4, <3>5
    <2> QED
      BY <2>1, <2>2, <2>3
  <1>4. /\ Says1(h1, s, d)[j] = [u \in Particle |-> Note(h1, u, j)]
        /\ Says1(h, s, d)[j] = [u \in Particle |-> Note(h, u, j)]
    <2> HIDE DEF Note
    <2> QED
      BY <1>2
  <1> HIDE DEF Note
  <1> QED
    BY <1>3, <1>4

LEMMA WalkSaysNew ==
  ASSUME ImagesAgree, StepsSeen, NEW k, NEW h, NEW k1, NEW h1, NEW r \in Rank,
         Walking(r, k, h, k1, h1), NEW s \in Rank, NEW d \in Rank, s = r
  PROVE  Says1(h1, s, d)[k[r] + 1] = [u \in Particle |-> MigrationNoteFor(r, d, u)]
  <1>1. Traced(k, h) /\ StoreOK /\ phase[r] = "migrate" /\ k[r] \in Nat /\ k[s] \in Nat
    BY DEF Walking, Traced, Control, Shape
  <1> DEFINE Note(g, u, j) == IF u \in Shared /\ j <= g[u].len /\ g[u].ends[j - 1].owner = s
                              THEN FirstNote(g[u].ends[j - 1], g[u].mids[j], d) ELSE Silence
  <1>2. \A g : \A j \in Nat : Says1(g, s, d)[j] = [u \in Particle |-> Note(g, u, j)]
    BY DEF Says1
  <1>3. ASSUME NEW u \in Particle
        PROVE  Note(h1, u, k[r] + 1) = MigrationNoteFor(r, d, u)
    <2> DEFINE j == k[r] + 1
    <2>1. CASE ~IsHandled(r, u)
      <3>1. MigrationNoteFor(r, d, u) = Silence
        BY <1>1, <2>1, SlotKept
      <3>2. ~(u \in Shared /\ j <= h1[u].len /\ h1[u].ends[j - 1].owner = s)
        <4> SUFFICES ASSUME u \in Shared PROVE ~(j <= h1[u].len /\ h1[u].ends[j - 1].owner = s)
          OBVIOUS
        <4>1. h1[u] = h[u] /\ h[u].len \in Nat
          BY <1>1, <2>1, StoryKept DEF Traced, Tales, Tale
        <4>2. k[r] <= h[u].len => h[u].ends[k[r]].owner # r
          BY <1>1, <2>1, OwnerStory
        <4>3. j - 1 = k[r] /\ (j <= h[u].len => k[r] <= h[u].len)
          BY <1>1, <4>1
        <4> QED
          BY <4>1, <4>2, <4>3
      <3> QED
        BY <3>1, <3>2
    <2>2. CASE IsHandled(r, u)
      <3> DEFINE n == h[u].len
                 m == h1[u].mids[n + 1]
      <3>0. u \in Shared
        BY <2>2 DEF IsHandled, Communicates, Shared
      <3>1. /\ n \in Nat /\ k[r] = n /\ h[u].ends[n].owner = r /\ h1[u].len = n + 1
            /\ \A i \in Nat : i <= n => h1[u].ends[i] = h[u].ends[i]
            /\ \A q \in Rank : MigrationNoteFor(r, q, u) = FirstNote(h[u].ends[n], m, q)
        BY <2>2, <3>0, StoryGrows
      <3>2. j = n + 1 /\ j - 1 = n /\ h1[u].ends[j - 1] = h[u].ends[n] /\ j <= h1[u].len
        BY <3>1
      <3> HIDE DEF n
      <3>3. h1[u].mids[j] = m
        BY <3>2
      <3> HIDE DEF j, m
      <3>4. Note(h1, u, j) = FirstNote(h[u].ends[n], m, d)
        BY <3>0, <3>1, <3>2, <3>3
      <3> QED
        BY <3>1, <3>4 DEF j
    <2> QED
      BY <2>1, <2>2
  <1>4. k[r] + 1 \in Nat
    BY <1>1
  <1> HIDE DEF Note
  <1> QED
    BY <1>2, <1>3, <1>4

LEMMA WalkFirsts ==
  ASSUME ImagesAgree, StepsSeen, NEW k, NEW h, NEW k1, NEW h1, NEW r \in Rank,
         Walking(r, k, h, k1, h1), WalkMasters(r)
  PROVE  Firsts(k1, h1)'
  <1>1. /\ Traced(k, h) /\ Firsts(k, h) /\ MigratingOK /\ StoreOK /\ phase[r] = "migrate"
        /\ k \in [Rank -> Nat] /\ k1 \in [Rank -> Nat] /\ ControlOK
    BY DEF Walking, Traced, Control, Shape
  <1>2. ASSUME NEW q \in Rank, phase'[q] = "update", NEW s \in pending'[q]
        PROVE  Sends1(h1, s, q, k1[q])
    <2>1. CASE q = r
      <3>1. s \in UpdateSenders(r) /\ s \in Rank
        BY <1>2, <2>1, WalkState, WalkPartners
      <3>2. Sends1(h, s, r, k[r] + 1) /\ k[r] + 1 \in Nat \ {0}
        BY <1>1, <3>1, WalkPartners
      <3> QED
        BY <2>1, <3>1, <3>2, Sends1Grows, ClockWalk
    <2>2. CASE q # r
      <3>1. s \in pending[q] /\ phase[q] = "update" /\ s \in Rank
        BY <1>1, <1>2, <2>2, WalkState DEF ControlOK
      <3>2. Sends1(h, s, q, k[q]) /\ k[q] \in Nat \ {0}
        BY <1>1, <3>1 DEF Firsts, Traced, Control
      <3> QED
        BY <2>2, <3>1, <3>2, Sends1Grows, ClockWalk
    <2> QED
      BY <2>1, <2>2
  <1>3. ASSUME NEW s \in Rank, NEW d \in Rank
        PROVE  Lists(migrating'[<<s, d>>], Under1(k1, h1, s, d)', Says1(h1, s, d))
    <2> DEFINE A == Under1(k, h, s, d)
               F == Says1(h, s, d)
               F1 == Says1(h1, s, d)
               b == migrating[<<s, d>>]
    <2>1. Lists(b, A, F) /\ A \subseteq Nat /\ b \in Seq([Particle -> MigrationNote])
      BY <1>1 DEF Firsts, Under1, MigratingOK, Channels
    <2>2. \A j \in A : F1[j] = F[j] /\ j <= k[s]
      <3>1. \A j \in A : j \in Nat \ {0} /\ j <= k[s]
        BY DEF Under1
      <3>2. \A j \in Nat \ {0} : j <= k[s] => F1[j] = F[j]
        BY WalkSays1
      <3> HIDE DEF A, F, F1
      <3> QED
        BY <3>1, <3>2
    <2> HIDE DEF A, F, F1, b
    <2>3. Lists(b, A, F1)
      BY <2>1, <2>2, ListsSame
    <2>4. CASE ~(s = r /\ d \in UpdateReceivers(r))
      <3>1. migrating'[<<s, d>>] = b
        <4>1. migrating'[<<s, d>>] =
                IF s = r /\ d \in UpdateReceivers(r)
                THEN Append(b, [u \in Particle |-> MigrationNoteFor(r, d, u)]) ELSE b
          BY WalkState DEF b
        <4> QED
          BY <2>4, <4>1
      <3>2. Under1(k1, h1, s, d)' = A
        BY <2>4, WalkUnder1 DEF A
      <3> QED
        BY <2>3, <3>1, <3>2 DEF F1
    <2>5. CASE s = r /\ d \in UpdateReceivers(r)
      <3> DEFINE K == k[r] + 1
                 v == [u \in Particle |-> MigrationNoteFor(r, d, u)]
      <3>1. migrating'[<<s, d>>] = Append(b, v)
        BY <2>5, WalkState DEF b
      <3>2. Under1(k1, h1, s, d)' = A \cup {K}
        BY <2>5, WalkUnder1 DEF A
      <3>3. F1[K] = v
        BY <2>5, WalkSaysNew DEF F1
      <3>4. K \in Nat /\ \A j \in A : j < K
        BY <1>1, <2>1, <2>2, <2>5
      <3>5. v \in [Particle -> MigrationNote]
        BY <1>1, MigrationNoteForOK DEF MigrationSentOK
      <3> HIDE DEF K, v
      <3>6. Lists(Append(b, v), A \cup {K}, F1)
        BY <2>1, <2>3, <3>3, <3>4, <3>5, ListsAppend
      <3> QED
        BY <3>1, <3>2, <3>6 DEF F1
    <2> QED
      BY <2>4, <2>5
  <1> QED
    BY <1>2, <1>3 DEF Firsts, Says1

LEMMA WalkSays2 ==
  ASSUME ImagesAgree, StepsSeen, NEW k, NEW h, NEW k1, NEW h1, NEW r \in Rank,
         Walking(r, k, h, k1, h1), NEW s \in Rank, NEW d \in Rank,
         NEW j \in Nat \ {0}, j <= Done(k, s)
  PROVE  Says2(h1, s, d)[j] = Says2(h, s, d)[j]
  <1>1. Traced(k, h)
    BY DEF Walking
  <1> DEFINE Note(g, u) == IF u \in Shared /\ j <= g[u].len THEN SecondNote(g[u].mids[j], s, d) ELSE Nothing
  <1>2. \A g : Says2(g, s, d)[j] = [u \in Particle |-> Note(g, u)]
    BY DEF Says2
  <1>3. ASSUME NEW u \in Particle
        PROVE  Note(h1, u) = Note(h, u)
    <2>1. CASE u \notin Shared
      BY <2>1
    <2>2. CASE u \in Shared /\ ~IsHandled(r, u)
      BY <2>2, StoryKept
    <2>3. CASE u \in Shared /\ IsHandled(r, u)
      <3> DEFINE n == h[u].len
                 m == h1[u].mids[n + 1]
      <3>1. /\ n \in Nat /\ h1[u].len = n + 1 /\ Sound(m)
            /\ \A i \in Nat : i <= n => h1[u].mids[i] = h[u].mids[i]
            /\ m.holders \subseteq h[u].ends[n].holders
        BY <2>3, StoryGrows
      <3>2. CASE j <= n
        BY <3>1, <3>2
      <3>3. CASE j = n + 1
        <4>1. s \in h[u].ends[n].holders => Done(k, s) <= n
          BY <1>1, <2>3, HoldersBehind
        <4>2. Done(k, s) \in Nat
          BY <1>1, DoneType DEF Traced
        <4>3. s \notin m.holders
          BY <3>1, <3>3, <4>1, <4>2
        <4>4. Spread(m, s) = {} /\ s \notin Retired(m)
          BY <3>1, <4>3, SpreadFacts, RetiredFacts
        <4>5. SecondNote(m, s, d) = Nothing
          BY <4>4 DEF SecondNote, FreshIn, GoneIn
        <4>6. h1[u].mids[j] = m
          BY <3>3
        <4> HIDE DEF m
        <4> QED
          BY <2>3, <3>1, <3>3, <4>5, <4>6
      <3>4. CASE j > n + 1
        BY <3>1, <3>4
      <3> QED
        BY <3>1, <3>2, <3>3, <3>4
    <2> QED
      BY <2>1, <2>2, <2>3
  <1> HIDE DEF Note
  <1> QED
    BY <1>2, <1>3

LEMMA WalkSeconds ==
  ASSUME ImagesAgree, StepsSeen, NEW k, NEW h, NEW k1, NEW h1, NEW r \in Rank,
         Walking(r, k, h, k1, h1), WalkMasters(r)
  PROVE  Seconds(k1, h1)'
  <1>1. /\ Traced(k, h) /\ Seconds(k, h) /\ ControlOK /\ phase[r] = "migrate"
        /\ k \in [Rank -> Nat] /\ k1 \in [Rank -> Nat] /\ Control(k)
    BY DEF Walking, Traced, Control, Shape
  <1>2. ASSUME NEW q \in Rank, phase'[q] = "parse", NEW s \in pending'[q]
        PROVE  Sends2(h1, s, q, k1[q])
    <2>1. q # r
      BY <1>2, WalkState
    <2>2. s \in pending[q] /\ phase[q] = "parse" /\ s \in Rank
      BY <1>1, <1>2, <2>1, WalkState DEF ControlOK
    <2>3. Sends2(h, s, q, k[q]) /\ k[q] \in Nat \ {0}
      BY <1>1, <2>2 DEF Seconds, Control
    <2> QED
      BY <2>1, <2>2, <2>3, Sends2Grows, ClockWalk
  <1>3. ASSUME NEW s \in Rank, NEW d \in Rank, NEW j \in Nat \ {0}
        PROVE  /\ Done(k1, s)' = Done(k, s) /\ Done(k, s) \in Nat
               /\ Read2(k1, d, s, j)' <=> Read2(k, d, s, j)
    <2>1. Done(k1, s)' = Done(k, s) /\ Done(k1, d)' = Done(k, d) /\ Done(k, s) \in Nat
      BY <1>1, WalkControl, DoneType
    <2>2. phase'[d] = "parse" /\ s \in pending'[d] <=> phase[d] = "parse" /\ s \in pending[d]
      BY <1>1, WalkState
    <2> QED
      BY <2>1, <2>2 DEF Read2
  <1>4. ASSUME NEW s \in Rank, NEW d \in Rank, NEW j \in Nat \ {0},
               Sends2(h1, s, d, j), Read2(k1, d, s, j)'
        PROVE  j <= Done(k1, s)'
    <2>1. Read2(k, d, s, j)
      BY <1>3, <1>4
    <2>2. j <= Done(k, d)
      BY <1>1, <2>1, DoneType DEF Read2
    <2>3. Sends2(h, s, d, j)
      BY <1>4, <2>2, Sends2Grows
    <2> QED
      BY <1>1, <1>3, <2>1, <2>3 DEF Seconds
  <1>5. ASSUME NEW s \in Rank, NEW d \in Rank
        PROVE  Lists(resolving'[<<s, d>>], Under2(k1, h1, s, d)', Says2(h1, s, d))
    <2>1. Under2(k1, h1, s, d)' = Under2(k, h, s, d)
      <3>1. ASSUME NEW j \in Nat \ {0}
            PROVE  j \in Under2(k1, h1, s, d)' <=> j \in Under2(k, h, s, d)
        <4>1. j \in Under2(k1, h1, s, d)' <=> Sends2(h1, s, d, j) /\ j <= Done(k1, s)' /\ ~Read2(k1, d, s, j)'
          BY DEF Under2, Sends2
        <4>2. j \in Under2(k, h, s, d) <=> Sends2(h, s, d, j) /\ j <= Done(k, s) /\ ~Read2(k, d, s, j)
          BY DEF Under2
        <4> QED
          BY <1>3, <4>1, <4>2, Sends2Grows
      <3>2. Under2(k1, h1, s, d)' \subseteq Nat \ {0} /\ Under2(k, h, s, d) \subseteq Nat \ {0}
        BY DEF Under2
      <3> QED
        BY <3>1, <3>2
    <2>2. \A j \in Under2(k, h, s, d) : Says2(h1, s, d)[j] = Says2(h, s, d)[j]
      BY WalkSays2 DEF Under2
    <2>3. Lists(resolving[<<s, d>>], Under2(k, h, s, d), Says2(h, s, d)) /\ Under2(k, h, s, d) \subseteq Nat
      BY <1>1 DEF Seconds, Under2
    <2>4. Lists(resolving[<<s, d>>], Under2(k, h, s, d), Says2(h1, s, d))
      BY <2>2, <2>3, ListsSame
    <2> QED
      BY <2>1, <2>4, WalkState
  <1> QED
    BY <1>2, <1>4, <1>5 DEF Seconds, Sends2, Says2

(* The walk of r takes the registry to the next chapters of its masters. *)
LEMMA RegistryWalk ==
  ASSUME ImagesAgree, StepsSeen, Shape, NEW k, NEW h, Traced(k, h), NEW r \in Rank,
         phase[r] = "migrate", WalkMasters(r)
  PROVE  \E k1, h1 : Traced(k1, h1)'
  <1>1. PICK k1, h1 : k1 = [k EXCEPT ![r] = k[r] + 1] /\ h1 = Grown(h, r)
    OBVIOUS
  <1>2. Walking(r, k, h, k1, h1)
    BY <1>1 DEF Walking
  <1>3. Control(k1)' /\ Shown(k1, h1)' /\ Quiet' /\ Firsts(k1, h1)' /\ Seconds(k1, h1)'
    BY <1>2, WalkControl, WalkShown, WalkQuiet, WalkFirsts, WalkSeconds
  <1>4. Tales(k1, h1)'
    <2>1. Tales(k1, h1)
      BY <1>2, WalkTales
    <2> QED
      BY <2>1 DEF Tales, Tale
  <1> QED
    BY <1>3, <1>4 DEF Traced

-----------------------------------------------------------------------------
(* Steps that write no chapter *)

LEMMA FirstsFrame ==
  ASSUME NEW k, NEW h, Firsts(k, h),
         \A q \in Rank : phase'[q] = "update" <=> phase[q] = "update",
         \A q \in Rank : phase[q] = "update" => pending'[q] = pending[q],
         migrating' = migrating
  PROVE  Firsts(k, h)'
  <1>1. ASSUME NEW s \in Rank, NEW d \in Rank
        PROVE  Under1(k, h, s, d)' = Under1(k, h, s, d)
    <2>1. \A j : Read1(k, d, s, j)' <=> Read1(k, d, s, j)
      BY DEF Read1
    <2> QED
      BY <2>1 DEF Under1, Sends1
  <1> QED
    BY <1>1 DEF Firsts, Sends1, Says1

LEMMA SecondsFrame ==
  ASSUME NEW k, NEW h, Seconds(k, h),
         \A q \in Rank : phase'[q] = "parse" <=> phase[q] = "parse",
         \A q \in Rank : phase[q] = "parse" => pending'[q] = pending[q],
         \A q \in Rank : Done(k, q)' = Done(k, q),
         resolving' = resolving
  PROVE  Seconds(k, h)'
  <1>0. ASSUME NEW s \in Rank, NEW d \in Rank, NEW j
        PROVE  Read2(k, d, s, j)' <=> Read2(k, d, s, j)
    BY DEF Read2
  <1>1. ASSUME NEW s \in Rank, NEW d \in Rank
        PROVE  Under2(k, h, s, d)' = Under2(k, h, s, d)
    BY <1>0 DEF Under2, Sends2
  <1>2. \A s, d \in Rank, j \in Nat \ {0} :
           (Sends2(h, s, d, j) /\ Read2(k, d, s, j) => j <= Done(k, s))'
    BY <1>0 DEF Seconds, Sends2
  <1> QED
    BY <1>1, <1>2 DEF Seconds, Sends2, Says2

LEMMA ShownElsewhere ==
  ASSUME NEW k, NEW h, Shown(k, h), NEW r \in Rank,
         \A q \in Rank : q # r => ps'[q] = ps[q] /\ phase'[q] = phase[q] /\ pending'[q] = pending[q],
         \A u \in Shared : Shows(h[u], u, r, k[r])'
  PROVE  Shown(k, h)'
  <1> SUFFICES ASSUME NEW u \in Shared, NEW q \in Rank, q # r
               PROVE  Shows(h[u], u, q, k[q])'
    BY DEF Shown
  <1>1. Shows(h[u], u, q, k[q]) /\ ps'[q] = ps[q] /\ phase'[q] = phase[q] /\ pending'[q] = pending[q]
    BY DEF Shown
  <1> QED
    BY <1>1 DEF Shows, ShowsRound, ShowsLast

LEMMA QuietElsewhere ==
  ASSUME Quiet, NEW r \in Rank, \A q \in Rank : q # r => ps'[q] = ps[q],
         \A u \in NonCommunicating : ps'[r][u].kind = ps[r][u].kind /\ ps'[r][u].told = ps[r][u].told
  PROVE  Quiet'
  BY DEF Quiet, IsGhost

LEMMA TalesStay ==
  ASSUME NEW k, NEW h, Tales(k, h)
  PROVE  Tales(k, h)'
  BY DEF Tales, Tale

LEMMA RegistryIntegrate ==
  ASSUME ImagesAgree, Shape, NEW k, NEW h, Traced(k, h), NEW r \in Rank, Integrate(r)
  PROVE  Traced(k, h)'
  <1>1. /\ phase \in [Rank -> {"integrate", "migrate", "update", "resolve", "parse"}]
        /\ ps \in [Rank -> [Particle -> Slot]] /\ phase[r] = "integrate"
        /\ Control(k) /\ Tales(k, h) /\ Shown(k, h) /\ Quiet /\ Firsts(k, h) /\ Seconds(k, h)
    BY DEF Shape, StoreOK, ControlOK, Traced, Integrate
  <1>2. phase' = [phase EXCEPT ![r] = "migrate"] /\ migrating' = migrating /\ resolving' = resolving
        /\ pending' = pending /\ aborted' = aborted
    BY DEF Integrate
  <1>3. PICK to \in [Particle -> Pos] :
          /\ \A u \in Particle :
               IF IsMaster(r, u) /\ u \notin Fixed /\ ~resting
               THEN to[u] \in Reach[ps[r][u].pos] ELSE to[u] = ps[r][u].pos
          /\ ps' = [ps EXCEPT ![r] = [u \in Particle |-> [ps[r][u] EXCEPT !.pos = to[u]]]]
    BY DEF Integrate
  <1>4. \A q \in Rank : q # r => ps'[q] = ps[q] /\ phase'[q] = phase[q] /\ pending'[q] = pending[q]
    BY <1>1, <1>2, <1>3
  <1>5. phase'[r] = "migrate" /\ \A u \in Particle : ps'[r][u] = [ps[r][u] EXCEPT !.pos = to[u]]
    BY <1>1, <1>2, <1>3
  <1>6. Control(k)'
    BY <1>1, <1>2 DEF Control
  <1>7. Firsts(k, h)' /\ Seconds(k, h)'
    <2>1. \A q \in Rank : Done(k, q)' = Done(k, q)
      BY <1>1, <1>2 DEF Done
    <2>2. \A q \in Rank : /\ phase'[q] = "update" <=> phase[q] = "update"
                          /\ phase'[q] = "parse" <=> phase[q] = "parse"
      BY <1>1, <1>2
    <2> QED
      BY <1>1, <1>2, <2>1, <2>2, FirstsFrame, SecondsFrame
  <1>8. ASSUME NEW u \in Particle
        PROVE  /\ ps'[r][u].kind = ps[r][u].kind /\ ps'[r][u].told = ps[r][u].told
               /\ ~IsMaster(r, u) => ps'[r][u] = ps[r][u]
    <2> DEFINE sl == ps[r][u]
               w  == ps'[r][u]
    <2>1. sl \in Slot /\ (~IsMaster(r, u) => to[u] = sl.pos)
      BY <1>1, <1>3
    <2>2. w = [sl EXCEPT !.pos = to[u]]
      BY <1>5
    <2> HIDE DEF sl, w
    <2>3. w.kind = sl.kind /\ w.told = sl.told /\ (to[u] = sl.pos => w = sl)
      BY <2>1, <2>2 DEF Slot
    <2> QED
      BY <2>1, <2>3 DEF sl, w
  <1>9. ASSUME NEW u \in Shared
        PROVE  Shows(h[u], u, r, k[r])'
    <2> DEFINE t == h[u]
               K == k[r]
    <2>00. /\ K \in Nat /\ Shows(t, u, r, K) /\ u \in Particle /\ Tale(t, k) /\ t.len \in Nat
      BY <1>1 DEF Control, Tales, Tale, Shown, Shared
    <2>01. K # 0
      BY <1>1 DEF Control
    <2> HIDE DEF t, K
    <2>1. /\ t.len \in Nat /\ K \in Nat /\ K # 0 /\ Shows(t, u, r, K) /\ u \in Particle
          /\ Tale(t, k) /\ Sound(t.ends[t.len])
      BY <2>00, <2>01, TaleFacts
    <2>2. CASE K > t.len
      <3>1. r \notin t.ends[t.len].holders /\ ps[r][u] = SlotIn(t.ends[t.len], r)
        BY <1>1, <2>1, <2>2 DEF Shows, ShowsLast
      <3>2. ps'[r][u] = ps[r][u]
        BY <1>8, <2>1, <3>1, SlotInFacts, RankAssumption DEF IsMaster, Sound
      <3>3. ShowsLast(t, u, r, K)'
        BY <3>1, <3>2 DEF ShowsLast
      <3> QED
        BY <2>1, <2>2, <3>3 DEF Shows, t, K
    <2>3. CASE K <= t.len
      <3> DEFINE c == t.ends[K]
      <3>1. ps[r][u] = SlotIn(c, r) /\ Sound(c)
        BY <1>1, <2>1, <2>3, TaleFacts DEF Shows, ShowsRound
      <3>2. CASE r # c.owner
        <4>1. ps'[r][u] = SlotIn(c, r)
          BY <1>8, <2>1, <3>1, <3>2, SlotInFacts DEF IsMaster
        <4> QED
          BY <1>5, <2>1, <2>3, <3>2, <4>1 DEF Shows, ShowsRound, t, K
      <3>3. CASE r = c.owner
        <4> DEFINE sl == ps[r][u]
                   w  == ps'[r][u]
                   gh == c.holders \ {r}
                   tl == c.told[r]
        <4>1. r \in c.holders /\ c.pos \in Pos /\ OwnerOf[c.pos] = r /\ r # NoRank
          BY <3>1, <3>3, SoundFacts, RankAssumption DEF Sound
        <4>2. Image[r][c.pos] = c.pos
          BY <4>1 DEF ImagesAgree
        <4>3. sl = [kind |-> "master", owner |-> r, ghosts |-> gh, told |-> tl, pos |-> c.pos]
          BY <3>1, <3>3, <4>1, <4>2 DEF SlotIn, Kept
        <4>4. w = [sl EXCEPT !.pos = to[u]]
          BY <1>5, <2>1
        <4>5. to[u] = c.pos \/ (u \notin Fixed /\ to[u] \in Reach[c.pos])
          BY <1>3, <2>1, <4>3
        <4> HIDE DEF sl, w, gh, tl
        <4>6. w = [kind |-> "master", owner |-> r, ghosts |-> gh, told |-> tl, pos |-> to[u]]
          BY <4>3, <4>4
        <4>7. w.pos = to[u]
          BY <4>6
        <4>8. Pushed(c, r, u, K, w)
          BY <2>1, <4>5, <4>6, <4>7 DEF Pushed, gh, tl
        <4>9. ShowsRound(t, u, r, K)'
          BY <1>5, <3>3, <4>8 DEF ShowsRound, w, Pushed
        <4> QED
          BY <2>1, <2>3, <4>9 DEF Shows, t, K
      <3> QED
        BY <3>2, <3>3
    <2> QED
      BY <2>1, <2>2, <2>3
  <1>10. Shown(k, h)' /\ Quiet'
    BY <1>1, <1>4, <1>8, <1>9, ShownElsewhere, QuietElsewhere, ParticleAssumption
  <1> QED
    BY <1>1, <1>6, <1>7, <1>10, TalesStay DEF Traced

-----------------------------------------------------------------------------
(* The registry: reading in the first exchange *)

LEMMA FirstAtHead ==
  ASSUME Shape, NEW k, NEW h, Traced(k, h), NEW r \in Rank, NEW s \in Rank, phase[r] = "update",
         s \in pending[r], migrating[<<s, r>>] # <<>>
  PROVE  /\ k[r] \in Nat \ {0} /\ k[s] \in Nat /\ k[r] <= k[s] /\ Sends1(h, s, r, k[r]) /\ r # s
         /\ Head(migrating[<<s, r>>]) = Says1(h, s, r)[k[r]]
         /\ Lists(Tail(migrating[<<s, r>>]), Under1(k, h, s, r) \ {k[r]}, Says1(h, s, r))
  <1> DEFINE K == k[r]
             A == Under1(k, h, s, r)
             b == migrating[<<s, r>>]
  <1>1. /\ K \in Nat \ {0} /\ Sends1(h, s, r, K) /\ k[s] \in Nat
        /\ Lists(b, A, Says1(h, s, r))
    BY DEF Traced, Control, Firsts
  <1>2. A \subseteq Nat /\ \A j \in A : K <= j /\ j <= k[s]
    BY <1>1 DEF Under1, Read1
  <1>3. b \in Seq([Particle -> MigrationNote])
    BY DEF Shape, MigratingOK, Channels
  <1>4. A # {}
    BY <1>1, <1>2, <1>3, ListsEmpty
  <1>5. K <= k[s]
    BY <1>1, <1>2, <1>4
  <1>6. K \in A
    BY <1>1, <1>5 DEF Under1, Read1
  <1>7. Head(b) = Says1(h, s, r)[K] /\ Lists(Tail(b), A \ {K}, Says1(h, s, r))
    BY <1>1, <1>2, <1>3, <1>6, ListsTake
  <1>8. r # s
    BY <1>1 DEF Sends1
  <1> QED
    BY <1>1, <1>5, <1>7, <1>8

LEMMA FirstReadIn ==
  ASSUME ImagesAgree, Shape, NEW k, NEW h, Traced(k, h), NEW r \in Rank, NEW s \in Rank, r # s,
         phase[r] = "update", s \in pending[r], k[r] <= k[s], NEW u \in Shared
  PROVE  LET t == h[u]
             K == k[r]
             n == Says1(h, s, r)[K][u]
         IN  /\ MigrationNoteChecks(r, s, ps[r][u], n)
             /\ K <= t.len => SlotAfterMigrationNote(r, ps[r][u], n) =
                  SlotIn(IF t.ends[K - 1].owner \in pending[r] \ {s} THEN t.ends[K - 1] ELSE t.mids[K], r)
             /\ K > t.len => /\ SlotAfterMigrationNote(r, ps[r][u], n) = ps[r][u]
                             /\ r \in t.ends[t.len].holders => t.ends[t.len].owner # s
  <1> DEFINE t == h[u]
             K == k[r]
             n == Says1(h, s, r)[K][u]
             sl == ps[r][u]
  <1>1. /\ K \in Nat \ {0} /\ k[s] \in Nat /\ K <= k[s] /\ t.len \in Nat
        /\ Tale(t, k) /\ Shows(t, u, r, K) /\ u \in Particle
    BY DEF Traced, Control, Tales, Shown, Tale, Shared
  <1>2. n = IF K <= t.len /\ t.ends[K - 1].owner = s THEN FirstNote(t.ends[K - 1], t.mids[K], r)
            ELSE Silence
    BY <1>1 DEF Says1
  <1> HIDE DEF n
  <1>3. CASE K > t.len
    <2>1. n = Silence
      BY <1>1, <1>2, <1>3
    <2>2. MigrationNoteChecks(r, s, sl, n) /\ SlotAfterMigrationNote(r, sl, n) = sl
      BY <2>1, SilentNote
    <2>3. ASSUME t.ends[t.len].owner = s
          PROVE  r \notin t.ends[t.len].holders
      <3>1. k[s] <= t.len
        BY <1>1, <2>3, RankAssumption DEF Tale
      <3> QED
        BY <1>1, <1>3, <3>1
    <2> QED
      BY <1>1, <1>3, <2>2, <2>3 DEF n
  <1>4. CASE K <= t.len
    <2> DEFINE c == t.ends[K - 1]
               m == t.mids[K]
    <2>1. Sound(c) /\ Turned(c, m, t.ends[K])
      BY <1>1, <1>4, TaleFacts
    <2>2. sl = SlotIn(IF c.owner \in pending[r] THEN c ELSE m, r)
      BY <1>1, <1>4 DEF Shows, ShowsRound
    <2> HIDE DEF c, m
    <2>3. CASE c.owner = s
      <3>1. n = FirstNote(c, m, r) /\ sl = SlotIn(c, r)
        BY <1>2, <1>4, <2>2, <2>3 DEF c, m
      <3>2. /\ MigrationNoteChecks(r, s, sl, n)
            /\ SlotAfterMigrationNote(r, sl, n) = SlotIn(m, r)
        BY <2>1, <2>3, <3>1, FirstRead
      <3> QED
        BY <1>1, <1>4, <2>3, <3>2 DEF c, m, n
    <2>4. CASE c.owner # s
      <3>1. n = Silence
        BY <1>2, <2>4 DEF c
      <3>2. MigrationNoteChecks(r, s, sl, n) /\ SlotAfterMigrationNote(r, sl, n) = sl
        BY <3>1, SilentNote
      <3> QED
        BY <1>1, <1>4, <2>2, <2>4, <3>2 DEF c, m, n
    <2> QED
      BY <2>3, <2>4
  <1> QED
    BY <1>1, <1>3, <1>4

LEMMA TakeFirstState ==
  ASSUME Shape, NEW r \in Rank, NEW s \in Rank, TakeMigration(r, s)
  PROVE  /\ \A u \in Particle :
              ps'[r][u] = SlotAfterMigrationNote(r, ps[r][u], Head(migrating[<<s, r>>])[u])
         /\ \A q \in Rank : q # r => ps'[q] = ps[q] /\ phase'[q] = phase[q] /\ pending'[q] = pending[q]
         /\ pending'[r] = pending[r] \ {s}
         /\ phase'[r] = (IF pending[r] = {s} THEN "resolve" ELSE "update")
         /\ resolving' = resolving /\ aborted' = aborted
         /\ \A q, d \in Rank : migrating'[<<q, d>>] =
              IF q = s /\ d = r THEN Tail(migrating[<<q, d>>]) ELSE migrating[<<q, d>>]
  <1>1. /\ ps \in [Rank -> [Particle -> Slot]] /\ pending \in [Rank -> SUBSET Rank]
        /\ DOMAIN phase = Rank /\ DOMAIN migrating = Channels
    BY DEF Shape, StoreOK, ControlOK, MigratingOK
  <1>2. /\ ps' = [ps EXCEPT ![r] =
                    [u \in Particle |-> SlotAfterMigrationNote(r, ps[r][u], Head(migrating[<<s, r>>])[u])]]
        /\ migrating' = [migrating EXCEPT ![<<s, r>>] = Tail(migrating[<<s, r>>])]
        /\ pending' = [pending EXCEPT ![r] = pending[r] \ {s}]
        /\ phase' = [phase EXCEPT ![r] = IF pending[r] = {s} THEN "resolve" ELSE "update"]
        /\ resolving' = resolving /\ aborted' = aborted
    BY DEF TakeMigration
  <1>3. \A q, d \in Rank : migrating'[<<q, d>>] =
              IF q = s /\ d = r THEN Tail(migrating[<<q, d>>]) ELSE migrating[<<q, d>>]
    BY <1>1, <1>2 DEF Channels
  <1>4. /\ \A u \in Particle :
              ps'[r][u] = SlotAfterMigrationNote(r, ps[r][u], Head(migrating[<<s, r>>])[u])
        /\ \A q \in Rank : q # r => ps'[q] = ps[q]
    BY <1>1, <1>2
  <1> QED
    BY <1>1, <1>2, <1>3, <1>4

LEMMA FirstsTake ==
  ASSUME Shape, NEW k, NEW h, Traced(k, h), NEW r \in Rank, NEW s \in Rank, phase[r] = "update",
         s \in pending[r], migrating[<<s, r>>] # <<>>, TakeMigration(r, s)
  PROVE  Firsts(k, h)'
  <1> DEFINE K == k[r]
  <1>1. /\ K \in Nat \ {0} /\ K <= k[s]
        /\ Lists(Tail(migrating[<<s, r>>]), Under1(k, h, s, r) \ {K}, Says1(h, s, r))
    BY FirstAtHead
  <1>2. /\ \A q \in Rank : q # r => phase'[q] = phase[q] /\ pending'[q] = pending[q]
        /\ pending'[r] = pending[r] \ {s}
        /\ phase'[r] = (IF pending[r] = {s} THEN "resolve" ELSE "update")
        /\ \A q, d \in Rank : migrating'[<<q, d>>] =
              IF q = s /\ d = r THEN Tail(migrating[<<q, d>>]) ELSE migrating[<<q, d>>]
    BY TakeFirstState
  <1>3. Firsts(k, h) /\ k \in [Rank -> Nat]
    BY DEF Traced, Control
  <1>4. ASSUME NEW q \in Rank, NEW d \in Rank, NEW j \in Nat
        PROVE  Read1(k, d, q, j)' <=> Read1(k, d, q, j) \/ (q = s /\ d = r /\ j = K)
    <2>1. CASE d # r
      BY <1>2, <2>1 DEF Read1
    <2>2. CASE d = r
      <3>1. phase'[r] = "update" /\ q \in pending'[r] <=> q \in pending[r] /\ q # s
        BY <1>2
      <3> QED
        BY <1>1, <2>2, <3>1 DEF Read1
    <2> QED
      BY <2>1, <2>2
  <1>5. ASSUME NEW q \in Rank, NEW d \in Rank
        PROVE  Lists(migrating[<<q, d>>], Under1(k, h, q, d), Says1(h, q, d))'
    <2>1. Under1(k, h, q, d)' = Under1(k, h, q, d) \ IF q = s /\ d = r THEN {K} ELSE {}
      BY <1>1, <1>4 DEF Under1, Sends1
    <2>2. Lists(migrating[<<q, d>>], Under1(k, h, q, d), Says1(h, q, d))
      BY <1>3 DEF Firsts
    <2>3. CASE q = s /\ d = r
      <3>1. Under1(k, h, q, d)' = Under1(k, h, s, r) \ {K} /\ migrating'[<<q, d>>] = Tail(migrating[<<s, r>>])
        BY <1>2, <2>1, <2>3
      <3> QED
        BY <1>1, <2>3, <3>1 DEF Says1
    <2>4. CASE ~(q = s /\ d = r)
      <3>1. Under1(k, h, q, d)' = Under1(k, h, q, d) /\ migrating'[<<q, d>>] = migrating[<<q, d>>]
        BY <1>2, <2>1, <2>4
      <3> QED
        BY <2>2, <3>1 DEF Says1
    <2> QED
      BY <2>3, <2>4
  <1>6. \A q \in Rank : phase'[q] = "update" => \A d \in pending'[q] : Sends1(h, d, q, k[q])'
    <2>1. \A q \in Rank : phase'[q] = "update" => phase[q] = "update" /\ pending'[q] \subseteq pending[q]
      BY <1>2
    <2> QED
      BY <1>3, <2>1 DEF Firsts, Sends1
  <1> QED
    BY <1>5, <1>6 DEF Firsts

LEMMA RegistryTakeFirst ==
  ASSUME ImagesAgree, Shape, NEW k, NEW h, Traced(k, h), NEW r \in Rank, NEW s \in Rank,
         phase[r] = "update", s \in pending[r], migrating[<<s, r>>] # <<>>, TakeMigration(r, s)
  PROVE  Traced(k, h)'
  <1> DEFINE K == k[r]
             b == Head(migrating[<<s, r>>])
  <1>1. /\ K \in Nat \ {0} /\ k[s] \in Nat /\ K <= k[s] /\ r # s /\ b = Says1(h, s, r)[K]
    BY FirstAtHead
  <1>2. /\ \A u \in Particle : ps'[r][u] = SlotAfterMigrationNote(r, ps[r][u], b[u])
        /\ \A q \in Rank : q # r => ps'[q] = ps[q] /\ phase'[q] = phase[q] /\ pending'[q] = pending[q]
        /\ pending'[r] = pending[r] \ {s}
        /\ phase'[r] = (IF pending[r] = {s} THEN "resolve" ELSE "update")
        /\ resolving' = resolving
    BY TakeFirstState
  <1>3. Control(k) /\ Tales(k, h) /\ Shown(k, h) /\ Quiet /\ Seconds(k, h)
    BY DEF Traced
  <1>4. Control(k)'
    <2>1. \A q \in Rank : pending'[q] # {} <=> phase'[q] \in {"update", "parse"}
      <3>1. pending'[r] # {} <=> phase'[r] \in {"update", "parse"}
        BY <1>2
      <3> QED
        BY <1>2, <1>3, <3>1 DEF Control
    <2>2. \A q \in Rank : phase'[q] # "migrate" => k[q] # 0
      BY <1>1, <1>2, <1>3 DEF Control
    <2> QED
      BY <1>3, <2>1, <2>2 DEF Control
  <1>5. Firsts(k, h)'
    BY FirstsTake
  <1>6. Seconds(k, h)'
    <2>1. /\ \A q \in Rank : phase'[q] = "parse" <=> phase[q] = "parse"
          /\ \A q \in Rank : phase[q] = "parse" => pending'[q] = pending[q]
      BY <1>2
    <2>2. \A q \in Rank : Done(k, q)' = Done(k, q)
      BY <1>2 DEF Done
    <2> QED
      BY <1>2, <1>3, <2>1, <2>2, SecondsFrame
  <1>7. ASSUME NEW u \in Shared
        PROVE  Shows(h[u], u, r, K)'
    <2> DEFINE t == h[u]
               n == b[u]
    <2>1. /\ K <= t.len => SlotAfterMigrationNote(r, ps[r][u], n) =
               SlotIn(IF t.ends[K - 1].owner \in pending[r] \ {s} THEN t.ends[K - 1] ELSE t.mids[K], r)
          /\ K > t.len => /\ SlotAfterMigrationNote(r, ps[r][u], n) = ps[r][u]
                          /\ r \in t.ends[t.len].holders => t.ends[t.len].owner # s
      BY <1>1, FirstReadIn
    <2>2. /\ ps'[r][u] = SlotAfterMigrationNote(r, ps[r][u], n)
          /\ Shows(t, u, r, K) /\ t.len \in Nat
      BY <1>2, <1>3 DEF Shown, Tales, Tale, Shared
    <2> HIDE DEF n, t, K
    <2>3. CASE K <= t.len
      <3>1. ps'[r][u] =
               SlotIn(IF t.ends[K - 1].owner \in pending'[r] THEN t.ends[K - 1] ELSE t.mids[K], r)
        BY <1>2, <2>1, <2>2, <2>3
      <3>2. phase'[r] = "resolve" => pending'[r] = {}
        BY <1>2
      <3>3. ShowsRound(t, u, r, K)'
        BY <1>2, <3>1, <3>2 DEF ShowsRound
      <3> QED
        BY <2>3, <3>3 DEF Shows, t
    <2>4. CASE K > t.len
      <3>1. ShowsLast(t, u, r, K)
        BY <1>1, <2>2, <2>4 DEF Shows, K
      <3>2. ps'[r][u] = ps[r][u]
        BY <2>1, <2>2, <2>4
      <3>3. ShowsLast(t, u, r, K)'
        BY <1>2, <2>1, <2>4, <3>1, <3>2 DEF ShowsLast
      <3> QED
        BY <1>1, <2>2, <2>4, <3>3 DEF Shows, t, K
    <2> QED
      BY <1>1, <2>2, <2>3, <2>4 DEF K
  <1>8. Shown(k, h)'
    BY <1>2, <1>3, <1>7, ShownElsewhere
  <1>9. Quiet'
    <2>1. ASSUME NEW u \in NonCommunicating
          PROVE  ps'[r][u] = ps[r][u]
      <3>1. b[u] = Silence /\ u \in Particle
        BY <1>1, ParticleAssumption DEF Says1, Shared
      <3> QED
        BY <1>2, <3>1, SilentNote
    <2> QED
      BY <1>2, <1>3, <2>1, QuietElsewhere
  <1> QED
    BY <1>3, <1>4, <1>5, <1>6, <1>8, <1>9, TalesStay DEF Traced

LEMMA FirstReads ==
  ASSUME ImagesAgree, Shape, NEW k, NEW h, Traced(k, h), NEW r \in Rank, NEW s \in Rank,
         ParseMigration(r, s)
  PROVE  TakeMigration(r, s)
  <1> DEFINE b == Head(migrating[<<s, r>>])
  <1>1. phase[r] = "update" /\ s \in pending[r] /\ migrating[<<s, r>>] # <<>>
    BY DEF ParseMigration
  <1>2. k[r] \in Nat \ {0} /\ k[r] <= k[s] /\ r # s /\ b = Says1(h, s, r)[k[r]]
    BY <1>1, FirstAtHead
  <1>3. ASSUME NEW u \in Particle
        PROVE  MigrationNoteChecks(r, s, ps[r][u], b[u])
    <2>1. CASE u \in Shared
      BY <1>1, <1>2, <2>1, FirstReadIn
    <2>2. CASE u \notin Shared
      <3>1. b[u] = Silence
        BY <1>2, <2>2 DEF Says1
      <3> QED
        BY <3>1, SilentNote
    <2> QED
      BY <2>1, <2>2
  <1> QED
    BY <1>3 DEF ParseMigration, TakeMigration

-----------------------------------------------------------------------------
(* The registry: writing in the second exchange *)

LEMMA ResolveSilent ==
  ASSUME StoreOK, NEW r \in Rank, NEW u \in Particle, ~Resolves(r, u)
  PROVE  /\ SlotAfterResolution(r, u) = ps[r][u]
         /\ \A d \in Rank : ResolutionNoteFor(r, d, u) = Nothing
  <1> DEFINE sl == ps[r][u]
             w  == SlotAfterResolution(r, u)
  <1>1. sl \in Slot
    BY DEF StoreOK
  <1>2. NewNeighbors(r, u) = {} /\ ~Retires(r, u)
    BY DEF NewNeighbors, Retires, Resolves, Holds, IsGhost
  <1>3. \A d \in Rank : ResolutionNoteFor(r, d, u) = Nothing
    BY <1>2 DEF ResolutionNoteFor
  <1>4. w = [sl EXCEPT !.told = sl.told]
    BY <1>2 DEF SlotAfterResolution
  <1> HIDE DEF sl, w
  <1>5. w = sl
    BY <1>1, <1>4 DEF Slot
  <1> QED
    BY <1>3, <1>5 DEF sl, w

LEMMA ResolveStory ==
  ASSUME StoreOK, NEW k, NEW h, Traced(k, h), NEW r \in Rank, phase[r] = "resolve", NEW u \in Shared
  PROVE  LET t == h[u]
             K == k[r]
         IN  /\ t.len \in Nat /\ K \in Nat \ {0} /\ Communicates(u) /\ u \in Particle
             /\ K <= t.len => Sound(t.mids[K]) /\ ps[r][u] = SlotIn(t.mids[K], r)
             /\ K > t.len => ps[r][u] = Absent /\ r \notin t.ends[t.len].holders
  <1> DEFINE t == h[u]
             K == k[r]
  <1>1. /\ K \in Nat \ {0} /\ t.len \in Nat /\ Tale(t, k) /\ Shows(t, u, r, K)
        /\ Communicates(u) /\ u \in Particle
    BY DEF Traced, Control, Tales, Shown, Tale, Shared, Communicates
  <1>2. ASSUME K <= t.len
        PROVE  Sound(t.mids[K]) /\ ps[r][u] = SlotIn(t.mids[K], r)
    <2>1. Sound(t.mids[K])
      BY <1>1, <1>2, TaleFacts
    <2> QED
      BY <1>1, <1>2, <2>1 DEF Shows, ShowsRound
  <1>3. ASSUME K > t.len
        PROVE  ps[r][u] = Absent /\ r \notin t.ends[t.len].holders
    <2>1. ShowsLast(t, u, r, K)
      BY <1>1, <1>3 DEF Shows
    <2> QED
      BY <2>1 DEF ShowsLast, SlotIn
  <1> QED
    BY <1>1, <1>2, <1>3

LEMMA ResolvePartners ==
  ASSUME StoreOK, NEW k, NEW h, Traced(k, h), NEW r \in Rank, phase[r] = "resolve", NEW q \in Rank
  PROVE  /\ q \in ResolutionReceivers(r) <=> Sends2(h, r, q, k[r])
         /\ q \in ResolutionSenders(r) <=> Sends2(h, q, r, k[r])
  <1> DEFINE K == k[r]
  <1>1. ASSUME NEW u \in Particle
        PROVE  /\ Resolves(r, u) <=> u \in Shared /\ K <= h[u].len /\ r \in h[u].mids[K].holders
               /\ Resolves(r, u) => ps[r][u].owner = h[u].mids[K].owner
               /\ IsHandled(r, u) <=> u \in Shared /\ K <= h[u].len /\ r = h[u].mids[K].owner
               /\ IsHandled(r, u) => ps[r][u].ghosts = h[u].mids[K].holders \ {r}
    <2>1. CASE u \notin Shared
      BY <2>1 DEF Resolves, IsHandled, Shared, Communicates
    <2>2. CASE u \in Shared
      <3> DEFINE m == h[u].mids[K]
                 sl == ps[r][u]
      <3>1. /\ h[u].len \in Nat /\ K \in Nat /\ Communicates(u)
            /\ K <= h[u].len => Sound(m) /\ sl = SlotIn(m, r)
            /\ K > h[u].len => sl = Absent
        BY <2>2, ResolveStory
      <3>2. K <= h[u].len => /\ sl.kind = "none" <=> r \notin m.holders
                             /\ sl.kind = "master" <=> r = m.owner
                             /\ r \in m.holders => sl.owner = m.owner
                             /\ r = m.owner => sl.ghosts = m.holders \ {r}
        BY <3>1, SlotInFacts
      <3>3. K > h[u].len => sl.kind = "none"
        BY <3>1 DEF Absent
      <3> HIDE DEF m, sl, K
      <3>4. CASE K <= h[u].len
        BY <2>2, <3>1, <3>2, <3>4 DEF Resolves, IsHandled, Holds, IsMaster, m, sl
      <3>5. CASE K > h[u].len
        <4>1. ~Resolves(r, u) /\ ~IsHandled(r, u)
          BY <3>3, <3>5 DEF Resolves, IsHandled, Holds, IsMaster, sl
        <4> QED
          BY <3>1, <3>5, <4>1
      <3> QED
        BY <3>1, <3>4, <3>5
    <2> QED
      BY <2>1, <2>2
  <1>2. \A u \in Shared : u \in Particle
    BY DEF Shared
  <1>3. ASSUME NEW u \in Shared, K <= h[u].len, r = h[u].mids[K].owner
        PROVE  r \in h[u].mids[K].holders
    BY <1>3, ResolveStory, RankAssumption DEF Sound
  <1> HIDE DEF K
  <1>4. q \in ResolutionReceivers(r) <=> Sends2(h, r, q, K)
    <2>1. ASSUME q \in ResolutionReceivers(r)
          PROVE  Sends2(h, r, q, K)
      <3>1. CASE q \in Nbr[r] \cup {r}
        BY <3>1 DEF Sends2
      <3>2. CASE q \notin Nbr[r] \cup {r}
        <4>1. PICK u \in Particle : Resolves(r, u) /\ q = ps[r][u].owner
          BY <2>1, <3>2 DEF ResolutionReceivers
        <4> QED
          BY <1>1, <4>1 DEF Sends2
      <3> QED
        BY <3>1, <3>2
    <2>2. ASSUME Sends2(h, r, q, K)
          PROVE  q \in ResolutionReceivers(r)
      <3>1. CASE q \in Nbr[r] \cup {r}
        BY <3>1 DEF ResolutionReceivers
      <3>2. CASE q \notin Nbr[r] \cup {r}
        <4>1. PICK u \in Shared : K <= h[u].len /\ r \in h[u].mids[K].holders /\ h[u].mids[K].owner = q
          BY <2>2, <3>2 DEF Sends2
        <4>2. Resolves(r, u) /\ q = ps[r][u].owner /\ u \in Particle
          BY <1>1, <1>2, <4>1
        <4> QED
          BY <4>2 DEF ResolutionReceivers
      <3> QED
        BY <3>1, <3>2
    <2> QED
      BY <2>1, <2>2
  <1>5. q \in ResolutionSenders(r) <=> Sends2(h, q, r, K)
    <2>1. ASSUME q \in ResolutionSenders(r)
          PROVE  Sends2(h, q, r, K)
      <3>1. CASE q \in Nbr[r] \cup {r}
        BY <3>1, Neighbors DEF Sends2
      <3>2. CASE q \notin Nbr[r] \cup {r}
        <4>1. PICK u \in Particle : IsHandled(r, u) /\ q \in ps[r][u].ghosts
          BY <2>1, <3>2 DEF ResolutionSenders
        <4> QED
          BY <1>1, <4>1 DEF Sends2
      <3> QED
        BY <3>1, <3>2
    <2>2. ASSUME Sends2(h, q, r, K)
          PROVE  q \in ResolutionSenders(r)
      <3>1. CASE r \in Nbr[q] \cup {q}
        BY <3>1, Neighbors DEF ResolutionSenders
      <3>2. CASE r \notin Nbr[q] \cup {q}
        <4>1. PICK u \in Shared : K <= h[u].len /\ q \in h[u].mids[K].holders /\ h[u].mids[K].owner = r
          BY <2>2, <3>2 DEF Sends2
        <4>2. IsHandled(r, u) /\ q \in ps[r][u].ghosts /\ u \in Particle
          BY <1>1, <1>2, <3>2, <4>1
        <4> QED
          BY <4>2 DEF ResolutionSenders
      <3> QED
        BY <3>1, <3>2
    <2> QED
      BY <2>1, <2>2
  <1> QED
    BY <1>4, <1>5 DEF K

LEMMA ResolutionSendersType ==
  ASSUME StoreOK, NEW r \in Rank
  PROVE  /\ ResolutionSenders(r) \subseteq Rank /\ r \in ResolutionSenders(r)
         /\ Nbr[r] \subseteq ResolutionSenders(r)
         /\ \A u \in Particle : IsHandled(r, u) => ps[r][u].ghosts \subseteq ResolutionSenders(r)
  <1>1. \A u \in Particle : ps[r][u] \in Slot
    BY DEF StoreOK
  <1>2. \A u \in Particle : ps[r][u].ghosts \subseteq Rank
    BY <1>1 DEF Slot
  <1>3. Nbr[r] \subseteq Rank
    BY Neighbors
  <1>4. ResolutionSenders(r) \subseteq Rank
    BY <1>2, <1>3 DEF ResolutionSenders
  <1>5. r \in ResolutionSenders(r) /\ Nbr[r] \subseteq ResolutionSenders(r)
    BY DEF ResolutionSenders
  <1>6. ASSUME NEW u \in Particle, IsHandled(r, u)
        PROVE  ps[r][u].ghosts \subseteq ResolutionSenders(r)
    BY <1>6 DEF ResolutionSenders
  <1> QED
    BY <1>4, <1>5, <1>6

LEMMA ResolveRound ==
  ASSUME ImagesAgree, StoreOK, NEW k, NEW h, Traced(k, h), NEW r \in Rank, phase[r] = "resolve",
         NEW u \in Shared, k[r] <= h[u].len
  PROVE  /\ SlotAfterResolution(r, u) = Partly(h[u].mids[k[r]], r, ResolutionSenders(r))
         /\ \A d \in Rank : ResolutionNoteFor(r, d, u) = SecondNote(h[u].mids[k[r]], r, d)
  <1> DEFINE m == h[u].mids[k[r]]
             P == ResolutionSenders(r)
  <1>1. Communicates(u) /\ u \in Particle /\ Sound(m) /\ ps[r][u] = SlotIn(m, r)
    BY ResolveStory
  <1>2. Nbr[r] \cup {r} \subseteq P
    BY ResolutionSendersType
  <1>3. ASSUME r = m.owner
        PROVE  m.holders \subseteq P
    <2>1. ps[r][u].kind = "master" /\ ps[r][u].ghosts = m.holders \ {r}
      BY <1>1, <1>3, SlotInFacts
    <2>2. IsHandled(r, u)
      BY <1>1, <2>1 DEF IsHandled, IsMaster
    <2>3. ps[r][u].ghosts \subseteq P /\ r \in P
      BY <1>1, <2>2, ResolutionSendersType
    <2> QED
      BY <2>1, <2>3
  <1> HIDE DEF m, P
  <1>4. /\ SlotAfterResolution(r, u) = Partly(m, r, P)
        /\ \A d \in Rank : ResolutionNoteFor(r, d, u) = SecondNote(m, r, d)
    BY <1>1, <1>2, <1>3, ResolveChapter
  <1> QED
    BY <1>4 DEF m, P

LEMMA ResolveSays ==
  ASSUME ImagesAgree, StoreOK, NEW k, NEW h, Traced(k, h), NEW r \in Rank, phase[r] = "resolve",
         NEW d \in Rank
  PROVE  Says2(h, r, d)[k[r]] = [u \in Particle |-> ResolutionNoteFor(r, d, u)]
  <1> DEFINE K == k[r]
             F == [u \in Particle |-> IF u \in Shared /\ K <= h[u].len
                                      THEN SecondNote(h[u].mids[K], r, d) ELSE Nothing]
  <1>1. K \in Nat
    BY DEF Traced, Control
  <1>2. Says2(h, r, d)[K] = F
    BY <1>1 DEF Says2
  <1>3. ASSUME NEW u \in Particle
        PROVE  F[u] = ResolutionNoteFor(r, d, u)
    <2>1. CASE u \in Shared /\ K <= h[u].len
      BY <2>1, ResolveRound
    <2>2. CASE u \in Shared /\ ~(K <= h[u].len)
      <3>1. ps[r][u] = Absent
        BY <1>1, <2>2, ResolveStory
      <3>2. ~Resolves(r, u)
        BY <3>1 DEF Resolves, Holds, Absent
      <3> QED
        BY <2>2, <3>2, ResolveSilent
    <2>3. CASE u \notin Shared
      <3>1. ~Resolves(r, u)
        BY <2>3 DEF Resolves, Shared, Communicates
      <3> QED
        BY <2>3, <3>1, ResolveSilent
    <2> QED
      BY <2>1, <2>2, <2>3
  <1> HIDE DEF F
  <1>4. F = [u \in Particle |-> ResolutionNoteFor(r, d, u)]
    <2>1. F = [u \in Particle |-> F[u]]
      BY DEF F
    <2> QED
      BY <1>3, <2>1
  <1> QED
    BY <1>2, <1>4

LEMMA ResolveState ==
  ASSUME Shape, NEW r \in Rank, CheckAndResolveOverlap(r)
  PROVE  /\ \A u \in Particle : ps'[r][u] = SlotAfterResolution(r, u)
         /\ \A q \in Rank : q # r => ps'[q] = ps[q] /\ phase'[q] = phase[q] /\ pending'[q] = pending[q]
         /\ pending'[r] = ResolutionSenders(r) /\ phase'[r] = "parse"
         /\ migrating' = migrating /\ aborted' = aborted
         /\ \A s, d \in Rank : resolving'[<<s, d>>] =
              IF s = r /\ d \in ResolutionReceivers(r)
              THEN Append(resolving[<<s, d>>], [u \in Particle |-> ResolutionNoteFor(r, d, u)])
              ELSE resolving[<<s, d>>]
  <1>1. /\ ps \in [Rank -> [Particle -> Slot]] /\ DOMAIN pending = Rank /\ DOMAIN phase = Rank
    BY DEF Shape, StoreOK, ControlOK
  <1>2. /\ ps' = [ps EXCEPT ![r] = [u \in Particle |-> SlotAfterResolution(r, u)]]
        /\ resolving' = [c \in Channels |->
             IF c[1] = r /\ c[2] \in ResolutionReceivers(r)
             THEN Append(resolving[c], [u \in Particle |-> ResolutionNoteFor(r, c[2], u)])
             ELSE resolving[c]]
        /\ pending' = [pending EXCEPT ![r] = ResolutionSenders(r)]
        /\ phase' = [phase EXCEPT ![r] = "parse"]
        /\ migrating' = migrating /\ aborted' = aborted
    BY DEF CheckAndResolveOverlap
  <1>3. \A s, d \in Rank : resolving'[<<s, d>>] =
              IF s = r /\ d \in ResolutionReceivers(r)
              THEN Append(resolving[<<s, d>>], [u \in Particle |-> ResolutionNoteFor(r, d, u)])
              ELSE resolving[<<s, d>>]
    BY <1>2 DEF Channels
  <1>4. /\ \A u \in Particle : ps'[r][u] = SlotAfterResolution(r, u)
        /\ \A q \in Rank : q # r => ps'[q] = ps[q]
    BY <1>1, <1>2
  <1> QED
    BY <1>1, <1>2, <1>3, <1>4

LEMMA SecondsResolve ==
  ASSUME ImagesAgree, Shape, NEW k, NEW h, Traced(k, h), NEW r \in Rank, CheckAndResolveOverlap(r)
  PROVE  Seconds(k, h)'
  <1> DEFINE K == k[r]
  <1>1. /\ phase[r] = "resolve" /\ StoreOK /\ Seconds(k, h) /\ Control(k) /\ K \in Nat \ {0}
        /\ \A q \in Rank : k[q] \in Nat /\ Done(k, q) \in Nat
        /\ resolving \in [Channels -> Seq([Particle -> ResolutionNote])]
    BY DoneType DEF CheckAndResolveOverlap, Shape, Traced, Control, ResolvingOK
  <1>2. /\ \A q \in Rank : q # r => phase'[q] = phase[q] /\ pending'[q] = pending[q]
        /\ pending'[r] = ResolutionSenders(r) /\ phase'[r] = "parse"
        /\ \A s, d \in Rank : resolving'[<<s, d>>] =
              IF s = r /\ d \in ResolutionReceivers(r)
              THEN Append(resolving[<<s, d>>], [u \in Particle |-> ResolutionNoteFor(r, d, u)])
              ELSE resolving[<<s, d>>]
    BY ResolveState
  <1>3. \A q \in Rank : /\ q \in ResolutionReceivers(r) <=> Sends2(h, r, q, K)
                        /\ q \in ResolutionSenders(r) <=> Sends2(h, q, r, K)
    BY <1>1, ResolvePartners
  <1>4. /\ Done(k, r) = K - 1 /\ Done(k, r)' = K
        /\ \A q \in Rank : q # r => Done(k, q)' = Done(k, q)
    BY <1>1, <1>2 DEF Done
  <1>5. ASSUME NEW q \in Rank, NEW d \in Rank, NEW j \in Nat, Sends2(h, q, d, j)
        PROVE  Read2(k, d, q, j)' <=> Read2(k, d, q, j)
    <2>1. CASE d # r
      BY <1>2, <1>4, <2>1 DEF Read2
    <2>2. CASE d = r
      <3>1. Read2(k, d, q, j) <=> j <= K - 1
        BY <1>1, <1>4, <2>2 DEF Read2
      <3>2. Read2(k, d, q, j)' <=> j <= K - 1 \/ (j = K /\ q \notin ResolutionSenders(r))
        BY <1>1, <1>2, <1>4, <2>2 DEF Read2
      <3>3. j = K => q \in ResolutionSenders(r)
        BY <1>3, <1>5, <2>2
      <3> QED
        BY <3>1, <3>2, <3>3
    <2> QED
      BY <2>1, <2>2
  <1>6. \A q, d \in Rank, j \in Nat \ {0} : Sends2(h, q, d, j) /\ Read2(k, d, q, j) => j <= Done(k, q)
    BY <1>1 DEF Seconds
  <1>7. \A q, d \in Rank, j \in Nat \ {0} :
           (Sends2(h, q, d, j) /\ Read2(k, d, q, j) => j <= Done(k, q))'
    <2> SUFFICES ASSUME NEW q \in Rank, NEW d \in Rank, NEW j \in Nat \ {0},
                        Sends2(h, q, d, j), Read2(k, d, q, j)'
                 PROVE  j <= Done(k, q)'
      BY DEF Sends2
    <2>1. j <= Done(k, q)
      BY <1>5, <1>6
    <2>2. Done(k, q) <= Done(k, q)' /\ Done(k, q) \in Nat /\ Done(k, q)' \in Nat
      BY <1>1, <1>4
    <2> HIDE DEF K
    <2> QED
      BY <2>1, <2>2
  <1>8. \A q \in Rank : phase'[q] = "parse" => \A s \in pending'[q] : Sends2(h, s, q, k[q])'
    <2>1. ASSUME NEW s \in pending'[r]
          PROVE  Sends2(h, s, r, K)
      BY <1>1, <1>2, <1>3, ResolutionSendersType
    <2>2. \A q \in Rank : q # r /\ phase'[q] = "parse" => \A s \in pending'[q] : Sends2(h, s, q, k[q])
      BY <1>1, <1>2 DEF Seconds
    <2> QED
      BY <2>1, <2>2 DEF Sends2
  <1>9. ASSUME NEW s \in Rank, NEW d \in Rank
        PROVE  Lists(resolving[<<s, d>>], Under2(k, h, s, d), Says2(h, s, d))'
    <2> DEFINE A == Under2(k, h, s, d)
               b == resolving[<<s, d>>]
               F == Says2(h, s, d)
    <2>1. Lists(b, A, F) /\ b \in Seq([Particle -> ResolutionNote]) /\ A \subseteq Nat
      BY <1>1 DEF Seconds, Under2, Channels
    <2>2. CASE s = r /\ d \in ResolutionReceivers(r)
      <3> DEFINE v == [u \in Particle |-> ResolutionNoteFor(r, d, u)]
      <3>1. Sends2(h, r, d, K) /\ ~Read2(k, d, r, K)
        BY <1>1, <1>3, <1>4, <1>6, <2>2
      <3>2. Under2(k, h, s, d)' = A \cup {K}
        <4>1. Under2(k, h, s, d)' = {j \in Nat \ {0} : Sends2(h, r, d, j) /\ j <= K /\ ~Read2(k, d, r, j)}
          BY <1>4, <1>5, <2>2 DEF Under2, Sends2
        <4>2. A = {j \in Nat \ {0} : Sends2(h, r, d, j) /\ j <= K - 1 /\ ~Read2(k, d, r, j)}
          BY <1>4, <2>2 DEF Under2
        <4> HIDE DEF A
        <4> QED
          BY <1>1, <3>1, <4>1, <4>2
      <3>3. \A j \in A : j < K
        BY <1>1, <1>4, <2>2 DEF Under2
      <3>4. F[K] = v
        BY <1>1, <2>2, ResolveSays
      <3>5. v \in [Particle -> ResolutionNote]
        BY <1>1, ResolutionNoteForOK DEF ResolutionSentOK
      <3> HIDE DEF A, b, F, v
      <3>6. Lists(Append(b, v), A \cup {K}, F)
        BY <1>1, <2>1, <3>3, <3>4, <3>5, ListsAppend
      <3>7. resolving'[<<s, d>>] = Append(b, v)
        BY <1>2, <2>2 DEF b, v
      <3> QED
        BY <3>2, <3>6, <3>7 DEF F, Says2
    <2>3. CASE ~(s = r /\ d \in ResolutionReceivers(r))
      <3>1. Under2(k, h, s, d)' = A
        <4>1. CASE s # r
          BY <1>4, <1>5, <4>1 DEF Under2, Sends2
        <4>2. CASE s = r
          <5>1. Under2(k, h, s, d)' = {j \in Nat \ {0} : Sends2(h, r, d, j) /\ j <= K /\ ~Read2(k, d, r, j)}
            BY <1>4, <1>5, <4>2 DEF Under2, Sends2
          <5>2. A = {j \in Nat \ {0} : Sends2(h, r, d, j) /\ j <= K - 1 /\ ~Read2(k, d, r, j)}
            BY <1>4, <4>2 DEF Under2
          <5>3. ~Sends2(h, r, d, K)
            BY <1>3, <2>3, <4>2
          <5> HIDE DEF A
          <5> QED
            BY <1>1, <5>1, <5>2, <5>3
        <4> QED
          BY <4>1, <4>2
      <3>2. resolving'[<<s, d>>] = b
        BY <1>2, <2>3
      <3> HIDE DEF A
      <3> QED
        BY <2>1, <3>1, <3>2 DEF Says2
    <2> QED
      BY <2>2, <2>3
  <1> QED
    BY <1>7, <1>8, <1>9 DEF Seconds

LEMMA RegistryResolve ==
  ASSUME ImagesAgree, Shape, NEW k, NEW h, Traced(k, h), NEW r \in Rank, CheckAndResolveOverlap(r)
  PROVE  Traced(k, h)'
  <1> DEFINE K == k[r]
  <1>1. /\ phase[r] = "resolve" /\ StoreOK /\ Control(k) /\ Tales(k, h) /\ Shown(k, h) /\ Quiet
        /\ Firsts(k, h) /\ K \in Nat \ {0}
    BY DEF CheckAndResolveOverlap, Shape, Traced, Control
  <1>2. /\ \A u \in Particle : ps'[r][u] = SlotAfterResolution(r, u)
        /\ \A q \in Rank : q # r => ps'[q] = ps[q] /\ phase'[q] = phase[q] /\ pending'[q] = pending[q]
        /\ pending'[r] = ResolutionSenders(r) /\ phase'[r] = "parse"
        /\ migrating' = migrating
    BY ResolveState
  <1>3. Control(k)'
    <2>1. pending'[r] # {}
      BY <1>1, <1>2, ResolutionSendersType
    <2>2. \A q \in Rank : pending'[q] # {} <=> phase'[q] \in {"update", "parse"}
      BY <1>1, <1>2, <2>1 DEF Control
    <2>3. \A q \in Rank : phase'[q] # "migrate" => k[q] # 0
      BY <1>1, <1>2 DEF Control
    <2> QED
      BY <1>1, <2>2, <2>3 DEF Control
  <1>4. Firsts(k, h)'
    <2>1. \A q \in Rank : phase'[q] = "update" <=> phase[q] = "update"
      BY <1>1, <1>2
    <2>2. \A q \in Rank : phase[q] = "update" => pending'[q] = pending[q]
      BY <1>1, <1>2
    <2> QED
      BY <1>1, <1>2, <2>1, <2>2, FirstsFrame
  <1>5. Seconds(k, h)'
    BY SecondsResolve
  <1>6. ASSUME NEW u \in Shared
        PROVE  Shows(h[u], u, r, K)'
    <2> DEFINE t == h[u]
    <2>1. /\ t.len \in Nat /\ u \in Particle
          /\ K > t.len => ps[r][u] = Absent /\ r \notin t.ends[t.len].holders
      BY <1>1, ResolveStory
    <2>2. CASE K <= t.len
      <3>1. ps'[r][u] = Partly(t.mids[K], r, pending'[r])
        BY <1>1, <1>2, <2>1, <2>2, ResolveRound
      <3> HIDE DEF t, K
      <3>2. ShowsRound(t, u, r, K)'
        BY <1>2, <3>1 DEF ShowsRound
      <3> QED
        BY <2>2, <3>2 DEF Shows, t, K
    <2>3. CASE K > t.len
      <3>1. ps[r][u] = Absent /\ r \notin t.ends[t.len].holders
        BY <2>1, <2>3
      <3>2. ~Resolves(r, u)
        BY <3>1 DEF Resolves, Holds, Absent
      <3>3. ps'[r][u] = Absent
        BY <1>1, <1>2, <2>1, <3>1, <3>2, ResolveSilent
      <3> HIDE DEF t, K
      <3>4. ShowsLast(t, u, r, K)'
        BY <3>1, <3>3 DEF ShowsLast, SlotIn
      <3> QED
        BY <1>1, <2>1, <2>3, <3>4 DEF Shows, t, K
    <2> QED
      BY <1>1, <2>1, <2>2, <2>3
  <1>7. Shown(k, h)'
    BY <1>1, <1>2, <1>6, ShownElsewhere
  <1>8. Quiet'
    <2>1. ASSUME NEW u \in NonCommunicating
          PROVE  ps'[r][u] = ps[r][u]
      <3>1. ~Resolves(r, u) /\ u \in Particle
        BY ParticleAssumption DEF Resolves, Communicates
      <3> QED
        BY <1>1, <1>2, <3>1, ResolveSilent
    <2> QED
      BY <1>1, <1>2, <2>1, QuietElsewhere
  <1> QED
    BY <1>1, <1>3, <1>4, <1>5, <1>7, <1>8, TalesStay DEF Traced

-----------------------------------------------------------------------------
(* The registry: reading in the second exchange *)

LEMMA SecondHead ==
  ASSUME Shape, NEW k, NEW h, Traced(k, h), NEW r \in Rank, NEW s \in Rank, phase[r] = "parse",
         s \in pending[r], resolving[<<s, r>>] # <<>>
  PROVE  /\ k[r] \in Nat \ {0} /\ Done(k, r) = k[r] /\ Done(k, s) \in Nat /\ k[r] <= Done(k, s)
         /\ Head(resolving[<<s, r>>]) = Says2(h, s, r)[k[r]]
  <1> DEFINE K == k[r]
             A == Under2(k, h, s, r)
             b == resolving[<<s, r>>]
  <1>1. /\ K \in Nat \ {0} /\ Sends2(h, s, r, K) /\ Done(k, s) \in Nat /\ Done(k, r) = K
        /\ Lists(b, A, Says2(h, s, r))
    BY DoneType DEF Traced, Control, Seconds, Done
  <1>2. A \subseteq Nat /\ \A j \in A : K <= j /\ j <= Done(k, s)
    BY <1>1 DEF Under2, Read2
  <1>3. b \in Seq([Particle -> ResolutionNote])
    BY DEF Shape, ResolvingOK, Channels
  <1>4. A # {}
    BY <1>1, <1>2, <1>3, ListsEmpty
  <1>5. K <= Done(k, s)
    BY <1>1, <1>2, <1>4
  <1>6. K \in A
    BY <1>1, <1>5 DEF Under2, Read2
  <1>7. Head(b) = Says2(h, s, r)[K]
    <2> DEFINE F == Says2(h, s, r)
    <2>1. \A j \in A : K <= j
      BY <1>2
    <2>2. b # <<>> /\ A \subseteq Nat /\ Lists(b, A, F)
      BY <1>1, <1>2
    <2> HIDE DEF A, b, K, F
    <2>3. Head(b) = F[K]
      BY <1>3, <1>6, <2>1, <2>2, ListsTake
    <2> QED
      BY <2>3 DEF F
  <1> QED
    BY <1>1, <1>5, <1>7

LEMMA SecondTail ==
  ASSUME Shape, NEW k, NEW h, Traced(k, h), NEW r \in Rank, NEW s \in Rank, phase[r] = "parse",
         s \in pending[r], resolving[<<s, r>>] # <<>>
  PROVE  Lists(Tail(resolving[<<s, r>>]), Under2(k, h, s, r) \ {k[r]}, Says2(h, s, r))
  <1> DEFINE K == k[r]
             A == Under2(k, h, s, r)
             b == resolving[<<s, r>>]
  <1>1. K \in Nat \ {0} /\ Done(k, r) = K /\ Done(k, s) \in Nat /\ K <= Done(k, s)
    BY SecondHead
  <1>2. Sends2(h, s, r, K) /\ Lists(b, A, Says2(h, s, r))
    BY DEF Traced, Seconds
  <1>3. A \subseteq Nat /\ \A j \in A : K <= j
    BY <1>1 DEF Under2, Read2
  <1>4. b \in Seq([Particle -> ResolutionNote])
    BY DEF Shape, ResolvingOK, Channels
  <1>5. K \in A
    BY <1>1, <1>2 DEF Under2, Read2
  <1> QED
    BY <1>2, <1>3, <1>4, <1>5, ListsTake

LEMMA SecondStory ==
  ASSUME Shape, NEW k, NEW h, Traced(k, h), NEW r \in Rank, phase[r] = "parse", NEW u \in Shared
  PROVE  LET t == h[u]
             K == k[r]
         IN  /\ t.len \in Nat /\ K \in Nat \ {0} /\ u \in Particle /\ ps[r][u] \in Slot
             /\ K <= t.len => /\ t.ends[K] = Resolved(t.mids[K]) /\ Sound(t.mids[K])
                              /\ ps[r][u] = Partly(t.mids[K], r, pending[r])
             /\ K > t.len => ps[r][u] = SlotIn(t.ends[t.len], r) /\ r \notin t.ends[t.len].holders
  <1> DEFINE t == h[u]
             K == k[r]
  <1>1. /\ K \in Nat \ {0} /\ t.len \in Nat /\ Tale(t, k) /\ Shows(t, u, r, K) /\ u \in Particle
    BY DEF Traced, Control, Tales, Shown, Tale, Shared
  <1>2. ps[r][u] \in Slot
    BY <1>1 DEF Shape, StoreOK
  <1>3. ASSUME K <= t.len
        PROVE  /\ t.ends[K] = Resolved(t.mids[K]) /\ Sound(t.mids[K])
               /\ ps[r][u] = Partly(t.mids[K], r, pending[r])
    <2>1. Sound(t.mids[K]) /\ t.ends[K] = Resolved(t.mids[K])
      BY <1>1, <1>3, TaleFacts
    <2> QED
      BY <1>1, <1>3, <2>1 DEF Shows, ShowsRound
  <1>4. ASSUME K > t.len
        PROVE  ps[r][u] = SlotIn(t.ends[t.len], r) /\ r \notin t.ends[t.len].holders
    <2>1. ShowsLast(t, u, r, K)
      BY <1>1, <1>4 DEF Shows
    <2> QED
      BY <2>1 DEF ShowsLast
  <1> QED
    BY <1>1, <1>2, <1>3, <1>4

LEMMA TakeSecondState ==
  ASSUME Shape, NEW r \in Rank, NEW s \in Rank, TakeResolution(r, s)
  PROVE  /\ \A u \in Particle :
              ps'[r][u] = SlotAfterResolutionNote(r, s, ps[r][u], Head(resolving[<<s, r>>])[u])
         /\ \A q \in Rank : q # r => ps'[q] = ps[q] /\ phase'[q] = phase[q] /\ pending'[q] = pending[q]
         /\ pending'[r] = pending[r] \ {s}
         /\ phase'[r] = (IF pending[r] = {s} THEN "integrate" ELSE "parse")
         /\ migrating' = migrating /\ aborted' = aborted
         /\ \A q, d \in Rank : resolving'[<<q, d>>] =
              IF q = s /\ d = r THEN Tail(resolving[<<q, d>>]) ELSE resolving[<<q, d>>]
  <1>1. /\ ps \in [Rank -> [Particle -> Slot]] /\ pending \in [Rank -> SUBSET Rank]
        /\ DOMAIN phase = Rank /\ DOMAIN resolving = Channels
    BY DEF Shape, StoreOK, ControlOK, ResolvingOK
  <1>2. /\ ps' = [ps EXCEPT ![r] =
                    [u \in Particle |-> SlotAfterResolutionNote(r, s, ps[r][u], Head(resolving[<<s, r>>])[u])]]
        /\ resolving' = [resolving EXCEPT ![<<s, r>>] = Tail(resolving[<<s, r>>])]
        /\ pending' = [pending EXCEPT ![r] = pending[r] \ {s}]
        /\ phase' = [phase EXCEPT ![r] = IF pending[r] = {s} THEN "integrate" ELSE "parse"]
        /\ migrating' = migrating /\ aborted' = aborted
    BY DEF TakeResolution
  <1>3. \A q, d \in Rank : resolving'[<<q, d>>] =
              IF q = s /\ d = r THEN Tail(resolving[<<q, d>>]) ELSE resolving[<<q, d>>]
    BY <1>1, <1>2 DEF Channels
  <1>4. /\ \A u \in Particle :
              ps'[r][u] = SlotAfterResolutionNote(r, s, ps[r][u], Head(resolving[<<s, r>>])[u])
        /\ \A q \in Rank : q # r => ps'[q] = ps[q]
    BY <1>1, <1>2
  <1> QED
    BY <1>1, <1>2, <1>3, <1>4

LEMMA SecondsTake ==
  ASSUME Shape, NEW k, NEW h, Traced(k, h), NEW r \in Rank, NEW s \in Rank, phase[r] = "parse",
         s \in pending[r], resolving[<<s, r>>] # <<>>, TakeResolution(r, s)
  PROVE  Seconds(k, h)' /\ \A q \in Rank : Done(k, q)' = Done(k, q)
  <1> DEFINE K == k[r]
  <1>1. /\ K \in Nat \ {0} /\ Done(k, r) = K /\ K <= Done(k, s)
        /\ Lists(Tail(resolving[<<s, r>>]), Under2(k, h, s, r) \ {K}, Says2(h, s, r))
    BY SecondHead, SecondTail
  <1>2. /\ \A q \in Rank : q # r => phase'[q] = phase[q] /\ pending'[q] = pending[q]
        /\ pending'[r] = pending[r] \ {s}
        /\ phase'[r] = (IF pending[r] = {s} THEN "integrate" ELSE "parse")
        /\ \A q, d \in Rank : resolving'[<<q, d>>] =
              IF q = s /\ d = r THEN Tail(resolving[<<q, d>>]) ELSE resolving[<<q, d>>]
    BY TakeSecondState
  <1>3. Seconds(k, h) /\ k \in [Rank -> Nat]
    BY DEF Traced, Control
  <1>4. \A q \in Rank : Done(k, q)' = Done(k, q)
    BY <1>1, <1>2 DEF Done
  <1>5. ASSUME NEW q \in Rank, NEW d \in Rank, NEW j \in Nat
        PROVE  Read2(k, d, q, j)' <=> Read2(k, d, q, j) \/ (q = s /\ d = r /\ j = K)
    <2>1. CASE d # r
      BY <1>2, <1>4, <2>1 DEF Read2
    <2>2. CASE d = r
      <3>1. phase'[r] = "parse" /\ q \in pending'[r] <=> q \in pending[r] /\ q # s
        BY <1>2
      <3> QED
        BY <1>1, <1>4, <2>2, <3>1 DEF Read2
    <2> QED
      BY <2>1, <2>2
  <1>6. ASSUME NEW q \in Rank, NEW d \in Rank
        PROVE  Lists(resolving[<<q, d>>], Under2(k, h, q, d), Says2(h, q, d))'
    <2>1. Under2(k, h, q, d)' = Under2(k, h, q, d) \ IF q = s /\ d = r THEN {K} ELSE {}
      BY <1>4, <1>5 DEF Under2, Sends2
    <2>2. Lists(resolving[<<q, d>>], Under2(k, h, q, d), Says2(h, q, d))
      BY <1>3 DEF Seconds
    <2>3. CASE q = s /\ d = r
      <3>1. Under2(k, h, q, d)' = Under2(k, h, s, r) \ {K} /\ resolving'[<<q, d>>] = Tail(resolving[<<s, r>>])
        BY <1>2, <2>1, <2>3
      <3> QED
        BY <1>1, <2>3, <3>1 DEF Says2
    <2>4. CASE ~(q = s /\ d = r)
      <3>1. Under2(k, h, q, d)' = Under2(k, h, q, d) /\ resolving'[<<q, d>>] = resolving[<<q, d>>]
        BY <1>2, <2>1, <2>4
      <3> QED
        BY <2>2, <3>1 DEF Says2
    <2> QED
      BY <2>3, <2>4
  <1>7. \A q \in Rank : phase'[q] = "parse" => \A d \in pending'[q] : Sends2(h, d, q, k[q])'
    <2>1. \A q \in Rank : phase'[q] = "parse" => phase[q] = "parse" /\ pending'[q] \subseteq pending[q]
      BY <1>2
    <2> QED
      BY <1>3, <2>1 DEF Seconds, Sends2
  <1>8. \A q, d \in Rank, j \in Nat \ {0} :
           (Sends2(h, q, d, j) /\ Read2(k, d, q, j) => j <= Done(k, q))'
    <2> SUFFICES ASSUME NEW q \in Rank, NEW d \in Rank, NEW j \in Nat \ {0},
                        Sends2(h, q, d, j), Read2(k, d, q, j)'
                 PROVE  j <= Done(k, q)
      BY <1>4 DEF Sends2
    <2> QED
      BY <1>1, <1>3, <1>5 DEF Seconds
  <1> QED
    BY <1>4, <1>6, <1>7, <1>8 DEF Seconds

LEMMA RegistryTakeSecond ==
  ASSUME ImagesAgree, Shape, NEW k, NEW h, Traced(k, h), NEW r \in Rank, NEW s \in Rank,
         phase[r] = "parse", s \in pending[r], resolving[<<s, r>>] # <<>>, TakeResolution(r, s)
  PROVE  Traced(k, h)'
  <1> DEFINE K == k[r]
             b == Head(resolving[<<s, r>>])
  <1>1. K \in Nat \ {0} /\ b = Says2(h, s, r)[K]
    BY SecondHead
  <1>2. /\ \A u \in Particle : ps'[r][u] = SlotAfterResolutionNote(r, s, ps[r][u], b[u])
        /\ \A q \in Rank : q # r => ps'[q] = ps[q] /\ phase'[q] = phase[q] /\ pending'[q] = pending[q]
        /\ pending'[r] = pending[r] \ {s}
        /\ phase'[r] = (IF pending[r] = {s} THEN "integrate" ELSE "parse")
        /\ migrating' = migrating
    BY TakeSecondState
  <1>3. Control(k) /\ Tales(k, h) /\ Shown(k, h) /\ Quiet /\ Firsts(k, h) /\ StoreOK
    BY DEF Traced, Shape
  <1>4. Control(k)'
    <2>1. pending'[r] # {} <=> phase'[r] \in {"update", "parse"}
      BY <1>2
    <2>2. \A q \in Rank : pending'[q] # {} <=> phase'[q] \in {"update", "parse"}
      BY <1>2, <1>3, <2>1 DEF Control
    <2>3. \A q \in Rank : phase'[q] # "migrate" => k[q] # 0
      BY <1>1, <1>2, <1>3 DEF Control
    <2> QED
      BY <1>3, <2>2, <2>3 DEF Control
  <1>5. Seconds(k, h)'
    BY SecondsTake
  <1>6. Firsts(k, h)'
    <2>1. \A q \in Rank : phase'[q] = "update" <=> phase[q] = "update"
      BY <1>2
    <2>2. \A q \in Rank : phase[q] = "update" => pending'[q] = pending[q]
      BY <1>2
    <2> QED
      BY <1>2, <1>3, <2>1, <2>2, FirstsFrame
  <1>7. ASSUME NEW u \in Shared
        PROVE  Shows(h[u], u, r, K)'
    <2> DEFINE t == h[u]
               n == b[u]
               m == t.mids[K]
               sl == ps[r][u]
    <2>1. /\ t.len \in Nat /\ u \in Particle /\ sl \in Slot
          /\ K <= t.len => t.ends[K] = Resolved(m) /\ Sound(m) /\ sl = Partly(m, r, pending[r])
          /\ K > t.len => sl = SlotIn(t.ends[t.len], r) /\ r \notin t.ends[t.len].holders
      BY SecondStory
    <2>2. ps'[r][u] = SlotAfterResolutionNote(r, s, sl, n)
      BY <1>2, <2>1
    <2>3. n = IF K <= t.len THEN SecondNote(m, s, r) ELSE Nothing
      BY <1>1, <2>1 DEF Says2
    <2> HIDE DEF n, t, K, m, sl
    <2>4. CASE K <= t.len
      <3>1. SlotAfterResolutionNote(r, s, sl, n) = Partly(m, r, pending[r] \ {s})
        BY <2>1, <2>3, <2>4, PartlyRead
      <3>2. ps'[r][u] = Partly(m, r, pending'[r])
        BY <1>2, <2>2, <3>1
      <3>3. phase'[r] = "integrate" => ps'[r][u] = SlotIn(t.ends[K], r)
        <4> SUFFICES ASSUME phase'[r] = "integrate" PROVE ps'[r][u] = SlotIn(t.ends[K], r)
          OBVIOUS
        <4>1. pending'[r] = {}
          BY <1>2
        <4> QED
          BY <2>1, <2>4, <3>2, <4>1, PartlyNone
      <3>4. ShowsRound(t, u, r, K)'
        BY <1>2, <3>2, <3>3 DEF ShowsRound, m
      <3> QED
        BY <2>4, <3>4 DEF Shows, t
    <2>5. CASE K > t.len
      <3>1. n = Nothing
        BY <1>1, <2>1, <2>3, <2>5 DEF K
      <3>2. ps'[r][u] = sl
        BY <2>1, <2>2, <3>1, NothingNote
      <3>3. ShowsLast(t, u, r, K)'
        BY <2>1, <2>5, <3>2 DEF ShowsLast
      <3> QED
        BY <1>1, <2>1, <2>5, <3>3 DEF Shows, t, K
    <2> QED
      BY <1>1, <2>1, <2>4, <2>5 DEF K
  <1>8. Shown(k, h)'
    BY <1>2, <1>3, <1>7, ShownElsewhere
  <1>9. Quiet'
    <2>1. ASSUME NEW u \in NonCommunicating
          PROVE  ps'[r][u] = ps[r][u]
      <3>1. b[u] = Nothing /\ u \in Particle
        BY <1>1, ParticleAssumption DEF Says2, Shared
      <3>2. ps[r][u] \in Slot
        BY <1>3, <3>1 DEF StoreOK
      <3> QED
        BY <1>2, <3>1, <3>2, NothingNote
    <2> QED
      BY <1>2, <1>3, <2>1, QuietElsewhere
  <1> QED
    BY <1>3, <1>4, <1>5, <1>6, <1>8, <1>9, TalesStay DEF Traced

LEMMA SecondReads ==
  ASSUME ImagesAgree, Shape, NEW k, NEW h, Traced(k, h), NEW r \in Rank, NEW s \in Rank,
         ParseResolution(r, s)
  PROVE  TakeResolution(r, s)
  <1> DEFINE b == Head(resolving[<<s, r>>])
  <1>1. phase[r] = "parse" /\ s \in pending[r] /\ resolving[<<s, r>>] # <<>> /\ StoreOK
    BY DEF ParseResolution, Shape
  <1>2. k[r] \in Nat \ {0} /\ b = Says2(h, s, r)[k[r]]
    BY <1>1, SecondHead
  <1>3. ASSUME NEW u \in Particle
        PROVE  ResolutionNoteChecks(r, ps[r][u], b[u])
    <2>1. CASE u \in Shared
      <3> DEFINE K == k[r]
                 t == h[u]
                 m == t.mids[K]
                 sl == ps[r][u]
                 n == b[u]
      <3>1. /\ t.len \in Nat /\ K \in Nat /\ sl \in Slot
            /\ K <= t.len => Sound(m) /\ sl = Partly(m, r, pending[r])
        BY <1>1, <2>1, SecondStory
      <3>2. n = IF K <= t.len THEN SecondNote(m, s, r) ELSE Nothing
        BY <1>2, <2>1, <3>1 DEF Says2
      <3> HIDE DEF K, t, m, sl, n
      <3>3. CASE K <= t.len
        <4>1. ResolutionNoteChecks(r, sl, n)
          BY <1>1, <3>1, <3>2, <3>3, PartlyRead
        <4> QED
          BY <4>1 DEF sl, n
      <3>4. CASE ~(K <= t.len)
        <4>1. ResolutionNoteChecks(r, sl, n)
          BY <3>1, <3>2, <3>4, NothingNote
        <4> QED
          BY <4>1 DEF sl, n
      <3> QED
        BY <3>3, <3>4
    <2>2. CASE u \notin Shared
      <3>1. b[u] = Nothing /\ ps[r][u] \in Slot
        BY <1>1, <1>2, <2>2 DEF Says2, StoreOK
      <3> QED
        BY <3>1, NothingNote
    <2> QED
      BY <2>1, <2>2
  <1> QED
    BY <1>3 DEF ParseResolution, TakeResolution

-----------------------------------------------------------------------------
(* The registry: when no process is inside of the kernel *)

LEMMA SettledClock ==
  ASSUME Shape, NEW k, NEW h, Traced(k, h), Settled
  PROVE  /\ \A r \in Rank : k[r] \in Nat \ {0} /\ Done(k, r) = k[r] /\ phase[r] = "integrate"
         /\ \A s \in Rank : \A d \in Nbr[s] : k[s] = k[d]
  <1>1. \A r \in Rank : k[r] \in Nat \ {0} /\ Done(k, r) = k[r] /\ phase[r] = "integrate"
    BY DEF Settled, Traced, Control, Done
  <1>2. ASSUME NEW s \in Rank, NEW d \in Rank, d \in Nbr[s]
        PROVE  k[d] <= k[s]
    <2>1. Sends2(h, s, d, k[d])
      BY <1>2 DEF Sends2
    <2>2. Read2(k, d, s, k[d])
      BY <1>1 DEF Read2
    <2> QED
      BY <1>1, <2>1, <2>2 DEF Traced, Seconds
  <1>3. ASSUME NEW s \in Rank, NEW d \in Nbr[s]
        PROVE  k[s] = k[d]
    <2>1. d \in Rank /\ s \in Nbr[d]
      BY Neighbors
    <2>2. k[d] <= k[s] /\ k[s] <= k[d]
      BY <1>2, <2>1
    <2> QED
      BY <1>1, <2>1, <2>2
  <1> QED
    BY <1>1, <1>3

LEMMA SettledHolders ==
  ASSUME Shape, NEW k, NEW h, Traced(k, h), Settled, NEW u \in Shared,
         NEW i \in Nat, i <= h[u].len, NEW j \in Nat, j <= h[u].len,
         NEW p \in h[u].ends[i].holders, NEW q \in h[u].ends[j].holders
  PROVE  k[p] = k[q]
  <1> DEFINE t == h[u]
             a == k[t.ends[0].owner]
             S == {x \in Rank : k[x] = a}
  <1>1. Tale(t, k) /\ t.len \in Nat
    BY DEF Traced, Tales, Tale
  <1>2. Closed(S)
    <2>1. \A x \in S : \A y \in Nbr[x] : y \in Rank /\ k[y] = k[x]
      BY SettledClock, Neighbors
    <2> QED
      BY <2>1 DEF Closed
  <1>3. t.ends[0].holders \subseteq S
    <2>1. t.ends[0].holders \subseteq {t.ends[0].owner}
      BY <1>1 DEF Tale
    <2>2. Sound(t.ends[0])
      BY <1>1, TaleFacts
    <2>3. t.ends[0].holders \subseteq Rank
      BY <2>2, SoundFacts
    <2> QED
      BY <2>1, <2>3
  <1>4. S \in SUBSET Rank /\ i \in 0..t.len /\ j \in 0..t.len
    BY <1>1
  <1> HIDE DEF S
  <1>5. t.ends[i].holders \subseteq S /\ t.ends[j].holders \subseteq S
    BY <1>1, <1>2, <1>3, <1>4 DEF Tale
  <1> QED
    BY <1>5 DEF S

LEMMA SettledSlots ==
  ASSUME Shape, NEW k, NEW h, Traced(k, h), Settled, NEW u \in Shared, NEW r \in Rank
  PROVE  LET c == h[u].ends[h[u].len] IN Sound(c) /\ ps[r][u] = SlotIn(c, r)
  <1> DEFINE t == h[u]
             n == t.len
             K == k[r]
             c == t.ends[n]
  <1>1. /\ Tale(t, k) /\ n \in Nat /\ K \in Nat \ {0} /\ phase[r] = "integrate"
        /\ Shows(t, u, r, K)
    BY SettledClock DEF Traced, Tales, Tale, Shown
  <1>2. Sound(c)
    BY <1>1, TaleFacts
  <1>3. CASE K > n
    <2>1. ShowsLast(t, u, r, K)
      BY <1>1, <1>3 DEF Shows
    <2> QED
      BY <1>2, <2>1 DEF ShowsLast
  <1>4. CASE K <= n
    <2>1. ps[r][u] = SlotIn(t.ends[K], r)
      BY <1>1, <1>4 DEF Shows, ShowsRound
    <2>2. CASE K = n
      BY <1>2, <2>1, <2>2
    <2>3. CASE K # n
      <3> DEFINE o == t.ends[n - 1].owner
      <3>1. n \in Nat /\ n # 0 /\ n \in 1..n /\ n - 1 \in Nat /\ n - 1 <= n
        BY <1>1, <1>4
      <3>2. o \in Rank /\ Sound(t.ends[n - 1])
        BY <1>1, <3>1, TaleFacts
      <3>3. o \in t.ends[n - 1].holders /\ n <= k[o]
        BY <1>1, <3>1, <3>2, RankAssumption DEF Sound, Tale
      <3> HIDE DEF o
      <3>4. ASSUME NEW j \in Nat, j <= n, r \in t.ends[j].holders
            PROVE  FALSE
        <4>1. k[o] = K
          BY <3>1, <3>3, <3>4, SettledHolders
        <4> QED
          BY <1>1, <1>4, <2>3, <3>3, <4>1
      <3>5. r \notin t.ends[K].holders /\ r \notin c.holders
        BY <1>1, <1>4, <3>4
      <3> QED
        BY <1>2, <2>1, <3>5 DEF SlotIn
    <2> QED
      BY <2>2, <2>3
  <1> QED
    BY <1>1, <1>3, <1>4

LEMMA SettledQueues ==
  ASSUME Shape, NEW k, NEW h, Traced(k, h), Settled, NEW s \in Rank, NEW d \in Rank
  PROVE  migrating[<<s, d>>] = <<>> /\ resolving[<<s, d>>] = <<>>
  <1>1. /\ \A r \in Rank : k[r] \in Nat \ {0} /\ Done(k, r) = k[r] /\ phase[r] = "integrate"
        /\ \A q \in Nbr[s] : k[s] = k[q]
    BY SettledClock
  <1>2. ASSUME NEW j \in Nat \ {0}, Sends1(h, s, d, j)
        PROVE  k[s] = k[d]
    <2>1. PICK u \in Shared : /\ j <= h[u].len + 1 /\ h[u].ends[j - 1].owner = s
                              /\ d \in h[u].ends[j - 1].holders
      BY <1>2 DEF Sends1
    <2>2. Tale(h[u], k) /\ h[u].len \in Nat
      BY DEF Traced, Tales, Tale
    <2>3. j - 1 \in Nat /\ j - 1 <= h[u].len
      BY <2>1, <2>2
    <2>4. Sound(h[u].ends[j - 1])
      BY <2>2, <2>3, TaleFacts
    <2>5. s \in h[u].ends[j - 1].holders
      BY <2>1, <2>4, RankAssumption DEF Sound
    <2> QED
      BY <2>1, <2>3, <2>5, SettledHolders
  <1>3. ASSUME NEW j \in Nat \ {0}, Sends2(h, s, d, j)
        PROVE  k[s] = k[d]
    <2>1. CASE d \in Nbr[s] \cup {s}
      BY <1>1, <2>1
    <2>2. CASE d \notin Nbr[s] \cup {s}
      <3>1. PICK u \in Shared : j <= h[u].len /\ s \in h[u].mids[j].holders /\ h[u].mids[j].owner = d
        BY <1>3, <2>2 DEF Sends2
      <3>2. Tale(h[u], k) /\ h[u].len \in Nat
        BY DEF Traced, Tales, Tale
      <3>3. /\ j - 1 \in Nat /\ j - 1 <= h[u].len /\ Sound(h[u].mids[j])
            /\ h[u].mids[j].holders \subseteq h[u].ends[j - 1].holders
        BY <3>1, <3>2, TaleFacts
      <3>4. d \in h[u].mids[j].holders
        BY <3>1, <3>3, RankAssumption DEF Sound
      <3> QED
        BY <3>1, <3>3, <3>4, SettledHolders
    <2> QED
      BY <2>1, <2>2
  <1>4. Under1(k, h, s, d) = {}
    <2> SUFFICES ASSUME NEW j \in Under1(k, h, s, d) PROVE FALSE
      OBVIOUS
    <2>1. j \in Nat \ {0} /\ Sends1(h, s, d, j) /\ j <= k[s] /\ ~Read1(k, d, s, j)
      BY DEF Under1
    <2>2. k[s] = k[d]
      BY <1>2, <2>1
    <2> QED
      BY <1>1, <2>1, <2>2 DEF Read1
  <1>5. Under2(k, h, s, d) = {}
    <2> SUFFICES ASSUME NEW j \in Under2(k, h, s, d) PROVE FALSE
      OBVIOUS
    <2>1. j \in Nat \ {0} /\ Sends2(h, s, d, j) /\ j <= Done(k, s) /\ ~Read2(k, d, s, j)
      BY DEF Under2
    <2>2. k[s] = k[d]
      BY <1>3, <2>1
    <2> QED
      BY <1>1, <2>1, <2>2 DEF Read2
  <1>6. /\ Lists(migrating[<<s, d>>], {}, Says1(h, s, d))
        /\ Lists(resolving[<<s, d>>], {}, Says2(h, s, d))
    BY <1>4, <1>5 DEF Traced, Firsts, Seconds
  <1>7. /\ migrating[<<s, d>>] \in Seq([Particle -> MigrationNote])
        /\ resolving[<<s, d>>] \in Seq([Particle -> ResolutionNote])
    BY DEF Shape, MigratingOK, ResolvingOK, Channels
  <1>8. migrating[<<s, d>>] = <<>>
    BY <1>6, <1>7, ListsEmpty
  <1>9. resolving[<<s, d>>] = <<>>
    BY <1>6, <1>7, ListsEmpty
  <1> QED
    BY <1>8, <1>9

(* Between two calls every particle's copies are those of one sound chapter. *)
LEMMA SettledNotes ==
  ASSUME ImagesAgree, Shape, NEW k, NEW h, Traced(k, h), Settled
  PROVE  NotesTrue
  <1>1. ASSUME NEW u \in Shared, NEW d \in Rank
        PROVE  /\ IsGhost(d, u) <=> \E r \in Rank : IsMaster(r, u) /\ d \in ps[r][u].ghosts
               /\ \A r \in Rank : IsMaster(r, u) /\ IsGhost(d, u) =>
                    ps[d][u].owner = r /\ ps[d][u].pos = Image[d][ps[r][u].pos]
    <2> DEFINE c == h[u].ends[h[u].len]
    <2>1. Sound(c) /\ \A q \in Rank : ps[q][u] = SlotIn(c, q)
      BY SettledSlots
    <2> HIDE DEF c
    <2>2. \A q \in Rank : /\ IsMaster(q, u) <=> q = c.owner
                          /\ IsGhost(q, u) <=> q \in c.holders \ {c.owner}
                          /\ q \in c.holders => ps[q][u].owner = c.owner /\ ps[q][u].pos = Image[q][c.pos]
                          /\ q = c.owner => ps[q][u].ghosts = c.holders \ {q}
      BY <2>1, SlotInFacts DEF IsMaster, IsGhost
    <2>3. IsGhost(d, u) => c.owner \in Rank
      BY <2>1, <2>2, SoundFacts
    <2>4. \A r \in Rank : r = c.owner => r \in c.holders /\ Image[r][c.pos] = c.pos
      BY <2>1, SoundFacts, RankAssumption DEF Sound, ImagesAgree
    <2> QED
      BY <2>2, <2>3, <2>4
  <1>2. ASSUME NEW r \in Rank, NEW u \in Particle, NEW d \in ps[r][u].told
        PROVE  Holds(d, u)
    <2>1. u \in Shared
      BY <1>2 DEF Shared, Traced, Quiet
    <2> DEFINE c == h[u].ends[h[u].len]
    <2>2. Sound(c) /\ \A q \in Rank : ps[q][u] = SlotIn(c, q)
      BY <2>1, SettledSlots
    <2> HIDE DEF c
    <2>3. ps[r][u].told = c.told[r]
      BY <2>2, SlotInFacts
    <2>4. d \in c.holders /\ d \in Rank
      BY <1>2, <2>2, <2>3, SoundFacts DEF Sound
    <2>5. ps[d][u].kind # "none"
      BY <2>2, <2>4, SlotInFacts
    <2> QED
      BY <2>5 DEF Holds
  <1> QED
    BY <1>1, <1>2 DEF NotesTrue, RegistryExact, MarksTrue, Shared

-----------------------------------------------------------------------------
(* The registry: a new start, without ghosts *)

(* c[u]: the first chapter of the story of u *)
Begins(c) ==
  /\ \A u \in Shared : Sound(c[u]) /\ c[u].holders \subseteq {c[u].owner} /\ c[u].told = NoMarks
  /\ \A u \in Shared, r \in Rank :
       ps[r][u] = IF r = c[u].owner THEN NewMaster(r, c[u].pos) ELSE Absent
  /\ Quiet
  /\ \A r \in Rank : phase[r] = "migrate" /\ pending[r] = {}
  /\ \A s, d \in Rank : migrating[<<s, d>>] = <<>> /\ resolving[<<s, d>>] = <<>>

Begun == \E c : Begins(c)

LEMMA BeginsTraced ==
  ASSUME NEW c, Begins(c)
  PROVE  \E k, h : Traced(k, h)
  <1> DEFINE k == [r \in Rank |-> 0]
             h == [u \in Shared |-> [len |-> 0, ends |-> [j \in Nat |-> c[u]], mids |-> [j \in Nat |-> c[u]]]]
  <1>1. \A u \in Shared : h[u].len = 0 /\ h[u].ends[0] = c[u]
    OBVIOUS
  <1>2. k \in [Rank -> Nat] /\ \A r \in Rank : k[r] = 0
    OBVIOUS
  <1> HIDE DEF k, h
  <1>3. /\ \A r \in Rank : phase[r] = "migrate" /\ pending[r] = {}
        /\ Quiet
    BY DEF Begins
  <1>4. Control(k)
    BY <1>2, <1>3 DEF Control
  <1>5. Tales(k, h)
    <2> SUFFICES ASSUME NEW u \in Shared PROVE Tale(h[u], k)
      BY DEF Tales
    <2>1. h[u].len = 0 /\ h[u].ends[0] = c[u] /\ Sound(c[u]) /\ c[u].holders \subseteq {c[u].owner}
      BY <1>1 DEF Begins
    <2>2. c[u].owner # NoRank => k[c[u].owner] <= 0
      BY <1>2, <2>1, SoundFacts
    <2>3. \A j \in 0..0 : j = 0
      OBVIOUS
    <2>4. \A j \in 1..0 : FALSE
      OBVIOUS
    <2> QED
      BY <2>1, <2>2, <2>3, <2>4 DEF Tale
  <1>6. Shown(k, h)
    <2> SUFFICES ASSUME NEW u \in Shared, NEW r \in Rank PROVE Shows(h[u], u, r, k[r])
      BY DEF Shown
    <2>1. /\ h[u].len = 0 /\ h[u].ends[0] = c[u] /\ k[r] = 0 /\ Sound(c[u])
          /\ c[u].holders \subseteq {c[u].owner} /\ c[u].told = NoMarks
          /\ ps[r][u] = IF r = c[u].owner THEN NewMaster(r, c[u].pos) ELSE Absent
      BY <1>1, <1>2 DEF Begins
    <2>2. CASE r # c[u].owner
      <3>1. ps[r][u] = SlotIn(c[u], r)
        BY <2>1, <2>2 DEF SlotIn
      <3>2. ShowsRound(h[u], u, r, 0)
        BY <1>3, <2>1, <2>2, <3>1 DEF ShowsRound
      <3> QED
        BY <2>1, <3>2 DEF Shows
    <2>3. CASE r = c[u].owner
      <3>1. ps[r][u] = NewMaster(r, c[u].pos) /\ c[u].holders \ {r} = {} /\ c[u].told[r] = {}
        BY <2>1, <2>3 DEF NoMarks
      <3>2. Pushed(c[u], r, u, 0, ps[r][u])
        BY <3>1 DEF Pushed, NewMaster
      <3>3. ShowsRound(h[u], u, r, 0)
        BY <1>3, <2>1, <2>3, <3>2 DEF ShowsRound
      <3> QED
        BY <2>1, <3>3 DEF Shows
    <2> QED
      BY <2>2, <2>3
  <1>7. \A r \in Rank : Done(k, r) = 0
    BY <1>2, <1>3 DEF Done
  <1>8. Firsts(k, h)
    <2> SUFFICES ASSUME NEW s \in Rank, NEW d \in Rank
                 PROVE  Lists(migrating[<<s, d>>], Under1(k, h, s, d), Says1(h, s, d))
      BY <1>3 DEF Firsts
    <2>1. Under1(k, h, s, d) = {}
      BY <1>2 DEF Under1
    <2> QED
      BY <2>1, ListsNone DEF Begins
  <1>9. Seconds(k, h)
    <2>1. ASSUME NEW s \in Rank, NEW d \in Rank
          PROVE  Lists(resolving[<<s, d>>], Under2(k, h, s, d), Says2(h, s, d))
      <3>1. Under2(k, h, s, d) = {}
        BY <1>7 DEF Under2
      <3> QED
        BY <3>1, ListsNone DEF Begins
    <2>2. \A s, d \in Rank, j \in Nat \ {0} : ~Read2(k, d, s, j)
      BY <1>7 DEF Read2
    <2> QED
      BY <1>3, <2>1, <2>2 DEF Seconds
  <1> QED
    BY <1>3, <1>4, <1>5, <1>6, <1>8, <1>9 DEF Traced

Recorded == \E k, h : Traced(k, h)

LEMMA RegistryBegins == Begun => Recorded
  BY BeginsTraced DEF Begun, Recorded

LEMMA RegistryBeginsNext == Begun' => Recorded'
  BY RegistryBegins, PTL

LEMMA SoundStart ==
  ASSUME NEW o \in Rank \cup {NoRank}, NEW p \in Pos, o # NoRank => OwnerOf[p] = o
  PROVE  LET c == [owner |-> o, pos |-> p, holders |-> {o} \ {NoRank}, told |-> NoMarks]
         IN  Sound(c)
  BY RankAssumption DEF Sound, Chapter, NoMarks

LEMMA BegunInit == Init => Begun
  <1> SUFFICES ASSUME Init PROVE Begun
    OBVIOUS
  <1>1. PICK at \in [Particle -> {p \in Pos : OwnerOf[p] # NoRank}] :
          ps = [r \in Rank |-> [u \in Particle |->
                  IF OwnerOf[at[u]] = r THEN NewMaster(r, at[u]) ELSE Absent]]
    BY DEF Init
  <1> DEFINE c == [u \in Shared |-> [owner |-> OwnerOf[at[u]], pos |-> at[u],
                                     holders |-> {OwnerOf[at[u]]} \ {NoRank}, told |-> NoMarks]]
  <1>2. ASSUME NEW u \in Shared
        PROVE  /\ Sound(c[u]) /\ c[u].holders \subseteq {c[u].owner} /\ c[u].told = NoMarks
               /\ c[u].owner = OwnerOf[at[u]] /\ c[u].pos = at[u]
    <2>1. at[u] \in Pos /\ OwnerOf[at[u]] \in Rank \cup {NoRank}
      BY GeometryAssumption DEF Shared
    <2> QED
      BY <2>1, SoundStart
  <1> HIDE DEF c
  <1>3. \A u \in Shared, r \in Rank :
           ps[r][u] = IF r = c[u].owner THEN NewMaster(r, c[u].pos) ELSE Absent
    BY <1>1, <1>2 DEF Shared
  <1>4. Quiet
    BY <1>1, ParticleAssumption DEF Quiet, IsGhost, NewMaster, Absent
  <1>5. /\ \A r \in Rank : phase[r] = "migrate" /\ pending[r] = {}
        /\ \A s, d \in Rank : migrating[<<s, d>>] = <<>> /\ resolving[<<s, d>>] = <<>>
    BY DEF Init, Channels
  <1>6. Begins(c)
    BY <1>2, <1>3, <1>4, <1>5 DEF Begins
  <1> QED
    BY <1>6 DEF Begun

LEMMA BegunClear ==
  ASSUME ImagesAgree, Shape, NEW k, NEW h, Traced(k, h), ClearGhosts
  PROVE  Begun'
  <1> DEFINE e(u) == h[u].ends[h[u].len]
             c == [u \in Shared |-> [owner |-> e(u).owner, pos |-> e(u).pos,
                                     holders |-> {e(u).owner} \ {NoRank}, told |-> NoMarks]]
  <1>1. Settled /\ ps \in [Rank -> [Particle -> Slot]]
    BY DEF ClearGhosts, Shape, StoreOK
  <1>2. ASSUME NEW u \in Shared
        PROVE  /\ Sound(e(u)) /\ u \in Particle
               /\ \A r \in Rank : ps[r][u] = SlotIn(e(u), r)
    <2>1. \A r \in Rank : Sound(e(u)) /\ ps[r][u] = SlotIn(e(u), r)
      BY <1>1, SettledSlots
    <2> HIDE DEF e
    <2>2. u \in Particle
      BY DEF Shared
    <2> QED
      BY <2>1, <2>2, RankAssumption
  <1> HIDE DEF e
  <1>3. ASSUME NEW u \in Shared
        PROVE  /\ Sound(c[u]) /\ c[u].holders \subseteq {c[u].owner} /\ c[u].told = NoMarks
               /\ c[u].owner = e(u).owner /\ c[u].pos = e(u).pos
    <2>1. /\ e(u).pos \in Pos /\ e(u).owner \in Rank \cup {NoRank}
          /\ e(u).owner # NoRank => OwnerOf[e(u).pos] = e(u).owner
      BY <1>2, SoundFacts DEF Sound
    <2> QED
      BY <2>1, SoundStart
  <1> HIDE DEF c
  <1>4. \A r \in Rank, u \in Particle :
          ps'[r][u] = IF IsMaster(r, u) THEN [ps[r][u] EXCEPT !.ghosts = {}, !.told = {}] ELSE Absent
    BY DEF ClearGhosts
  <1>5. ASSUME NEW u \in Shared, NEW r \in Rank
        PROVE  ps'[r][u] = IF r = c[u].owner THEN NewMaster(r, c[u].pos) ELSE Absent
    <2>1. u \in Particle /\ Sound(e(u)) /\ ps[r][u] = SlotIn(e(u), r)
      BY <1>2
    <2>2. IsMaster(r, u) <=> r = e(u).owner
      BY <2>1, SlotInFacts DEF IsMaster
    <2>3. CASE r = e(u).owner
      <3> DEFINE sl == ps[r][u]
                 w  == ps'[r][u]
                 gh == e(u).holders \ {r}
                 tl == e(u).told[r]
                 p  == e(u).pos
      <3>1. r \in e(u).holders /\ Image[r][p] = p
        BY <2>1, <2>3, SoundFacts, RankAssumption DEF Sound, ImagesAgree
      <3>2. sl = [kind |-> "master", owner |-> r, ghosts |-> gh, told |-> tl, pos |-> p]
        BY <2>1, <2>3, <3>1 DEF SlotIn, Kept
      <3>3. w = [sl EXCEPT !.ghosts = {}, !.told = {}]
        BY <1>4, <2>1, <2>2, <2>3
      <3> HIDE DEF sl, w, gh, tl, p
      <3>4. w = [kind |-> "master", owner |-> r, ghosts |-> {}, told |-> {}, pos |-> p]
        BY <3>2, <3>3
      <3>5. w = NewMaster(r, p)
        BY <3>4 DEF NewMaster
      <3> QED
        BY <1>3, <2>3, <3>5 DEF w, p
    <2>4. CASE r # e(u).owner
      BY <1>3, <1>4, <2>1, <2>2, <2>4
    <2> QED
      BY <2>3, <2>4
  <1>6. Quiet'
    <2> SUFFICES ASSUME NEW u \in NonCommunicating, NEW r \in Rank
                 PROVE  ps'[r][u].kind # "ghost" /\ ps'[r][u].told = {}
      BY DEF Quiet, IsGhost
    <2>1. u \in Particle
      BY ParticleAssumption
    <2>2. CASE IsMaster(r, u)
      <3> DEFINE sl == ps[r][u]
                 w  == ps'[r][u]
      <3>1. sl \in Slot /\ sl.kind = "master"
        BY <1>1, <2>1, <2>2 DEF IsMaster
      <3>2. w = [sl EXCEPT !.ghosts = {}, !.told = {}]
        BY <1>4, <2>1, <2>2
      <3> HIDE DEF sl, w
      <3>3. w.kind = "master" /\ w.told = {}
        BY <3>1, <3>2 DEF Slot
      <3> QED
        BY <3>3 DEF w
    <2>3. CASE ~IsMaster(r, u)
      <3>1. ps'[r][u] = Absent
        BY <1>4, <2>1, <2>3
      <3> QED
        BY <3>1 DEF Absent
    <2> QED
      BY <2>2, <2>3
  <1>7. \A r \in Rank : phase'[r] = "migrate" /\ pending'[r] = {}
    <2>1. \A r \in Rank : phase'[r] = "migrate" /\ pending'[r] = pending[r]
      BY DEF ClearGhosts
    <2>2. \A r \in Rank : pending[r] = {}
      <3>1. \A r \in Rank : phase[r] = "integrate"
        BY <1>1 DEF Settled
      <3> QED
        BY <3>1 DEF Traced, Control
    <2> QED
      BY <2>1, <2>2
  <1>8. \A s, d \in Rank : migrating'[<<s, d>>] = <<>> /\ resolving'[<<s, d>>] = <<>>
    BY <1>1, SettledQueues DEF ClearGhosts
  <1>9. Begins(c)'
    BY <1>3, <1>5, <1>6, <1>7, <1>8 DEF Begins
  <1> QED
    BY <1>9 DEF Begun

-----------------------------------------------------------------------------
(* The registry: the invariant and what follows from it *)

LEMMA RegistryInit == Init => RegistryInv
  <1>1. Init => Shape /\ ~aborted
    BY ShapeInit DEF Init
  <1>2. Init => \E k, h : Traced(k, h)
    BY BegunInit, RegistryBegins DEF Recorded
  <1> QED
    BY <1>1, <1>2 DEF RegistryInv

LEMMA RegistryUpdate ==
  ASSUME ImagesAgree, StepsSeen, Shape, ~aborted, NEW k, NEW h, Traced(k, h), NEW r \in Rank,
         UpdateAndMigrate(r)
  PROVE  ~aborted' /\ \E k1, h1 : Traced(k1, h1)'
  <1>1. phase[r] = "migrate" /\ StoreOK
    BY DEF UpdateAndMigrate, Shape
  <1>2. MigrationChecks(r)
    BY <1>1, RegistryMigrationChecks
  <1>3. WalkMasters(r)
    BY <1>2 DEF UpdateAndMigrate
  <1>4. ~aborted'
    BY <1>3 DEF WalkMasters
  <1> QED
    BY <1>1, <1>3, <1>4, RegistryWalk

LEMMA RegistryParseFirst ==
  ASSUME ImagesAgree, Shape, ~aborted, NEW k, NEW h, Traced(k, h), NEW r \in Rank, NEW s \in Rank,
         ParseMigration(r, s)
  PROVE  ~aborted' /\ Traced(k, h)'
  <1>1. phase[r] = "update" /\ s \in pending[r] /\ migrating[<<s, r>>] # <<>>
    BY DEF ParseMigration
  <1>2. TakeMigration(r, s)
    BY FirstReads
  <1>3. ~aborted'
    BY <1>2 DEF TakeMigration
  <1>4. Traced(k, h)'
    BY <1>1, <1>2, RegistryTakeFirst
  <1> QED
    BY <1>3, <1>4

LEMMA RegistryParseSecond ==
  ASSUME ImagesAgree, Shape, ~aborted, NEW k, NEW h, Traced(k, h), NEW r \in Rank, NEW s \in Rank,
         ParseResolution(r, s)
  PROVE  ~aborted' /\ Traced(k, h)'
  <1>1. phase[r] = "parse" /\ s \in pending[r] /\ resolving[<<s, r>>] # <<>>
    BY DEF ParseResolution
  <1>2. TakeResolution(r, s)
    BY SecondReads
  <1>3. ~aborted'
    BY <1>2 DEF TakeResolution
  <1>4. Traced(k, h)'
    BY <1>1, <1>2, RegistryTakeSecond
  <1> QED
    BY <1>3, <1>4

LEMMA RegistryClear ==
  ASSUME ImagesAgree, Shape, ~aborted, NEW k, NEW h, Traced(k, h), ClearGhosts
  PROVE  ~aborted' /\ \E k1, h1 : Traced(k1, h1)'
  <1>1. Begun'
    BY BegunClear
  <1>2. Recorded'
    BY <1>1, RegistryBeginsNext
  <1>3. ~aborted'
    BY DEF ClearGhosts
  <1> QED
    BY <1>2, <1>3 DEF Recorded

LEMMA RegistryStays ==
  ASSUME NEW k, NEW h, Traced(k, h),
         UNCHANGED <<ps, migrating, resolving, pending, phase>>
  PROVE  Traced(k, h)'
  <1>1. Control(k) /\ Tales(k, h) /\ Shown(k, h) /\ Quiet /\ Firsts(k, h) /\ Seconds(k, h)
    BY DEF Traced
  <1>2. \A q \in Rank : Done(k, q)' = Done(k, q)
    BY DEF Done
  <1>3. Control(k)'
    BY <1>1 DEF Control
  <1>4. Tales(k, h)'
    BY <1>1, TalesStay
  <1>5. Shown(k, h)'
    BY <1>1 DEF Shown, Shows, ShowsRound, ShowsLast
  <1>6. Quiet'
    BY <1>1 DEF Quiet, IsGhost
  <1>7. Firsts(k, h)'
    BY <1>1, FirstsFrame
  <1>8. Seconds(k, h)'
    BY <1>1, <1>2, SecondsFrame
  <1> QED
    BY <1>3, <1>4, <1>5, <1>6, <1>7, <1>8 DEF Traced

LEMMA RegistryNext ==
  ASSUME ImagesAgree, StepsSeen, RegistryInv, [Next]_vars
  PROVE  RegistryInv'
  <1>1. Shape /\ ~aborted /\ Shape'
    BY ShapeNext DEF RegistryInv
  <1>2. PICK k, h : Traced(k, h)
    BY DEF RegistryInv
  <1>3. ASSUME NEW r \in Rank, Advance(r)
        PROVE  ~aborted' /\ \E k1, h1 : Traced(k1, h1)'
    <2>1. CASE Integrate(r)
      <3>1. Traced(k, h)'
        BY <1>1, <1>2, <2>1, RegistryIntegrate
      <3> QED
        BY <1>1, <2>1, <3>1 DEF Integrate
    <2>2. CASE UpdateAndMigrate(r)
      BY <1>1, <1>2, <2>2, RegistryUpdate
    <2>3. CASE \E s \in Rank : ParseMigration(r, s)
      BY <1>1, <1>2, <2>3, RegistryParseFirst
    <2>4. CASE CheckAndResolveOverlap(r)
      <3>1. Traced(k, h)'
        BY <1>1, <1>2, <2>4, RegistryResolve
      <3> QED
        BY <1>1, <2>4, <3>1 DEF CheckAndResolveOverlap
    <2>5. CASE \E s \in Rank : ParseResolution(r, s)
      BY <1>1, <1>2, <2>5, RegistryParseSecond
    <2> QED
      BY <1>3, <2>1, <2>2, <2>3, <2>4, <2>5 DEF Advance
  <1>4. CASE ComeToRest
    <2>1. Traced(k, h)'
      BY <1>2, <1>4, RegistryStays DEF ComeToRest
    <2> QED
      BY <1>1, <1>4, <2>1 DEF ComeToRest, RegistryInv
  <1>5. CASE ClearGhosts
    <2>1. ~aborted' /\ \E k1, h1 : Traced(k1, h1)'
      BY <1>1, <1>2, <1>5, RegistryClear
    <2> QED
      BY <1>1, <2>1 DEF RegistryInv
  <1>6. CASE UNCHANGED vars
    <2>1. Traced(k, h)'
      BY <1>2, <1>6, RegistryStays DEF vars
    <2> QED
      BY <1>1, <1>6, <2>1 DEF vars, RegistryInv
  <1>7. CASE \E r \in Rank : Advance(r)
    BY <1>1, <1>3, <1>7 DEF RegistryInv
  <1> QED
    BY <1>4, <1>5, <1>6, <1>7 DEF Next

(* A ghost keeps no list of ghosts: the list goes with the master. *)
LEMMA GhostsListNothing ==
  ASSUME Shape, NEW k, NEW h, Traced(k, h), NEW u \in Particle, NEW r \in Rank, IsGhost(r, u)
  PROVE  ps[r][u].ghosts = {}
  <1>1. u \in Shared
    BY DEF Traced, Quiet, Shared
  <1> DEFINE t == h[u]
             K == k[r]
             sl == ps[r][u]
  <1>2. /\ Tale(t, k) /\ t.len \in Nat /\ K \in Nat /\ Shows(t, u, r, K) /\ sl.kind = "ghost"
        /\ phase[r] \in {"integrate", "migrate", "update", "resolve", "parse"}
        /\ phase[r] # "migrate" => K # 0
    BY <1>1 DEF Traced, Tales, Tale, Control, Shown, IsGhost, Shape, ControlOK
  <1>3. ASSUME NEW c, Sound(c), sl = SlotIn(c, r)
        PROVE  sl.ghosts = {}
    BY <1>2, <1>3, SlotInFacts
  <1>4. CASE K > t.len
    <2>1. sl = SlotIn(t.ends[t.len], r) /\ Sound(t.ends[t.len])
      BY <1>2, <1>4, TaleFacts DEF Shows, ShowsLast
    <2> QED
      BY <1>3, <2>1
  <1>5. CASE K <= t.len
    <2>1. ShowsRound(t, u, r, K)
      BY <1>2, <1>5 DEF Shows
    <2>2. /\ Sound(t.ends[K])
          /\ phase[r] # "migrate" => Sound(t.ends[K - 1]) /\ Sound(t.mids[K])
      BY <1>2, <1>5, TaleFacts
    <2>3. CASE phase[r] = "integrate"
      BY <1>3, <2>1, <2>2, <2>3 DEF ShowsRound
    <2>4. CASE phase[r] = "migrate"
      <3>1. CASE r = t.ends[K].owner
        <4> DEFINE g == t.ends[K].holders \ {r}
                   m == t.ends[K].told[r]
        <4>1. sl = [kind |-> "master", owner |-> r, ghosts |-> g, told |-> m, pos |-> sl.pos]
          BY <2>1, <2>4, <3>1 DEF ShowsRound, Pushed
        <4> HIDE DEF g, m, sl
        <4>2. sl.kind = "master"
          BY <4>1
        <4> QED
          BY <1>2, <4>2
      <3>2. CASE r # t.ends[K].owner
        BY <1>3, <2>1, <2>2, <2>4, <3>2 DEF ShowsRound
      <3> QED
        BY <3>1, <3>2
    <2>5. CASE phase[r] = "update"
      BY <1>3, <2>1, <2>2, <2>5 DEF ShowsRound
    <2>6. CASE phase[r] = "resolve"
      BY <1>3, <2>1, <2>2, <2>6 DEF ShowsRound
    <2>7. CASE phase[r] = "parse"
      <3> DEFINE m == t.mids[K]
      <3>1. sl = Partly(m, r, pending[r])
        BY <2>1, <2>7 DEF ShowsRound
      <3> HIDE DEF m, sl
      <3>2. ASSUME NEW g, NEW w, sl = Kept(m, r, g, w)
            PROVE  sl.ghosts = {}
        BY <1>2, <3>2, KeptFields
      <3>3. ASSUME NEW o, NEW p, sl = NewGhost(o, p)
            PROVE  sl.ghosts = {}
        BY <3>3 DEF NewGhost
      <3>4. sl # Absent
        BY <1>2 DEF Absent
      <3>5. CASE r \in m.holders \ Retired(m)
        <4> DEFINE g == ((m.holders \ {r}) \cup UNION {Spread(m, s) : s \in Rank \ pending[r]}) \ (Retired(m) \ pending[r])
                   w == (m.told[r] \cup Spread(m, r)) \ (Retired(m) \ pending[r])
        <4>1. sl = Kept(m, r, g, w)
          BY <3>1, <3>5 DEF Partly
        <4> HIDE DEF g, w
        <4> QED
          BY <3>2, <4>1 DEF sl
      <3>6. CASE r \notin m.holders \ Retired(m)
        <4>1. sl = NewGhost(m.owner, Image[r][m.pos])
          BY <3>1, <3>4, <3>6 DEF Partly
        <4> QED
          BY <3>3, <4>1 DEF sl
      <3> QED
        BY <3>5, <3>6 DEF sl
    <2> QED
      BY <1>2, <2>3, <2>4, <2>5, <2>6, <2>7
  <1> QED
    BY <1>2, <1>4, <1>5

LEMMA RegistryTypes == RegistryInv => TypeOK
  <1> SUFFICES ASSUME RegistryInv PROVE TypeOK
    OBVIOUS
  <1>1. Shape
    BY DEF RegistryInv
  <1>2. PICK k, h : Traced(k, h)
    BY DEF RegistryInv
  <1>3. ASSUME NEW r \in Rank, NEW u \in Particle
        PROVE  SlotOK(r, ps[r][u])
    <2>1. StoredOK(r, ps[r][u])
      BY <1>1 DEF Shape, StoreOK
    <2>2. ps[r][u].kind = "ghost" => ps[r][u].ghosts = {}
      BY <1>1, <1>2, GhostsListNothing DEF IsGhost
    <2> QED
      BY <2>1, <2>2 DEF StoredOK, SlotOK
  <1> QED
    BY <1>1, <1>3 DEF TypeOK, Shape, StoreOK, MigratingOK, ResolvingOK, ControlOK

(* Whatever the order in which processes run ahead and buffers are parsed, some
   account of what has become of every particle explains all slots, all buffers
   under way and whom each process waits for. *)
THEOREM RegistryInvariant ==
  ASSUME ImagesAgree, StepsSeen
  PROVE  Spec => []RegistryInv
  <1>1. Init => RegistryInv
    BY RegistryInit
  <1>2. RegistryInv /\ [Next]_vars => RegistryInv'
    BY RegistryNext
  <1> QED
    BY <1>1, <1>2, PTL DEF Spec

(* For any number of processes and particles, and spheres that reach any number
   of subdomains, no WALBERLA_CHECK of SyncGhostOwners and ParseMessage fails: a
   particle finds a ghost where it moves to, a note finds the ghost or the master
   it is about, and no buffer is read for that of another call. *)
THEOREM GhostChecksHold ==
  ASSUME ImagesAgree, StepsSeen
  PROVE  Spec => []NoAbort
  <1>1. RegistryInv => NoAbort
    BY DEF RegistryInv, NoAbort
  <1> QED
    BY <1>1, RegistryInvariant, PTL

(* After a synchronization the list of ghosts of a master is exact, its ghosts
   name its process and lie where it lies, and whoever a process has marked as
   knowing a particle has it, also when the copies spread over processes that are
   no neighbours of each other. *)
THEOREM GhostNotesTrue ==
  ASSUME ImagesAgree, StepsSeen
  PROVE  Spec => []NotesTrue
  <1>1. RegistryInv => NotesTrue
    <2> SUFFICES ASSUME RegistryInv PROVE NotesTrue
      OBVIOUS
    <2>1. CASE Settled
      <3>1. Shape /\ \E k, h : Traced(k, h)
        BY DEF RegistryInv
      <3> QED
        BY <2>1, <3>1, SettledNotes
    <2>2. CASE ~Settled
      BY <2>2 DEF NotesTrue, RegistryExact, MarksTrue
    <2> QED
      BY <2>1, <2>2
  <1> QED
    BY <1>1, RegistryInvariant, PTL

(* Stores and buffers keep their types, a process is never on the list of its
   own master's ghosts, and a ghost keeps no list. *)
THEOREM GhostTypeCorrect ==
  ASSUME ImagesAgree, StepsSeen
  PROVE  Spec => []TypeOK
  BY RegistryTypes, RegistryInvariant, PTL
=============================================================================
